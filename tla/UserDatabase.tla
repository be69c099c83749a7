---------------------------- MODULE UserDatabase ----------------------------
(***************************************************************************)
(* UserDatabase (core/auth.cpp) with the PasswordHasher and the            *)
(* PasswordPolicyValidator it uses, and its file: every change of users_   *)
(* is saved at once, the file is read when the database is constructed.    *)
(*                                                                         *)
(* Text with colons in it is the sequence of the words between them, which *)
(* is all that save and load know of it.  hashPassword yields three words, *)
(* and load takes a line apart at its first two colons.  The stream that   *)
(* save writes through is flushed by the buffer, so a crash cuts the file  *)
(* anywhere, in a word or behind a colon too.                              *)
(***************************************************************************)
EXTENDS Integers, Sequences, SequencesExt

CONSTANTS
    UserNames,      \* in the order in which the map is written out: a sequence
    Passwords,
    Weak,           \* passwords the policy of createUserWithPolicy refuses
    Perms,          \* permission lists, as the text save makes of them
    Salts,          \* what generateSalt returns
    MaxWords        \* bound on the words of a line

ASSUME UserDatabaseConstants ==
    /\ UserNames \in Seq(Range(UserNames)) /\ IsInjective(UserNames)
    /\ Weak \subseteq Passwords /\ "none" \notin Passwords
    /\ MaxWords \in Nat

VARIABLES
    users,      \* users_: for the users there are, hash and permissions
    disk,       \* the file: a sequence of lines
    password,   \* history: the password each user was given since the file was read
    deleted,    \* history: deletions that reached the disk
    torn        \* history: users whose line a crash cut and who were not saved anew since

vars == <<users, disk, password, deleted, torn>>

Users == Range(UserNames)

Plain(p) == <<"plain", p>>
Salt(s) == <<"salt", s>>
Digest(s, p) == <<"digest", s, p>>
Perm(x) == <<"perm", x>>
Algorithm == <<"plain", "sha256">>
Empty == <<"empty">>        \* what stands behind a colon at the end of the text
Piece == <<"piece">>        \* the beginning of a word
Nothing == <<"nothing">>    \* no word at all

Words ==
    {Plain(p) : p \in Passwords} \cup {Algorithm} \cup {Salt(s) : s \in Salts}
    \cup {Digest(s, p) : s \in Salts, p \in Passwords} \cup {Perm(x) : x \in Perms}
    \cup {Empty, Piece}

NoUser == [exists |-> FALSE, hash |-> <<>>, permissions |-> <<>>]

\* The types of the database and of its file.
TypeOK ==
    /\ users \in [Users -> [exists : BOOLEAN, hash : Seq(Words),
                            permissions : Seq(Words)]]
    /\ disk \in Seq([user : Users, text : Seq(Words)])
    /\ password \in [Users -> Passwords \cup {"none"}]
    /\ deleted \subseteq Users /\ torn \subseteq Users

Init ==
    /\ users = [u \in Users |-> NoUser]
    /\ disk = <<>>
    /\ password = [u \in Users |-> "none"]
    /\ deleted = {} /\ torn = {}

----------------------------------------------------------------------------
\* PasswordHasher.

\* Mutant of HashPassword: salt and digest are swapped.
HashPasswordSwapped(p, s) == <<Algorithm, Digest(s, p), Salt(s)>>

HashPassword(p, s) == <<Algorithm, Salt(s), Digest(s, p)>>

\* The text begins with "sha256:".
IsHashed(h) == Len(h) >= 2 /\ h[1] = Algorithm

VerifyPassword(p, h) ==
    IF ~IsHashed(h) THEN h = <<Plain(p)>>
    ELSE /\ Len(h) >= 3
         /\ \E s \in Salts : h[2] = Salt(s) /\ SubSeq(h, 3, Len(h)) = <<Digest(s, p)>>

----------------------------------------------------------------------------
\* The file.

SavedLine(us, u) == [user |-> u, text |-> us[u].hash \o us[u].permissions]

\* One turn of the loop of save().
SaveUser(us, ls, u) == IF us[u].exists THEN Append(ls, SavedLine(us, u)) ELSE ls

SavedLines(us) == FoldLeft(LAMBDA ls, u : SaveUser(us, ls, u), <<>>, UserNames)

\* Mutant of LoadedUser: the fields after the third are dropped.
LoadedUserShort(l) ==
    [exists |-> TRUE, hash |-> SubSeq(l.text, 1, 1), permissions |-> SubSeq(l.text, 2, 3)]

\* The hash is what stands between the first two colons, the rest are permissions; none
\* when there is no rest.
LoadedUser(l) ==
    [exists |-> TRUE, hash |-> SubSeq(l.text, 1, 1),
     permissions |-> IF Len(l.text) = 2 /\ l.text[2] = Empty THEN <<>>
                     ELSE SubSeq(l.text, 2, Len(l.text))]

\* load() into an empty map; a line without a second colon is skipped.
Loaded(ls) ==
    [u \in Users |->
        LET own == {i \in 1..Len(ls) : ls[i].user = u /\ Len(ls[i].text) >= 2} IN
        IF own = {} THEN NoUser
        ELSE LoadedUser(ls[CHOOSE i \in own : \A j \in own : j <= i])]

\* Mutant of Save: lines are added to the file, none is removed.
SaveAppends(ls, how) == disk' = disk \o SelectSeq(ls, LAMBDA l : ~Contains(disk, l))

\* How save() ends.  A crash leaves whole lines, and of the next one whole words and
\* perhaps a piece of the word after them; a piece of the user's name is no line to load.
Outcomes ==
    [end : {"ok", "failed"}, lines : {0}, words : {0}, cut : {Nothing}]
    \cup [end : {"crash"}, lines : 0..Len(UserNames), words : {0}, cut : {Nothing}]
    \cup [end : {"crash"}, lines : 0..(Len(UserNames) - 1), words : 0..MaxWords,
          cut : {Empty, Piece}]

\* The outcome fits the lines that are to be written.
Possible(ls, how) ==
    /\ how.lines <= Len(ls)
    /\ how.cut # Nothing =>
          how.lines < Len(ls) /\ how.words < Len(ls[how.lines + 1].text)

CutLine(l, how) == [l EXCEPT !.text = Append(SubSeq(@, 1, how.words), how.cut)]

LeftByCrash(ls, how) ==
    IF how.cut = Nothing THEN SubSeq(ls, 1, how.lines)
    ELSE Append(SubSeq(ls, 1, how.lines), CutLine(ls[how.lines + 1], how))

\* save() of the lines ls: the file is truncated and written; or it cannot be opened, and
\* no caller looks at the result; or the process dies with the file half written.
Save(ls, how) ==
    disk' = CASE how.end = "ok" -> ls
              [] how.end = "failed" -> disk
              [] how.end = "crash" -> LeftByCrash(ls, how)

\* The users become us, by a change of u, and are saved; after a crash they are read from
\* the file.
Change(u, us, how) ==
    LET ls == SavedLines(us) IN
    /\ Possible(ls, how)
    /\ Save(ls, how)
    /\ users' = IF how.end = "crash" THEN Loaded(disk') ELSE us
    /\ torn' = IF how.end = "failed" THEN torn
               ELSE (torn \ {u}) \cup
                    {v \in Users : how.cut # Nothing /\ v = ls[how.lines + 1].user}

\* u is given p; the file is read after a crash, and with it goes what was known.
Gives(u, p, how) ==
    password' = IF how.end = "crash" THEN [v \in Users |-> "none"]
                ELSE [password EXCEPT ![u] = p]

----------------------------------------------------------------------------
\* createUser, or createUserWithPolicy with a password its policy accepts.
CreateUser(u, p, s, perm, policy, how) ==
    /\ ~users[u].exists
    /\ policy => p \notin Weak
    /\ Change(u, [users EXCEPT ![u] = [exists |-> TRUE, hash |-> HashPassword(p, s),
                                       permissions |-> perm]], how)
    /\ Gives(u, p, how)
    /\ deleted' = deleted \ {u}

UpdatePassword(u, p, s, how) ==
    /\ users[u].exists
    /\ Len(users[u].permissions) + 3 <= MaxWords
    /\ Change(u, [users EXCEPT ![u].hash = HashPassword(p, s)], how)
    /\ Gives(u, p, how)
    /\ UNCHANGED deleted

DeleteUser(u, how) ==
    /\ users[u].exists
    /\ Change(u, [users EXCEPT ![u] = NoUser], how)
    /\ Gives(u, "none", how)
    /\ deleted' = IF how.end = "failed" THEN deleted ELSE deleted \cup {u}

\* The database is constructed again, or load() is called; nobody is left when the file
\* cannot be opened.
Load(opened) ==
    /\ users' = Loaded(IF opened THEN disk ELSE <<>>)
    /\ password' = [u \in Users |-> "none"]
    /\ UNCHANGED <<disk, deleted, torn>>

Next ==
    \/ \E opened \in BOOLEAN : Load(opened)
    \/ \E u \in Users, how \in Outcomes :
          \/ DeleteUser(u, how)
          \/ \E p \in Passwords, s \in Salts :
                \/ UpdatePassword(u, p, s, how)
                \/ \E perm \in {<<>>} \cup {<<Perm(x)>> : x \in Perms}, policy \in BOOLEAN :
                      CreateUser(u, p, s, perm, policy, how)

Spec == Init /\ [][Next]_vars

----------------------------------------------------------------------------
\* The texts that stand for u in a file.
TextsOf(ls, u) == {ls[i].text : i \in {j \in 1..Len(ls) : ls[j].user = u}}

\* What load makes of a line save writes back unchanged, although load takes it apart at
\* other places than save put it together.  A crash spoils one user and no other: what
\* it left of the line that was being written is dropped by load or read as other words,
\* now or some loads later, until that user is saved anew; all other lines survive any
\* number of loads, saves and further crashes.
FileSurvivesLoad ==
    \A u \in Users \ torn : TextsOf(SavedLines(Loaded(disk)), u) = TextsOf(disk, u)

\* A user whose deletion reached the disk, also when the process died half way through
\* writing it, does not come back.
DeletedStaysDeleted == \A u \in deleted : ~users[u].exists

\* Until the file is read again, a user has the password he was given last, whatever
\* changes and failing saves come in between, and no other.  (Reading the file takes it
\* away: load ends the hash at its first colon, auth.cpp:475.)
PasswordHolds ==
    \A u \in Users : password[u] # "none" =>
        /\ users[u].exists
        /\ \A p \in Passwords : VerifyPassword(p, users[u].hash) <=> p = password[u]
=============================================================================
