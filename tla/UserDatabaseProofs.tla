------------------------- MODULE UserDatabaseProofs -------------------------
(***************************************************************************)
(* The user database and its file, for every list of user names, any       *)
(* passwords, salts and permission lists.                                  *)
(*                                                                         *)
(* None of the three properties is inductive: a line survives load because *)
(* the lines stand in the order of the map, one for each user, and because *)
(* it is sound, long enough for load to take all of it.  A crash leaves a  *)
(* line that is not, and so may its user be in memory: soundness is stated *)
(* of both, for the users that no crash has cut.  A deleted user must be   *)
(* missing from the file as well as from memory.                           *)
(***************************************************************************)
EXTENDS UserDatabase, SequenceTheorems, WellFoundedInduction, TLAPS

N == Len(UserNames)
UserRecords == [exists : BOOLEAN, hash : Seq(Words), permissions : Seq(Words)]
LineRecords == [user : Users, text : Seq(Words)]

LEMMA NamesFacts ==
    /\ N \in Nat
    /\ \A k \in 1..N : UserNames[k] \in Users
    /\ \A u \in Users : \E k \in 1..N : u = UserNames[k]
    /\ \A a, b \in 1..N : UserNames[a] = UserNames[b] => a = b
  <1>1. UserNames \in Seq(Range(UserNames)) /\ DOMAIN UserNames = 1..N
    BY UserDatabaseConstants DEF N
  <1>2. N \in Nat
    BY <1>1 DEF N
  <1>3. Users = {UserNames[k] : k \in 1..N}
    BY <1>1 DEF Users, Range
  <1>4. \A a, b \in 1..N : UserNames[a] = UserNames[b] => a = b
    BY <1>1, UserDatabaseConstants DEF IsInjective
  <1> QED
    BY <1>2, <1>3, <1>4

----------------------------------------------------------------------------
\* The least number principle, from the well-foundedness of < on Nat.
LEMMA LeastNumber ==
    ASSUME NEW T, T \subseteq Nat, T # {}
    PROVE  \E n \in T : \A m \in T : n <= m
  <1>1. PICK n \in T : \A m \in T : ~(<<m, n>> \in OpToRel(<, Nat))
    BY NatLessThanWellFounded, WFMin
  <1>2. ASSUME NEW m \in T PROVE n <= m
    <2>1. ~(<<m, n>> \in {p \in Nat \X Nat : p[1] < p[2]})
      BY <1>1 DEF OpToRel
    <2> QED
      BY <2>1
  <1> QED
    BY <1>2

LEMMA Greatest ==
    ASSUME NEW n \in Nat, NEW S \in SUBSET (1..n), S # {}
    PROVE  \E x \in S : \A y \in S : y <= x
  <1> DEFINE T == {n - x : x \in S}
  <1>1. T \subseteq Nat /\ T # {}
    <2>1. ASSUME NEW x \in S PROVE n - x \in Nat
      <3>1. x \in 1..n
        OBVIOUS
      <3> QED
        BY <3>1
    <2>2. \A x \in S : n - x \in Nat
      BY <2>1
    <2> QED
      BY <2>2, Zenon
  <1> HIDE DEF T
  <1>2. PICK d \in T : \A e \in T : d <= e
    BY <1>1, LeastNumber
  <1>3. PICK x \in S : d = n - x
    BY DEF T
  <1>4. ASSUME NEW y \in S PROVE y <= x
    <2>1. n - y \in T
      BY DEF T
    <2>2. x \in Int /\ y \in Int /\ n - x <= n - y
      BY <1>2, <1>3, <2>1
    <2> QED
      BY <2>2
  <1> QED
    BY <1>4

LEMMA MaxOf ==
    ASSUME NEW n \in Nat, NEW S \in SUBSET (1..n), S # {}
    PROVE  Max(S) \in S /\ \A y \in S : y <= Max(S)
  <1>1. PICK x \in S : \A y \in S : y <= x
    BY Greatest
  <1>2. \E z \in S : \A y \in S : z >= y
    <2>1. ASSUME NEW y \in S PROVE x >= y
      <3>1. y <= x /\ x \in 1..n /\ y \in 1..n
        BY <1>1
      <3> QED
        BY <3>1
    <2> QED
      BY <2>1
  <1>3. Max(S) \in S /\ \A y \in S : Max(S) >= y
    BY <1>2 DEF Max
  <1> QED
    BY <1>3

----------------------------------------------------------------------------
\* SavedLines, user by user.

FoldStep(us, S, it) ==
    IF S = {} THEN <<>> ELSE SaveUser(us, it[S \ {Max(S)}], UserNames[Max(S)])

IsFold(it, us, n) == it = [S \in SUBSET (1..n) |-> FoldStep(us, S, it)]

LEMMA FoldExtends ==
    ASSUME NEW us, NEW k \in Nat \ {0}, NEW g, IsFold(g, us, k - 1)
    PROVE  \E h : IsFold(h, us, k)
  <1> DEFINE h == [S \in SUBSET (1..k) |->
                     IF k \in S THEN SaveUser(us, g[S \ {k}], UserNames[k]) ELSE g[S]]
  <1>1. ASSUME NEW S \in SUBSET (1..k) PROVE h[S] = FoldStep(us, S, h)
    <2>1. CASE k \in S
      <3>1. Max(S) \in S /\ Max(S) >= k
        BY <2>1, MaxOf
      <3>2. Max(S) = k
        <4>1. Max(S) \in 1..k
          BY <3>1
        <4> QED
          BY <3>1, <4>1
      <3>3. h[S \ {k}] = g[S \ {k}]
        OBVIOUS
      <3>4. h[S] = SaveUser(us, g[S \ {k}], UserNames[k])
        BY <2>1
      <3> QED
        BY <2>1, <3>2, <3>3, <3>4, Zenon DEF FoldStep
    <2>2. CASE k \notin S
      <3>1. S \in SUBSET (1..(k - 1))
        BY <2>2
      <3>2. h[S] = g[S]
        BY <2>2
      <3>3. g[S] = FoldStep(us, S, g)
        BY <3>1 DEF IsFold
      <3>4. CASE S = {}
        BY <3>2, <3>3, <3>4 DEF FoldStep
      <3>5. CASE S # {}
        <4>1. k \notin S \ {Max(S)} /\ S \ {Max(S)} \in SUBSET (1..k)
          BY <2>2
        <4>2. h[S \ {Max(S)}] = g[S \ {Max(S)}]
          BY <4>1
        <4> HIDE DEF h
        <4> QED
          BY <3>2, <3>3, <3>5, <4>2 DEF FoldStep
      <3> QED
        BY <3>4, <3>5
    <2> QED
      BY <2>1, <2>2
  <1>2. h = [S \in SUBSET (1..k) |-> h[S]]
    OBVIOUS
  <1>3. h = [S \in SUBSET (1..k) |-> FoldStep(us, S, h)]
    <2> HIDE DEF h
    <2> QED
      BY <1>1, <1>2, Zenon
  <1> QED
    BY <1>3, Zenon DEF IsFold

LEMMA FoldExists ==
    ASSUME NEW us, NEW n \in Nat
    PROVE  \E it : IsFold(it, us, n)
  <1> DEFINE T == {k \in Nat : ~\E it : IsFold(it, us, k)}
  <1> SUFFICES ASSUME T # {} PROVE FALSE
    OBVIOUS
  <1>1. T \subseteq Nat
    OBVIOUS
  <1> HIDE DEF T
  <1>2. PICK k \in T : \A m \in T : k <= m
    BY <1>1, LeastNumber
  <1>3. k \in Nat /\ ~\E it : IsFold(it, us, k)
    BY DEF T
  <1>4. CASE k = 0
    <2> DEFINE g == [S \in SUBSET (1..0) |-> <<>>]
    <2>1. ASSUME NEW S \in SUBSET (1..0) PROVE <<>> = FoldStep(us, S, g)
      <3>1. S = {}
        OBVIOUS
      <3> QED
        BY <3>1 DEF FoldStep
    <2>2. IsFold(g, us, 0)
      <3> HIDE DEF g
      <3>1. g = [S \in SUBSET (1..0) |-> <<>>]
        BY DEF g
      <3> QED
        BY <2>1, <3>1, Zenon DEF IsFold
    <2> QED
      BY <1>3, <1>4, <2>2, Zenon
  <1>5. CASE k # 0
    <2>1. k - 1 \in Nat /\ ~(k <= k - 1)
      BY <1>3, <1>5
    <2>2. PICK g : IsFold(g, us, k - 1)
      BY <1>2, <2>1 DEF T
    <2> QED
      BY <1>3, <1>5, <2>2, FoldExtends
  <1> QED
    BY <1>4, <1>5

\* The file after each turn of the loop of save().
Turns(acc, us) ==
    /\ acc[0] = <<>>
    /\ \A k \in 1..N : acc[k] = SaveUser(us, acc[k - 1], UserNames[k])

LEMMA SavedLinesTurns ==
    ASSUME NEW us
    PROVE  \E acc : Turns(acc, us) /\ SavedLines(us) = acc[N]
  <1> DEFINE it == CHOOSE f : f = [S \in SUBSET DOMAIN UserNames |-> FoldStep(us, S, f)]
  <1>1. DOMAIN UserNames = 1..N /\ N \in Nat
    BY UserDatabaseConstants DEF N
  <1>2. SavedLines(us) = it[DOMAIN UserNames]
    BY Zenon DEF SavedLines, FoldLeft, MapThenFoldSet, FoldStep
  <1>3. \E f : f = [S \in SUBSET DOMAIN UserNames |-> FoldStep(us, S, f)]
    <2>1. \E f : IsFold(f, us, N)
      BY <1>1, FoldExists
    <2> QED
      BY <1>1, <2>1, Zenon DEF IsFold
  <1>4. it = [S \in SUBSET DOMAIN UserNames |-> FoldStep(us, S, it)]
    BY <1>3, Zenon
  <1> HIDE DEF it
  <1>5. it = [S \in SUBSET (1..N) |-> FoldStep(us, S, it)]
    BY <1>1, <1>4
  <1> DEFINE acc == [k \in 0..N |-> it[1..k]]
  <1>6. acc[0] = <<>>
    <2>1. it[1..0] = <<>>
      BY <1>5 DEF FoldStep
    <2> QED
      BY <1>1, <2>1
  <1>7. ASSUME NEW k \in 1..N PROVE acc[k] = SaveUser(us, acc[k - 1], UserNames[k])
    <2>1. k \in Nat /\ 1 <= k /\ k <= N
      BY <1>1
    <2>2. 1..k \subseteq 1..N /\ k \in 1..k
      BY <1>1, <2>1
    <2>3. 1..k \in SUBSET (1..N) /\ 1..k # {}
      BY <2>2, Zenon
    <2>4. Max(1..k) \in 1..k /\ Max(1..k) >= k
      BY <2>1, <2>2, <2>3, MaxOf
    <2>5. Max(1..k) = k
      BY <2>1, <2>4
    <2>6. (1..k) \ {k} = 1..(k - 1)
      BY <2>1
    <2>7. it[1..k] = FoldStep(us, 1..k, it)
      BY <1>5, <2>3
    <2>8. it[1..k] = SaveUser(us, it[1..(k - 1)], UserNames[k])
      BY <2>3, <2>5, <2>6, <2>7, Zenon DEF FoldStep
    <2>9. acc[k] = it[1..k] /\ acc[k - 1] = it[1..(k - 1)]
      BY <1>1, <2>1
    <2> HIDE DEF acc
    <2> QED
      BY <2>8, <2>9, Zenon
  <1>8. SavedLines(us) = acc[N]
    BY <1>1, <1>2
  <1> HIDE DEF acc
  <1> QED
    BY <1>6, <1>7, <1>8 DEF Turns
----------------------------------------------------------------------------
\* What is true of every file: the lines stand in the order of the names, so that no user
\* has two.  Of a file that save() finished each line is the text of its user besides.

InOrder(ls) ==
    \A i, j \in 1..Len(ls), a, b \in 1..N :
        i < j /\ ls[i].user = UserNames[a] /\ ls[j].user = UserNames[b] => a < b
GoodFile(ls) == ls \in Seq(LineRecords) /\ InOrder(ls)
GoodUsers(us) == us \in [Users -> UserRecords]

TextOf(us, u) == us[u].hash \o us[u].permissions
Mirrors(ls, us) ==
    \A i \in 1..Len(ls) :
        us[ls[i].user].exists /\ ls[i].text = TextOf(us, ls[i].user)
Lists(ls, us, k) ==
    \A a \in 1..k : us[UserNames[a]].exists =>
        \E i \in 1..Len(ls) : ls[i].user = UserNames[a]

LEMMA SavedLineGood ==
    ASSUME NEW us, GoodUsers(us), NEW u \in Users
    PROVE  /\ SavedLine(us, u) \in LineRecords
           /\ SavedLine(us, u).user = u
           /\ SavedLine(us, u).text = TextOf(us, u)
  <1>1. us[u].hash \in Seq(Words) /\ us[u].permissions \in Seq(Words)
    BY DEF GoodUsers, UserRecords
  <1>2. TextOf(us, u) \in Seq(Words)
    BY <1>1, ConcatProperties DEF TextOf
  <1>3. SavedLine(us, u) = [user |-> u, text |-> TextOf(us, u)]
    BY DEF SavedLine, TextOf
  <1> QED
    BY <1>2, <1>3 DEF LineRecords

\* After the first k names.
Written(ls, us, k) ==
    /\ GoodFile(ls) /\ Mirrors(ls, us) /\ Lists(ls, us, k)
    /\ \A i \in 1..Len(ls) : \E a \in 1..k : ls[i].user = UserNames[a]

LEMMA WrittenTurn ==
    ASSUME NEW us, GoodUsers(us), NEW k \in 1..N, NEW ls, Written(ls, us, k - 1)
    PROVE  Written(SaveUser(us, ls, UserNames[k]), us, k)
  <1>0. N \in Nat /\ k \in Nat /\ 1 <= k /\ k <= N
    BY NamesFacts
  <1>1. CASE ~us[UserNames[k]].exists
    <2>1. \A i \in 1..Len(ls) : \E a \in 1..k : ls[i].user = UserNames[a]
      <3> SUFFICES ASSUME NEW i \in 1..Len(ls)
                   PROVE  \E a \in 1..k : ls[i].user = UserNames[a]
        OBVIOUS
      <3>1. PICK a \in 1..(k - 1) : ls[i].user = UserNames[a]
        BY DEF Written
      <3>2. a \in 1..k
        BY <1>0
      <3> QED
        BY <3>1, <3>2
    <2>2. Lists(ls, us, k)
      <3> SUFFICES ASSUME NEW a \in 1..k, us[UserNames[a]].exists
                   PROVE  \E i \in 1..Len(ls) : ls[i].user = UserNames[a]
        BY DEF Lists
      <3>1. a \in 1..(k - 1)
        BY <1>0, <1>1
      <3> QED
        BY <3>1 DEF Written, Lists
    <2> QED
      BY <1>1, <2>1, <2>2 DEF Written, SaveUser
  <1>2. CASE us[UserNames[k]].exists
    <2> DEFINE u == UserNames[k]
               line == SavedLine(us, u)
               new == Append(ls, line)
               n == Len(ls)
    <2>1. u \in Users /\ line \in LineRecords /\ line.user = u /\ line.text = TextOf(us, u)
      BY NamesFacts, SavedLineGood
    <2>2. ls \in Seq(LineRecords)
      BY DEF Written, GoodFile
    <2> HIDE DEF line
    <2>3. /\ n \in Nat /\ new \in Seq(LineRecords) /\ Len(new) = n + 1
          /\ \A i \in 1..n : new[i] = ls[i]
          /\ new[n + 1] = line
      BY <2>1, <2>2, AppendProperties
    <2> HIDE DEF new
    <2>4. ASSUME NEW i \in 1..Len(new)
          PROVE  i = n + 1 \/ (i \in 1..n /\ new[i] = ls[i])
      BY <2>3
    <2>5. ASSUME NEW i \in 1..n PROVE \E a \in 1..(k - 1) : ls[i].user = UserNames[a]
      BY DEF Written
    <2>6. Mirrors(new, us)
      BY <1>2, <2>1, <2>3, <2>4 DEF Mirrors, Written
    <2>7. Lists(new, us, k)
      <3> SUFFICES ASSUME NEW a \in 1..k, us[UserNames[a]].exists
                   PROVE  \E i \in 1..Len(new) : new[i].user = UserNames[a]
        BY DEF Lists
      <3>1. CASE a = k
        <4>1. n + 1 \in 1..Len(new) /\ new[n + 1].user = UserNames[a]
          BY <2>1, <2>3, <3>1
        <4> QED
          BY <4>1
      <3>2. CASE a # k
        <4>1. a \in 1..(k - 1)
          BY <1>0, <3>2
        <4>2. PICK i \in 1..n : ls[i].user = UserNames[a]
          BY <4>1 DEF Written, Lists
        <4>3. i \in 1..Len(new) /\ new[i].user = UserNames[a]
          BY <2>3, <4>2
        <4> QED
          BY <4>3
      <3> QED
        BY <3>1, <3>2
    <2>8. \A i \in 1..Len(new) : \E a \in 1..k : new[i].user = UserNames[a]
      <3> SUFFICES ASSUME NEW i \in 1..Len(new)
                   PROVE  \E a \in 1..k : new[i].user = UserNames[a]
        OBVIOUS
      <3>1. CASE i = n + 1
        <4>1. k \in 1..k /\ new[i].user = UserNames[k]
          BY <1>0, <2>1, <2>3, <3>1
        <4> QED
          BY <4>1
      <3>2. CASE i \in 1..n /\ new[i] = ls[i]
        <4>1. PICK a \in 1..(k - 1) : ls[i].user = UserNames[a]
          BY <2>5, <3>2
        <4>2. a \in 1..k
          BY <1>0
        <4> QED
          BY <3>2, <4>1, <4>2
      <3> QED
        BY <2>4, <3>1, <3>2
    <2>9. InOrder(new)
      <3> SUFFICES ASSUME NEW i \in 1..Len(new), NEW j \in 1..Len(new),
                          NEW a \in 1..N, NEW b \in 1..N, i < j,
                          new[i].user = UserNames[a], new[j].user = UserNames[b]
                   PROVE  a < b
        BY DEF InOrder
      <3>1. i \in 1..n /\ new[i] = ls[i]
        BY <2>3, <2>4
      <3>2. CASE j = n + 1
        <4>1. b = k
          BY <1>0, <2>1, <2>3, <3>2, NamesFacts
        <4>2. PICK c \in 1..(k - 1) : ls[i].user = UserNames[c]
          BY <2>5, <3>1
        <4>3. c \in 1..N /\ c < k
          BY <1>0
        <4>4. a = c
          BY <3>1, <4>2, <4>3, NamesFacts
        <4> QED
          BY <4>1, <4>3, <4>4
      <3>3. CASE j \in 1..n /\ new[j] = ls[j]
        BY <3>1, <3>3 DEF Written, GoodFile, InOrder
      <3> QED
        BY <2>4, <3>2, <3>3
    <2>10. Written(new, us, k)
      BY <2>3, <2>6, <2>7, <2>8, <2>9 DEF Written, GoodFile
    <2> QED
      BY <1>2, <2>10 DEF SaveUser, new, line
  <1> QED
    BY <1>1, <1>2

LEMMA SavedLinesGood ==
    ASSUME NEW us, GoodUsers(us)
    PROVE  /\ GoodFile(SavedLines(us)) /\ Mirrors(SavedLines(us), us)
           /\ Lists(SavedLines(us), us, N)
  <1>0. N \in Nat
    BY NamesFacts
  <1>1. PICK acc : Turns(acc, us) /\ SavedLines(us) = acc[N]
    BY SavedLinesTurns
  <1> DEFINE T == {k \in 0..N : ~Written(acc[k], us, k)}
  <1>2. SUFFICES ASSUME T # {} PROVE FALSE
    <2>1. N \in 0..N
      BY <1>0
    <2> QED
      BY <1>1, <2>1 DEF Written
  <1>3. T \subseteq Nat
    OBVIOUS
  <1> HIDE DEF T
  <1>4. PICK k \in T : \A m \in T : k <= m
    BY <1>2, <1>3, LeastNumber
  <1>5. k \in 0..N /\ ~Written(acc[k], us, k)
    BY DEF T
  <1>6. CASE k = 0
    <2>1. acc[0] = <<>>
      BY <1>1 DEF Turns
    <2>2. Written(<<>>, us, 0)
      BY DEF Written, GoodFile, InOrder, Mirrors, Lists
    <2> QED
      BY <1>5, <1>6, <2>1, <2>2
  <1>7. CASE k # 0
    <2>1. k \in 1..N /\ k - 1 \in 0..N /\ ~(k <= k - 1)
      BY <1>0, <1>5, <1>7
    <2>2. Written(acc[k - 1], us, k - 1)
      BY <1>4, <2>1 DEF T
    <2>3. acc[k] = SaveUser(us, acc[k - 1], UserNames[k])
      BY <1>1, <2>1 DEF Turns
    <2> QED
      BY <1>5, <2>1, <2>2, <2>3, WrittenTurn
  <1> QED
    BY <1>6, <1>7

\* A crash leaves lines as they are, but for a last one that it cut.
CutShort(left, ls, how) ==
    \A i \in 1..Len(left) :
        /\ i \in 1..Len(ls) /\ left[i].user = ls[i].user
        /\ left[i] = ls[i] \/ (how.cut # Nothing /\ i = how.lines + 1)

LEMMA CrashLeaves ==
    ASSUME NEW ls, GoodFile(ls), NEW how \in Outcomes, Possible(ls, how)
    PROVE  /\ GoodFile(LeftByCrash(ls, how))
           /\ CutShort(LeftByCrash(ls, how), ls, how)
  <1> DEFINE n == how.lines
             p == SubSeq(ls, 1, n)
  <1>0. /\ n \in Nat /\ how.words \in Nat
        /\ how.cut = Nothing \/ how.cut \in {Empty, Piece}
    <2>1. N \in Nat /\ MaxWords \in Nat
      BY NamesFacts, UserDatabaseConstants
    <2> QED
      BY <2>1 DEF Outcomes, N
  <1>1. ls \in Seq(LineRecords) /\ Len(ls) \in Nat /\ n <= Len(ls)
    BY DEF GoodFile, Possible
  <1>2. \A i \in 1..n : i \in 1..Len(ls)
    BY <1>0, <1>1
  <1>3. \A i \in 1..n : ls[i] \in LineRecords
    BY <1>1, <1>2
  <1>4. p \in Seq(LineRecords) /\ Len(p) = n /\ \A i \in 1..n : p[i] = ls[i]
    <2>1. /\ p \in Seq(LineRecords) /\ Len(p) = IF 1 <= n THEN n - 1 + 1 ELSE 0
          /\ \A i \in 1..(n - 1 + 1) : p[i] = ls[1 + i - 1]
      BY <1>0, <1>3, SubSeqProperties
    <2> HIDE DEF p
    <2> QED
      BY <1>0, <2>1
  <1> HIDE DEF p
  \* In either case the lines have the users of ls.
  <1>5. ASSUME NEW left \in Seq(LineRecords), CutShort(left, ls, how)
        PROVE  GoodFile(left)
    BY <1>5 DEF GoodFile, InOrder, CutShort
  <1>6. CASE how.cut = Nothing
    <2>1. LeftByCrash(ls, how) = p
      BY <1>6 DEF LeftByCrash, p
    <2>2. CutShort(p, ls, how)
      BY <1>2, <1>4 DEF CutShort
    <2> QED
      BY <1>4, <1>5, <2>1, <2>2
  <1>7. CASE how.cut # Nothing
    <2> DEFINE l == ls[n + 1]
               text == Append(SubSeq(l.text, 1, how.words), how.cut)
               line == [l EXCEPT !.text = text]
               left == Append(p, line)
    <2>1. n + 1 \in 1..Len(ls) /\ l \in LineRecords /\ how.words < Len(l.text)
      <3>1. n < Len(ls) /\ how.words < Len(l.text)
        BY <1>7 DEF Possible
      <3>2. n + 1 \in 1..Len(ls)
        BY <1>0, <1>1, <3>1
      <3> QED
        BY <1>1, <3>1, <3>2
    <2>2. text \in Seq(Words)
      <3>1. l.text \in Seq(Words) /\ Len(l.text) \in Nat
        BY <2>1 DEF LineRecords
      <3>2. \A i \in 1..how.words : l.text[i] \in Words
        BY <1>0, <2>1, <3>1
      <3>3. SubSeq(l.text, 1, how.words) \in Seq(Words)
        BY <1>0, <3>2, SubSeqProperties
      <3>4. how.cut \in Words
        BY <1>0, <1>7 DEF Words
      <3> QED
        BY <3>3, <3>4, AppendProperties
    <2> HIDE DEF text
    <2>3. line \in LineRecords /\ line.user = l.user
      BY <2>1, <2>2 DEF LineRecords
    <2> HIDE DEF line
    <2>4. /\ left \in Seq(LineRecords) /\ Len(left) = n + 1
          /\ \A i \in 1..n : left[i] = p[i]
          /\ left[n + 1] = line
      BY <1>4, <2>3, AppendProperties
    <2> HIDE DEF left
    <2>5. CutShort(left, ls, how)
      <3> SUFFICES ASSUME NEW i \in 1..Len(left)
                   PROVE  /\ i \in 1..Len(ls) /\ left[i].user = ls[i].user
                          /\ left[i] = ls[i] \/ (how.cut # Nothing /\ i = n + 1)
        BY DEF CutShort
      <3>1. CASE i = n + 1
        BY <1>7, <2>1, <2>3, <2>4, <3>1
      <3>2. CASE i # n + 1
        <4>1. i \in 1..n
          BY <1>0, <2>4, <3>2
        <4> QED
          BY <1>2, <1>4, <2>4, <4>1
      <3> QED
        BY <3>1, <3>2
    <2>6. LeftByCrash(ls, how) = left
      BY <1>7 DEF LeftByCrash, CutLine, left, line, text, p
    <2> QED
      BY <1>5, <2>4, <2>5, <2>6
  <1> QED
    BY <1>6, <1>7

----------------------------------------------------------------------------
\* What load() makes of a file.  A text is sound when load takes it, and all of it.

Sound(t) == Len(t) >= 2 /\ ~(Len(t) = 2 /\ t[2] = Empty)
SoundUser(us, u) == us[u].exists => Sound(TextOf(us, u))
SoundLines(ls, u) == \A i \in 1..Len(ls) : ls[i].user = u => Sound(ls[i].text)

LoadLines(ls, u) == {i \in 1..Len(ls) : ls[i].user = u /\ Len(ls[i].text) >= 2}
LastLine(ls, u) == CHOOSE i \in LoadLines(ls, u) : \A j \in LoadLines(ls, u) : j <= i

LEMMA LoadedFacts ==
    ASSUME NEW ls \in Seq(LineRecords), NEW u \in Users
    PROVE  /\ LoadLines(ls, u) = {} => Loaded(ls)[u] = NoUser
           /\ LoadLines(ls, u) # {} =>
                LastLine(ls, u) \in LoadLines(ls, u)
                /\ Loaded(ls)[u] = LoadedUser(ls[LastLine(ls, u)])
  <1>1. LoadLines(ls, u) \in SUBSET (1..Len(ls)) /\ Len(ls) \in Nat
    BY DEF LoadLines
  <1>2. LoadLines(ls, u) # {} => LastLine(ls, u) \in LoadLines(ls, u)
    BY <1>1, Greatest DEF LastLine
  <1>3. Loaded(ls)[u] = IF LoadLines(ls, u) = {} THEN NoUser
                        ELSE LoadedUser(ls[LastLine(ls, u)])
    BY DEF Loaded, LoadLines, LastLine
  <1> QED
    BY <1>2, <1>3

LEMMA Halves ==
    ASSUME NEW t \in Seq(Words), Len(t) >= 2
    PROVE  /\ SubSeq(t, 1, 1) \in Seq(Words) /\ SubSeq(t, 2, Len(t)) \in Seq(Words)
           /\ SubSeq(t, 1, 1) \o SubSeq(t, 2, Len(t)) = t
  <1>0. Len(t) \in Nat /\ \A i \in 1..Len(t) : t[i] \in Words
    OBVIOUS
  <1>1. \A i \in 1..1 : t[i] \in Words
    BY <1>0
  <1>2. \A i \in 2..Len(t) : t[i] \in Words
    BY <1>0
  <1>3. SubSeq(t, 1, 1) \in Seq(Words) /\ SubSeq(t, 2, Len(t)) \in Seq(Words)
    BY <1>0, <1>1, <1>2, SubSeqProperties
  <1>4. SubSeq(t, 1, 1) \o SubSeq(t, 2, Len(t)) = t
    <2>1. 1 \in 1..(Len(t) + 1) /\ 1 \in (1 - 1)..Len(t) /\ Len(t) \in 1..Len(t)
      BY <1>0
    <2>2. SubSeq(t, 1, 1) \o SubSeq(t, 1 + 1, Len(t)) = SubSeq(t, 1, Len(t))
      BY <2>1, ConcatAdjacentSubSeq
    <2>3. SubSeq(t, 1, Len(t)) = t
      BY SubSeqFull
    <2>4. 1 + 1 = 2
      OBVIOUS
    <2> QED
      BY <2>2, <2>3, <2>4, Zenon
  <1> QED
    BY <1>3, <1>4

LEMMA LoadedLine ==
    ASSUME NEW l \in LineRecords, Len(l.text) >= 2
    PROVE  /\ LoadedUser(l) \in UserRecords /\ LoadedUser(l).exists
           /\ Sound(l.text) => LoadedUser(l).hash \o LoadedUser(l).permissions = l.text
  <1>1. l.text \in Seq(Words)
    BY DEF LineRecords
  <1> DEFINE a == SubSeq(l.text, 1, 1)
             b == SubSeq(l.text, 2, Len(l.text))
             c == IF Len(l.text) = 2 /\ l.text[2] = Empty THEN <<>> ELSE b
  <1>2. a \in Seq(Words) /\ b \in Seq(Words) /\ a \o b = l.text
    BY <1>1, Halves
  <1>3. LoadedUser(l) = [exists |-> TRUE, hash |-> a, permissions |-> c]
    BY DEF LoadedUser
  <1> HIDE DEF a, b
  <1>4. c \in Seq(Words) /\ (Sound(l.text) => c = b)
    BY <1>2 DEF Sound
  <1> HIDE DEF c
  <1>5. /\ LoadedUser(l) \in UserRecords /\ LoadedUser(l).exists
        /\ LoadedUser(l).hash = a /\ LoadedUser(l).permissions = c
    BY <1>2, <1>3, <1>4 DEF UserRecords
  <1> QED
    BY <1>2, <1>4, <1>5

LEMMA NobodyGood == NoUser \in UserRecords /\ ~NoUser.exists
  BY DEF NoUser, UserRecords

LEMMA LoadedGood ==
    ASSUME NEW ls \in Seq(LineRecords)
    PROVE  /\ GoodUsers(Loaded(ls))
           /\ \A u \in Users : Loaded(ls)[u].exists => \E i \in 1..Len(ls) : ls[i].user = u
           /\ \A u \in Users : SoundLines(ls, u) => SoundUser(Loaded(ls), u)
  <1> DEFINE us == Loaded(ls)
  <1>1. ASSUME NEW u \in Users
        PROVE  /\ us[u] \in UserRecords
               /\ us[u].exists => \E i \in 1..Len(ls) : ls[i].user = u
               /\ SoundLines(ls, u) => SoundUser(us, u)
    <2>1. CASE LoadLines(ls, u) = {}
      <3>1. us[u] = NoUser
        BY <2>1, LoadedFacts
      <3> HIDE DEF us
      <3> QED
        BY <3>1, NobodyGood DEF SoundUser
    <2>2. CASE LoadLines(ls, u) # {}
      <3>1. PICK i \in LoadLines(ls, u) : us[u] = LoadedUser(ls[i])
        BY <2>2, LoadedFacts
      <3>2. i \in 1..Len(ls) /\ ls[i].user = u /\ Len(ls[i].text) >= 2
        BY DEF LoadLines
      <3>3. ls[i] \in LineRecords
        BY <3>2
      <3> HIDE DEF us
      <3>4. us[u] \in UserRecords /\ (Sound(ls[i].text) => TextOf(us, u) = ls[i].text)
        BY <3>1, <3>2, <3>3, LoadedLine DEF TextOf
      <3>5. SoundLines(ls, u) => SoundUser(us, u)
        BY <3>2, <3>4 DEF SoundLines, SoundUser
      <3> QED
        BY <3>2, <3>4, <3>5
    <2> QED
      BY <2>1, <2>2
  <1>2. us = [u \in Users |-> us[u]]
    BY DEF Loaded
  <1> HIDE DEF us
  <1>3. us \in [Users -> UserRecords]
    BY <1>1, <1>2, Zenon
  <1> QED
    BY <1>1, <1>3 DEF GoodUsers, us

\* In a good file a user has one line, and loading a sound one gives its text.
LEMMA LoadedText ==
    ASSUME NEW ls, GoodFile(ls), NEW i \in 1..Len(ls), Sound(ls[i].text)
    PROVE  /\ Loaded(ls)[ls[i].user].exists
           /\ TextOf(Loaded(ls), ls[i].user) = ls[i].text
  <1> DEFINE us == Loaded(ls)
             u == ls[i].user
  <1>1. ls \in Seq(LineRecords) /\ ls[i] \in LineRecords /\ Len(ls[i].text) >= 2
    BY DEF GoodFile, Sound
  <1>2. u \in Users
    BY <1>1 DEF LineRecords
  <1>3. i \in LoadLines(ls, u)
    BY <1>1 DEF LoadLines
  <1>4. PICK j \in LoadLines(ls, u) : us[u] = LoadedUser(ls[j])
    BY <1>1, <1>2, <1>3, LoadedFacts
  <1>5. j = i
    <2>1. PICK a \in 1..N : u = UserNames[a]
      BY <1>2, NamesFacts
    <2>2. j \in 1..Len(ls) /\ ls[j].user = UserNames[a] /\ ls[i].user = UserNames[a]
      BY <2>1 DEF LoadLines
    <2>3. ~(a < a) /\ i \in Int /\ j \in Int
      BY <2>2
    <2>4. ~(i < j) /\ ~(j < i)
      BY <2>2, <2>3 DEF GoodFile, InOrder
    <2> QED
      BY <2>3, <2>4
  <1>6. us[u] = LoadedUser(ls[i])
    BY <1>4, <1>5
  <1> HIDE DEF us
  <1>7. us[u].exists /\ us[u].hash \o us[u].permissions = ls[i].text
    BY <1>1, <1>6, LoadedLine
  <1> QED
    BY <1>7 DEF us, TextOf

\* save() after load() writes the sound lines that were loaded.
LEMMA SavedAfterLoaded ==
    ASSUME NEW ls, GoodFile(ls), NEW u \in Users, SoundLines(ls, u)
    PROVE  TextsOf(SavedLines(Loaded(ls)), u) = TextsOf(ls, u)
  <1> DEFINE us == Loaded(ls)
             new == SavedLines(us)
  <1>1. ls \in Seq(LineRecords)
    BY DEF GoodFile
  <1>2. GoodUsers(us) /\ (us[u].exists => \E i \in 1..Len(ls) : ls[i].user = u)
    BY <1>1, LoadedGood
  <1>3. Mirrors(new, us) /\ Lists(new, us, N)
    BY <1>2, SavedLinesGood
  <1>4. ASSUME NEW i \in 1..Len(ls), ls[i].user = u
        PROVE  us[u].exists /\ TextOf(us, u) = ls[i].text
    BY <1>4, LoadedText DEF SoundLines
  <1>5. PICK a \in 1..N : u = UserNames[a]
    BY NamesFacts
  <1> HIDE DEF us, new
  <1>6. ASSUME NEW i \in 1..Len(new), new[i].user = u
        PROVE  \E j \in 1..Len(ls) : ls[j].user = u /\ ls[j].text = new[i].text
    <2>1. us[u].exists /\ new[i].text = TextOf(us, u)
      BY <1>3, <1>6 DEF Mirrors
    <2>2. PICK j \in 1..Len(ls) : ls[j].user = u
      BY <1>2, <2>1
    <2> QED
      BY <1>4, <2>1, <2>2
  <1>7. ASSUME NEW i \in 1..Len(ls), ls[i].user = u
        PROVE  \E j \in 1..Len(new) : new[j].user = u /\ new[j].text = ls[i].text
    <2>1. us[u].exists /\ TextOf(us, u) = ls[i].text
      BY <1>4, <1>7
    <2>2. PICK j \in 1..Len(new) : new[j].user = u
      BY <1>3, <1>5, <2>1 DEF Lists
    <2>3. new[j].text = TextOf(us, u)
      BY <1>3, <2>2 DEF Mirrors
    <2> QED
      BY <2>1, <2>2, <2>3
  <1>8. TextsOf(new, u) = TextsOf(ls, u)
    <2>1. ASSUME NEW t \in TextsOf(new, u) PROVE t \in TextsOf(ls, u)
      <3>1. PICK i \in 1..Len(new) : new[i].user = u /\ t = new[i].text
        BY DEF TextsOf
      <3>2. PICK j \in 1..Len(ls) : ls[j].user = u /\ ls[j].text = new[i].text
        BY <1>6, <3>1
      <3> QED
        BY <3>1, <3>2 DEF TextsOf
    <2>2. ASSUME NEW t \in TextsOf(ls, u) PROVE t \in TextsOf(new, u)
      <3>1. PICK i \in 1..Len(ls) : ls[i].user = u /\ t = ls[i].text
        BY DEF TextsOf
      <3>2. PICK j \in 1..Len(new) : new[j].user = u /\ new[j].text = ls[i].text
        BY <1>7, <3>1
      <3> QED
        BY <3>1, <3>2 DEF TextsOf
    <2> QED
      BY <2>1, <2>2
  <1> QED
    BY <1>8 DEF new, us
----------------------------------------------------------------------------
\* PasswordHasher.

LEMMA HashGood ==
    ASSUME NEW p \in Passwords, NEW s \in Salts
    PROVE  HashPassword(p, s) \in Seq(Words) /\ Len(HashPassword(p, s)) = 3
  <1>1. Algorithm \in Words /\ Salt(s) \in Words /\ Digest(s, p) \in Words
    BY DEF Words
  <1> QED
    BY <1>1 DEF HashPassword

\* Load takes a line with a hash as it was written, and all of it.
LEMMA HashedSound ==
    ASSUME NEW us, NEW u, NEW p \in Passwords, NEW s \in Salts,
           us[u].hash = HashPassword(p, s), us[u].permissions \in Seq(Words)
    PROVE  SoundUser(us, u)
  <1>1. us[u].hash \in Seq(Words) /\ Len(us[u].hash) = 3
    BY HashGood
  <1>2. Len(TextOf(us, u)) = Len(us[u].hash) + Len(us[u].permissions)
    BY <1>1, ConcatProperties DEF TextOf
  <1>3. Len(us[u].permissions) \in Nat
    OBVIOUS
  <1> DEFINE n == Len(TextOf(us, u))
  <1>4. n >= 2 /\ n # 2
    BY <1>1, <1>2, <1>3
  <1> HIDE DEF n
  <1>5. Sound(TextOf(us, u))
    BY <1>4 DEF Sound, n
  <1> QED
    BY <1>5 DEF SoundUser

\* A hash verifies the password it was made from and no other.
LEMMA HashVerifies ==
    ASSUME NEW p \in Passwords, NEW q \in Passwords, NEW s \in Salts
    PROVE  VerifyPassword(p, HashPassword(q, s)) <=> p = q
  <1> DEFINE h == HashPassword(q, s)
  <1>1. Len(h) = 3 /\ h[1] = Algorithm /\ h[2] = Salt(s) /\ h[3] = Digest(s, q)
    BY DEF HashPassword
  <1>2. IsHashed(h)
    BY <1>1 DEF IsHashed
  <1>3. SubSeq(h, 3, Len(h)) = <<Digest(s, q)>>
    <2>1. h \in Seq(Words)
      BY HashGood
    <2>2. \A i \in 3..3 : h[i] \in Words
      <3> HIDE DEF h
      <3>1. h[3] \in Words
        BY <1>1, <2>1
      <3>2. \A i \in 3..3 : i = 3
        OBVIOUS
      <3> QED
        BY <3>1, <3>2
    <2>3. /\ SubSeq(h, 3, 3) \in Seq(Words) /\ Len(SubSeq(h, 3, 3)) = 1
          /\ SubSeq(h, 3, 3)[1] = h[3]
      <3> HIDE DEF h
      <3>1. /\ SubSeq(h, 3, 3) \in Seq(Words)
            /\ Len(SubSeq(h, 3, 3)) = IF 3 <= 3 THEN 3 - 3 + 1 ELSE 0
            /\ \A i \in 1..(3 - 3 + 1) : SubSeq(h, 3, 3)[i] = h[3 + i - 1]
        BY <2>2, SubSeqProperties
      <3> DEFINE t == SubSeq(h, 3, 3)
      <3> HIDE DEF t
      <3>2. Len(t) = 1 /\ t[1] = h[3]
        BY <3>1 DEF t
      <3> QED
        BY <3>1, <3>2 DEF t
    <2> DEFINE t == SubSeq(h, 3, 3)
    <2>4. t \in Seq(Words) /\ Len(t) = 1 /\ t[1] = Digest(s, q)
      BY <1>1, <2>3
    <2> HIDE DEF t, h
    <2>5. t = <<Digest(s, q)>>
      BY <2>4
    <2> QED
      BY <1>1, <2>5 DEF t
  <1> HIDE DEF h
  <1>4. \A r \in Salts : Salt(r) = Salt(s) => r = s
    BY DEF Salt
  <1>5. <<Digest(s, q)>> = <<Digest(s, p)>> <=> p = q
    BY DEF Digest
  <1>6. VerifyPassword(p, h) <=> p = q
    BY <1>1, <1>2, <1>3, <1>4, <1>5 DEF VerifyPassword
  <1> QED
    BY <1>6 DEF h

----------------------------------------------------------------------------
\* The invariant.

Typed ==
    /\ GoodUsers(users) /\ GoodFile(disk)
    /\ password \in [Users -> Passwords \cup {"none"}]
    /\ deleted \subseteq Users /\ torn \subseteq Users

\* Whom no crash has cut, load takes from the file and save writes back, as they are.
Whole == \A u \in Users \ torn : SoundUser(users, u) /\ SoundLines(disk, u)

Absent(us, ls, u) == ~us[u].exists /\ \A i \in 1..Len(ls) : ls[i].user # u

\* A deleted user is neither in memory nor in the file, from which he would come back.
Gone == \A u \in deleted : Absent(users, disk, u)

\* The hash of a user who was given a password was made from it.
Given ==
    \A u \in Users : password[u] # "none" =>
        /\ users[u].exists
        /\ \E s \in Salts : users[u].hash = HashPassword(password[u], s)

IInv == Typed /\ Whole /\ Gone /\ Given

LEMMA InitInv == Init => IInv
  <1> SUFFICES ASSUME Init PROVE IInv
    OBVIOUS
  <1>1. Typed
    <2>1. GoodUsers(users)
      BY NobodyGood DEF Init, GoodUsers
    <2>2. GoodFile(disk)
      BY DEF Init, GoodFile, InOrder
    <2> QED
      BY <2>1, <2>2 DEF Init, Typed
  <1>2. Gone /\ Given
    BY DEF Init, Gone, Given
  <1>3. Whole
    BY NobodyGood DEF Init, Whole, SoundUser, SoundLines
  <1> QED
    BY <1>1, <1>2, <1>3 DEF IInv

\* A change of u, saved in whatever way.
LEMMA ChangeStep ==
    ASSUME Typed, Whole, NEW u \in Users, NEW us, GoodUsers(us),
           SoundUser(us, u), \A v \in Users \ torn : SoundUser(us, v),
           NEW how \in Outcomes, Change(u, us, how)
    PROVE  /\ GoodUsers(users') /\ GoodFile(disk') /\ torn' \subseteq Users
           /\ Whole'
           /\ \A v \in Users :
                ~us[v].exists /\ (how.end = "failed" => Absent(users, disk, v))
                => Absent(users', disk', v)
  <1> DEFINE ls == SavedLines(us)
             cut == {v \in Users : how.cut # Nothing /\ v = ls[how.lines + 1].user}
  <1>0. how.end \in {"ok", "failed", "crash"} /\ (how.end = "ok" => how.cut = Nothing)
    BY DEF Outcomes
  <1>1. GoodFile(ls) /\ Mirrors(ls, us)
    BY SavedLinesGood
  <1>2. /\ Possible(ls, how) /\ Save(ls, how)
        /\ users' = IF how.end = "crash" THEN Loaded(disk') ELSE us
        /\ torn' = IF how.end = "failed" THEN torn ELSE (torn \ {u}) \cup cut
    BY DEF Change
  <1> HIDE DEF ls
  <1>3. torn' \subseteq Users
    BY <1>2 DEF Typed
  <1>4. ASSUME NEW v \in Users \ (torn \ {u}) PROVE SoundUser(us, v) /\ SoundLines(ls, v)
    <2>1. SoundUser(us, v)
      OBVIOUS
    <2> QED
      BY <1>1, <2>1 DEF SoundUser, SoundLines, Mirrors
  <1>5. ASSUME NEW v \in Users, ~us[v].exists PROVE \A i \in 1..Len(ls) : ls[i].user # v
    BY <1>1, <1>5 DEF Mirrors
  <1>6. CASE how.end = "ok"
    <2>1. disk' = ls /\ users' = us /\ torn' = torn \ {u}
      BY <1>0, <1>2, <1>6 DEF Save
    <2>2. Whole'
      BY <1>4, <2>1 DEF Whole, SoundUser, SoundLines, TextOf, Sound, Empty
    <2> QED
      BY <1>1, <1>3, <1>5, <1>6, <2>1, <2>2 DEF Absent
  <1>7. CASE how.end = "failed"
    <2>1. disk' = disk /\ users' = us /\ torn' = torn
      BY <1>2, <1>7 DEF Save
    <2>2. Whole'
      BY <2>1 DEF Whole, SoundUser, SoundLines, TextOf, Sound, Empty
    <2> QED
      BY <1>3, <1>7, <2>1, <2>2 DEF Absent, Typed
  <1>8. CASE how.end = "crash"
    <2> DEFINE left == LeftByCrash(ls, how)
    <2>1. disk' = left /\ users' = Loaded(left) /\ torn' = (torn \ {u}) \cup cut
      BY <1>2, <1>8 DEF Save
    <2>2. GoodFile(left) /\ CutShort(left, ls, how)
      BY <1>1, <1>2, CrashLeaves
    <2> HIDE DEF left
    <2>3. left \in Seq(LineRecords)
      BY <2>2 DEF GoodFile
    <2>4. /\ GoodUsers(Loaded(left))
          /\ \A v \in Users :
               Loaded(left)[v].exists => \E i \in 1..Len(left) : left[i].user = v
          /\ \A v \in Users : SoundLines(left, v) => SoundUser(Loaded(left), v)
      BY <2>3, LoadedGood
    <2>5. ASSUME NEW v \in Users \ ((torn \ {u}) \cup cut) PROVE SoundLines(left, v)
      <3> SUFFICES ASSUME NEW i \in 1..Len(left), left[i].user = v
                   PROVE  Sound(left[i].text)
        BY DEF SoundLines
      <3>1. /\ i \in 1..Len(ls) /\ ls[i].user = v
            /\ left[i] = ls[i] \/ (how.cut # Nothing /\ i = how.lines + 1)
        BY <2>2 DEF CutShort
      <3>2. left[i] = ls[i]
        BY <2>5, <3>1
      <3> QED
        BY <1>4, <2>5, <3>1, <3>2 DEF SoundLines
    <2>6. Whole'
      BY <2>1, <2>4, <2>5 DEF Whole, SoundUser, SoundLines, TextOf, Sound, Empty
    <2>7. ASSUME NEW v \in Users, ~us[v].exists PROVE Absent(Loaded(left), left, v)
      <3>1. \A i \in 1..Len(left) : left[i].user # v
        BY <1>5, <2>2, <2>7 DEF CutShort
      <3> QED
        BY <2>4, <3>1 DEF Absent
    <2> QED
      BY <1>3, <2>1, <2>2, <2>4, <2>6, <2>7
  <1> QED
    BY <1>0, <1>6, <1>7, <1>8

LEMMA CreateStep ==
    ASSUME IInv, NEW u \in Users, NEW p \in Passwords, NEW s \in Salts,
           NEW perm \in {<<>>} \cup {<<Perm(x)>> : x \in Perms},
           NEW policy \in BOOLEAN, NEW how \in Outcomes,
           CreateUser(u, p, s, perm, policy, how)
    PROVE  IInv'
  <1> DEFINE r == [exists |-> TRUE, hash |-> HashPassword(p, s), permissions |-> perm]
             us == [users EXCEPT ![u] = r]
  <1>1. /\ ~users[u].exists /\ Change(u, us, how) /\ Gives(u, p, how)
        /\ deleted' = deleted \ {u}
    BY DEF CreateUser
  <1>2. Typed /\ users \in [Users -> UserRecords]
    BY DEF IInv, Typed, GoodUsers
  <1>3. perm \in Seq(Words) /\ Len(perm) \in Nat
    <2>1. CASE perm = <<>>
      BY <2>1
    <2>2. CASE perm # <<>>
      <3>1. PICK x \in Perms : perm = <<Perm(x)>>
        BY <2>2
      <3>2. Perm(x) \in Words
        BY DEF Words
      <3> QED
        BY <3>1, <3>2
    <2> QED
      BY <2>1, <2>2
  <1>4. HashPassword(p, s) \in Seq(Words) /\ Len(HashPassword(p, s)) = 3
    BY HashGood
  <1>5. r \in UserRecords /\ r.exists /\ r.hash = HashPassword(p, s) /\ r.permissions = perm
    BY <1>3, <1>4 DEF UserRecords
  <1> HIDE DEF r
  <1>6. us \in [Users -> UserRecords] /\ us[u] = r /\ \A v \in Users : v # u => us[v] = users[v]
    BY <1>2, <1>5
  <1> HIDE DEF us
  <1>7. /\ GoodUsers(us) /\ SoundUser(us, u)
        /\ \A v \in Users \ torn : SoundUser(us, v)
    <2>1. SoundUser(us, u)
      BY <1>3, <1>5, <1>6, HashedSound
    <2> QED
      BY <1>6, <2>1 DEF IInv, Whole, GoodUsers, SoundUser, TextOf
  <1>8. /\ GoodUsers(users') /\ GoodFile(disk') /\ torn' \subseteq Users /\ Whole'
        /\ \A v \in Users :
             ~us[v].exists /\ (how.end = "failed" => Absent(users, disk, v))
             => Absent(users', disk', v)
    BY <1>1, <1>2, <1>7, ChangeStep DEF IInv
  <1>9. Typed'
    BY <1>1, <1>2, <1>8 DEF Typed, Gives
  <1>10. Gone'
    <2> SUFFICES ASSUME NEW v \in deleted, v # u PROVE Absent(users', disk', v)
      BY <1>1 DEF Gone, Absent
    <2>1. v \in Users /\ Absent(users, disk, v)
      BY DEF IInv, Typed, Gone
    <2> QED
      BY <1>6, <1>8, <2>1 DEF Absent
  <1>11. Given'
    <2> SUFFICES ASSUME NEW v \in Users, password'[v] # "none"
                 PROVE  /\ users'[v].exists
                        /\ \E x \in Salts : users'[v].hash = HashPassword(password'[v], x)
      BY DEF Given, HashPassword, Algorithm, Salt, Digest
    <2>1. how.end # "crash" /\ password' = [password EXCEPT ![u] = p] /\ users' = us
      BY <1>1 DEF Gives, Change
    <2>2. CASE v = u
      BY <1>2, <1>5, <1>6, <2>1, <2>2 DEF Typed
    <2>3. CASE v # u
      BY <1>2, <1>6, <2>1, <2>3 DEF Typed, IInv, Given
    <2> QED
      BY <2>2, <2>3
  <1> QED
    BY <1>8, <1>9, <1>10, <1>11 DEF IInv

LEMMA UpdateStep ==
    ASSUME IInv, NEW u \in Users, NEW p \in Passwords, NEW s \in Salts,
           NEW how \in Outcomes, UpdatePassword(u, p, s, how)
    PROVE  IInv'
  <1> DEFINE r == [users[u] EXCEPT !.hash = HashPassword(p, s)]
             us == [users EXCEPT ![u] = r]
  <1>1. /\ users[u].exists /\ Gives(u, p, how) /\ deleted' = deleted
        /\ Change(u, [users EXCEPT ![u].hash = HashPassword(p, s)], how)
    BY DEF UpdatePassword
  <1>2. Typed /\ users \in [Users -> UserRecords]
    BY DEF IInv, Typed, GoodUsers
  <1>3. Change(u, us, how)
    <2>1. [users EXCEPT ![u].hash = HashPassword(p, s)] = us
      BY <1>2
    <2> QED
      BY <1>1, <2>1
  <1>4. HashPassword(p, s) \in Seq(Words) /\ Len(HashPassword(p, s)) = 3
    BY HashGood
  <1>5. users[u].permissions \in Seq(Words)
    BY <1>2 DEF UserRecords
  <1>6. /\ r \in UserRecords /\ r.exists /\ r.hash = HashPassword(p, s)
        /\ r.permissions = users[u].permissions
    BY <1>1, <1>2, <1>4 DEF UserRecords
  <1> HIDE DEF r
  <1>7. us \in [Users -> UserRecords] /\ us[u] = r /\ \A v \in Users : v # u => us[v] = users[v]
    BY <1>2, <1>6
  <1> HIDE DEF us
  <1>8. /\ GoodUsers(us) /\ SoundUser(us, u)
        /\ \A v \in Users \ torn : SoundUser(us, v)
    <2>1. SoundUser(us, u)
      BY <1>5, <1>6, <1>7, HashedSound
    <2> QED
      BY <1>7, <2>1 DEF IInv, Whole, GoodUsers, SoundUser, TextOf
  <1>9. /\ GoodUsers(users') /\ GoodFile(disk') /\ torn' \subseteq Users /\ Whole'
        /\ \A v \in Users :
             ~us[v].exists /\ (how.end = "failed" => Absent(users, disk, v))
             => Absent(users', disk', v)
    BY <1>2, <1>3, <1>8, ChangeStep DEF IInv
  <1>10. Typed'
    BY <1>1, <1>2, <1>9 DEF Typed, Gives
  <1>11. Gone'
    <2> SUFFICES ASSUME NEW v \in deleted PROVE Absent(users', disk', v)
      BY <1>1 DEF Gone, Absent
    <2>1. v \in Users /\ Absent(users, disk, v) /\ v # u
      BY <1>1 DEF IInv, Typed, Gone, Absent
    <2> QED
      BY <1>7, <1>9, <2>1 DEF Absent
  <1>12. Given'
    <2> SUFFICES ASSUME NEW v \in Users, password'[v] # "none"
                 PROVE  /\ users'[v].exists
                        /\ \E x \in Salts : users'[v].hash = HashPassword(password'[v], x)
      BY DEF Given, HashPassword, Algorithm, Salt, Digest
    <2>1. how.end # "crash" /\ password' = [password EXCEPT ![u] = p] /\ users' = us
      BY <1>1, <1>3 DEF Gives, Change
    <2>2. CASE v = u
      BY <1>2, <1>6, <1>7, <2>1, <2>2 DEF Typed
    <2>3. CASE v # u
      BY <1>2, <1>7, <2>1, <2>3 DEF Typed, IInv, Given
    <2> QED
      BY <2>2, <2>3
  <1> QED
    BY <1>9, <1>10, <1>11, <1>12 DEF IInv

LEMMA DeleteStep ==
    ASSUME IInv, NEW u \in Users, NEW how \in Outcomes, DeleteUser(u, how)
    PROVE  IInv'
  <1> DEFINE us == [users EXCEPT ![u] = NoUser]
  <1>1. /\ users[u].exists /\ Gives(u, "none", how) /\ Change(u, us, how)
        /\ deleted' = IF how.end = "failed" THEN deleted ELSE deleted \cup {u}
    BY DEF DeleteUser
  <1>2. Typed /\ users \in [Users -> UserRecords]
    BY DEF IInv, Typed, GoodUsers
  <1>3. /\ us \in [Users -> UserRecords] /\ ~us[u].exists
        /\ \A v \in Users : v # u => us[v] = users[v]
    BY <1>2, NobodyGood
  <1> HIDE DEF us
  <1>4. /\ GoodUsers(us) /\ SoundUser(us, u)
        /\ \A v \in Users \ torn : SoundUser(us, v)
    BY <1>3 DEF IInv, Whole, GoodUsers, SoundUser, TextOf
  <1>5. /\ GoodUsers(users') /\ GoodFile(disk') /\ torn' \subseteq Users /\ Whole'
        /\ \A v \in Users :
             ~us[v].exists /\ (how.end = "failed" => Absent(users, disk, v))
             => Absent(users', disk', v)
    BY <1>1, <1>2, <1>4, ChangeStep DEF IInv
  <1>6. Typed'
    BY <1>1, <1>2, <1>5 DEF Typed, Gives
  <1>7. Gone'
    <2> SUFFICES ASSUME NEW v \in deleted' PROVE Absent(users', disk', v)
      BY DEF Gone, Absent
    <2>1. CASE v \in deleted
      <3>1. v \in Users /\ Absent(users, disk, v)
        BY <2>1 DEF IInv, Typed, Gone
      <3> QED
        BY <1>3, <1>5, <3>1 DEF Absent
    <2>2. CASE v \notin deleted
      BY <1>1, <1>3, <1>5, <2>2
    <2> QED
      BY <2>1, <2>2
  <1>8. Given'
    <2> SUFFICES ASSUME NEW v \in Users, password'[v] # "none"
                 PROVE  /\ users'[v].exists
                        /\ \E x \in Salts : users'[v].hash = HashPassword(password'[v], x)
      BY DEF Given, HashPassword, Algorithm, Salt, Digest
    <2>1. how.end # "crash" /\ password' = [password EXCEPT ![u] = "none"] /\ users' = us
      BY <1>1 DEF Gives, Change
    <2>2. v # u
      BY <1>2, <2>1 DEF Typed
    <2> QED
      BY <1>2, <1>3, <2>1, <2>2 DEF Typed, IInv, Given
  <1> QED
    BY <1>5, <1>6, <1>7, <1>8 DEF IInv

LEMMA LoadStep ==
    ASSUME IInv, NEW opened \in BOOLEAN, Load(opened)
    PROVE  IInv'
  <1>1. PICK ls : /\ ls = IF opened THEN disk ELSE <<>>
                  /\ users' = Loaded(ls) /\ disk' = disk /\ deleted' = deleted
                  /\ torn' = torn
                  /\ password' = [v \in Users |-> "none"]
    BY DEF Load
  <1>2. ls \in Seq(LineRecords)
    BY <1>1 DEF IInv, Typed, GoodFile
  <1>3. /\ GoodUsers(Loaded(ls))
        /\ \A u \in Users : Loaded(ls)[u].exists => \E i \in 1..Len(ls) : ls[i].user = u
        /\ \A u \in Users : SoundLines(ls, u) => SoundUser(Loaded(ls), u)
    BY <1>2, LoadedGood
  <1>4. Typed'
    BY <1>1, <1>3 DEF IInv, Typed
  <1>5. Gone'
    <2> SUFFICES ASSUME NEW v \in deleted PROVE Absent(Loaded(ls), disk, v)
      BY <1>1 DEF Gone, Absent
    <2>1. v \in Users /\ Absent(users, disk, v)
      BY DEF IInv, Typed, Gone
    <2>2. \A i \in 1..Len(ls) : ls[i].user # v
      BY <1>1, <2>1 DEF Absent
    <2> QED
      BY <1>3, <2>1, <2>2 DEF Absent
  <1>6. Given'
    BY <1>1 DEF Given
  <1>7. Whole'
    <2>1. ASSUME NEW v \in Users \ torn
          PROVE  SoundUser(Loaded(ls), v) /\ SoundLines(disk, v)
      <3>1. SoundLines(disk, v)
        BY DEF IInv, Whole
      <3>2. SoundLines(ls, v)
        BY <1>1, <3>1 DEF SoundLines
      <3> QED
        BY <1>3, <3>1, <3>2
    <2> QED
      BY <1>1, <2>1 DEF Whole, SoundUser, SoundLines, TextOf, Sound, Empty
  <1> QED
    BY <1>4, <1>5, <1>6, <1>7 DEF IInv

LEMMA NextInv == IInv /\ [Next]_vars => IInv'
  <1> SUFFICES ASSUME IInv, [Next]_vars PROVE IInv'
    OBVIOUS
  <1>1. ASSUME NEW opened \in BOOLEAN, Load(opened) PROVE IInv'
    BY <1>1, LoadStep
  <1>2. ASSUME NEW u \in Users, NEW how \in Outcomes, DeleteUser(u, how) PROVE IInv'
    BY <1>2, DeleteStep
  <1>3. ASSUME NEW u \in Users, NEW how \in Outcomes, NEW p \in Passwords, NEW s \in Salts,
               UpdatePassword(u, p, s, how)
        PROVE  IInv'
    BY <1>3, UpdateStep
  <1>4. ASSUME NEW u \in Users, NEW how \in Outcomes, NEW p \in Passwords, NEW s \in Salts,
               NEW perm \in {<<>>} \cup {<<Perm(x)>> : x \in Perms}, NEW policy \in BOOLEAN,
               CreateUser(u, p, s, perm, policy, how)
        PROVE  IInv'
    BY <1>4, CreateStep
  <1>5. CASE UNCHANGED vars
    BY <1>5 DEF vars, IInv, Typed, Whole, Gone, Given, Absent, GoodUsers, GoodFile, InOrder,
                SoundUser, SoundLines, Sound, TextOf, Empty, HashPassword, Algorithm, Salt,
                Digest
  <1> QED
    BY <1>1, <1>2, <1>3, <1>4, <1>5 DEF Next

\* Database, file, passwords and deletions stay consistent, through failing saves, loads,
\* and crashes that leave the line that was being written cut anywhere.
THEOREM DatabaseInvariant == Spec => []IInv
  BY InitInv, NextInv, PTL DEF Spec

\* The types of the database and of its file.
THEOREM DatabaseTypeCorrect == Spec => []TypeOK
  <1>1. IInv => TypeOK
    BY DEF IInv, Typed, GoodUsers, GoodFile, TypeOK, UserRecords, LineRecords
  <1> QED
    BY <1>1, DatabaseInvariant, PTL

\* Loading the file and saving it leaves the lines of all users as they are, although load
\* takes them apart at other places than save put them together, but for the users whose
\* line was being written when the process died and who were not saved anew since.
THEOREM FileDoesSurviveLoad == Spec => []FileSurvivesLoad
  <1>1. IInv => FileSurvivesLoad
    BY SavedAfterLoaded DEF IInv, Typed, Whole, FileSurvivesLoad
  <1> QED
    BY <1>1, DatabaseInvariant, PTL

\* A user whose deletion reached the disk stays deleted, whatever is loaded later.
THEOREM DeletedDoesStayDeleted == Spec => []DeletedStaysDeleted
  <1>1. IInv => DeletedStaysDeleted
    BY DEF IInv, Gone, Absent, DeletedStaysDeleted
  <1> QED
    BY <1>1, DatabaseInvariant, PTL

\* Until the file is read again a user has the password he was given last, and no other.
THEOREM PasswordDoesHold == Spec => []PasswordHolds
  <1>1. ASSUME IInv PROVE PasswordHolds
    <2> SUFFICES ASSUME NEW u \in Users, password[u] # "none"
                 PROVE  /\ users[u].exists
                        /\ \A p \in Passwords :
                             VerifyPassword(p, users[u].hash) <=> p = password[u]
      BY DEF PasswordHolds
    <2>1. PICK s \in Salts : users[u].hash = HashPassword(password[u], s)
      BY <1>1 DEF IInv, Given
    <2>2. password[u] \in Passwords
      BY <1>1 DEF IInv, Typed
    <2>3. \A p \in Passwords : VerifyPassword(p, users[u].hash) <=> p = password[u]
      BY <2>1, <2>2, HashVerifies
    <2> QED
      BY <1>1, <2>3 DEF IInv, Given
  <1> QED
    BY <1>1, DatabaseInvariant, PTL
=============================================================================
