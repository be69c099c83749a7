------------------------------ MODULE Session ------------------------------
(***************************************************************************)
(* One RSyncSession (core/session.cpp) with the ProtocolHandler it owns    *)
(* (core/protocol.cpp) and its SSLConnection (security/ssl_context.cpp),   *)
(* as a worker thread of the daemon drives it: processRequest, then        *)
(* close() when that returned false or threw, then the destructor.         *)
(*                                                                         *)
(* What lies outside the session is nondeterministic: the requests, the    *)
(* result of every recv, send and open, the existence and the size of a    *)
(* file when it is looked up (other sessions change files), the verdict    *)
(* of the authentication manager.  The session's module map is a reference *)
(* to a local variable of acceptLoop that is gone when the session runs,   *)
(* so a lookup may find the module, find nothing, or crash.                *)
(***************************************************************************)
EXTENDS Integers, FiniteSets

CONSTANTS
    Modules,        \* names of the configured modules
    Users,          \* user names a client may send with AUTH
    Paths,          \* paths a client may name
    Outside,        \* those that resolvePath refuses: they lead out of the module
    NoName,         \* the empty string, as a name and as a path
    ReadOnly,       \* modules with read_only = true
    Deletable,      \* modules with allow_delete = true
    Listable,       \* modules with list = true
    AuthMethod,     \* "disabled" (auth.enabled = false) or auth.method
    Chunk,          \* size of the transfer buffer (8192 in the code)
    MaxSize         \* bound on the size of a file

ASSUME SessionConstants ==
    /\ ReadOnly \subseteq Modules /\ Deletable \subseteq Modules
    /\ Listable \subseteq Modules
    /\ NoName \notin Modules \cup Users \cup Paths
    /\ Outside \subseteq Paths
    /\ "anonymous" \notin Users \cup {NoName}
    /\ AuthMethod \in {"disabled", "public_key", "password", "other"}
    /\ Chunk \in Nat \ {0} /\ MaxSize \in Nat

VARIABLES
    pc,         \* where the session is in the worker's loop
    peer,       \* "open", or "closed": client gone, all it sent has been read
    active,     \* active_
    sock,       \* client_socket_ >= 0
    ssl,        \* ssl_connection_: "none", "open", "shut" (open_ false), "closed"
    fdOpen,     \* the kernel's view of the connection's descriptor
    closes,     \* history: how many times that descriptor was closed
    user,       \* authenticated_user_
    current,    \* ProtocolHandler::current_module_
    transfer,   \* transfer_state_, _module_, _path_, _bytes_remaining_
    upload,     \* upload_file_: is it open, on the temporary file
    download,   \* download_file_: open, size of its inode, read position, eofbit
    reply,      \* the last reply the client was sent
    act,        \* history: the last thing a handler did, for which module, as which
                \* user, and was it inside that module
    sent,       \* history of the download: its size at the start, bytes sent,
                \* bytes read from the file and never sent, was it resized
                \* by someone else, did the session call it complete
    installed,  \* history: has the last finished upload been renamed into place
    sawEof      \* history: a read returned 0 or failed between requests

vars == <<pc, peer, active, sock, ssl, fdOpen, closes, user, current, transfer,
          upload, download, reply, act, sent, installed, sawEof>>

\* The session was constructed with an SSLConnection.
Tls == ssl # "none"

fdVars == <<active, sock, ssl, fdOpen, closes>>

Names == Modules \cup Users
Commands == {"LIST", "GET", "PUT", "DELETE", "STAT", "AUTH", "UNKNOWN"}

\* A request line: header says that the "@RSYNCD:" line came first, arg that the
\* key=value argument AUTH looks for is there.  The words of a line are positional:
\* a path needs a module before it, an argument needs a path.
Request ==
    {r \in [command : Commands, header : BOOLEAN, module : Names \cup {NoName},
            path : Paths \cup {NoName}, arg : BOOLEAN] :
        /\ r.path # NoName => r.module # NoName
        /\ r.arg => r.path # NoName}

\* ProtocolParser::parse
Valid(r) == r.command # "UNKNOWN" /\ (r.header \/ r.module # NoName)

Idle == [state |-> "IDLE", module |-> NoName, path |-> NoName, remaining |-> 0]
NoStream == [open |-> FALSE, size |-> 0, pos |-> 0, eof |-> FALSE]
NothingSent == [size |-> 0, bytes |-> 0, lost |-> 0, resized |-> FALSE,
                done |-> FALSE]

NoAct == [op |-> "UNKNOWN", module |-> NoName, user |-> NoName, inside |-> TRUE]

Replies == {"none", "error", "ok", "ready for transfer", "ready to receive",
            "transfer complete", "uploaded"}

\* The types of the session's state.
TypeOK ==
    /\ pc \in {"pool", "failed", "closed", "destroyed", "killed", "crashed"}
    /\ peer \in {"open", "closed"}
    /\ active \in BOOLEAN /\ sock \in BOOLEAN /\ fdOpen \in BOOLEAN
    /\ ssl \in {"none", "open", "shut", "closed"}
    /\ closes \in Nat
    /\ user \in Users \cup {NoName, "anonymous"}
    /\ current \in Names \cup {NoName}
    /\ transfer \in [state : {"IDLE", "RECEIVING", "SENDING"},
                     module : Names \cup {NoName},
                     path : Paths \cup {NoName}, remaining : Nat]
    /\ upload \in BOOLEAN
    /\ download \in [open : BOOLEAN, size : Nat, pos : Nat, eof : BOOLEAN]
    /\ reply \in Replies
    /\ act \in [op : Commands, module : Modules \cup {NoName},
                user : Users \cup {NoName, "anonymous"}, inside : BOOLEAN]
    /\ sent \in [size : Nat, bytes : Nat, lost : Nat, resized : BOOLEAN,
                 done : BOOLEAN]
    /\ installed \in BOOLEAN
    /\ sawEof \in BOOLEAN

Init ==
    /\ pc = "pool" /\ peer = "open"
    /\ active = TRUE /\ sock = TRUE
    /\ ssl \in {"none", "open"}
    /\ fdOpen = TRUE /\ closes = 0
    /\ user = NoName /\ current = NoName
    /\ transfer = Idle /\ upload = FALSE /\ download = NoStream
    /\ reply = "none" /\ act = NoAct /\ sent = NothingSent
    /\ installed = FALSE /\ sawEof = FALSE

----------------------------------------------------------------------------
\* The socket.

\* writeSocket, after the guard of writeResponse.  The process ignores no signal, so
\* a send to a peer that has reset the connection raises SIGPIPE and ends it.
WriteResults ==
    IF ~sock \/ ~active THEN {"fail"}
    ELSE IF peer = "closed" THEN {"ok", "fail", "killed"} ELSE {"ok", "fail"}

AfterWrite(w, onFail) ==
    CASE w = "ok" -> "pool" [] w = "fail" -> onFail [] w = "killed" -> "killed"

\* writeResponse as the last thing processRequest does.
Respond(r) ==
    \E w \in WriteResults :
        /\ reply' = IF w = "ok" THEN r ELSE reply
        /\ pc' = AfterWrite(w, "failed")

\* An exception that the worker catches.
Throws == pc' = "failed" /\ UNCHANGED reply

\* readSocket returns 0: end of file, or a close_notify on a TLS connection that
\* may well stay open underneath.
ReadsZero == peer = "closed" \/ ssl = "open"
SslAfterZero == IF ssl = "open" THEN "shut" ELSE ssl

\* Mutant of Close: neither active_ nor the descriptor is looked at.
CloseAgain ==
    /\ sock' = FALSE /\ active' = FALSE /\ fdOpen' = FALSE
    /\ ssl' = IF Tls THEN "closed" ELSE ssl
    /\ closes' = closes + 1

\* RSyncSession::close.  Without TLS it does nothing once active_ is false.
Close ==
    IF Tls
    THEN /\ sock' = FALSE /\ active' = FALSE /\ ssl' = "closed"
         /\ fdOpen' = FALSE
         /\ closes' = IF ssl # "closed" THEN closes + 1 ELSE closes
    ELSE IF active /\ sock
    THEN /\ sock' = FALSE /\ active' = FALSE /\ fdOpen' = FALSE
         /\ closes' = closes + 1
         /\ UNCHANGED ssl
    ELSE UNCHANGED fdVars

\* Mutant of EndFileTransfer: upload_file_ is not closed.
EndTransferKeepsUpload ==
    /\ transfer' = Idle
    /\ download' = NoStream
    /\ UNCHANGED upload

\* endFileTransfer
EndFileTransfer ==
    /\ transfer' = Idle
    /\ upload' = FALSE
    /\ download' = NoStream

\* ProtocolHandler::getModule through the dangling map: the module, or NoName
\* for nullptr.
Found(m) == IF m \in Modules THEN {m, NoName} ELSE {NoName}

Target(r, cur) == IF r.module # NoName THEN r.module ELSE cur

\* Mutant of Resolves: the joined path is not compared with the module's directory.
ResolvesAll(p) == TRUE

\* Module::resolvePath and isPathSafe have a path for p.
Resolves(p) == p \notin Outside

----------------------------------------------------------------------------
\* processRequest between transfers: one request is read and answered.

Reading == pc = "pool" /\ active /\ transfer.state = "IDLE"

Did(op, m, p) ==
    act' = [op |-> op, module |-> m, user |-> user, inside |-> p \notin Outside]

\* Mutant of ReadFails: the end of the connection is taken for "no data yet".
ReadRetries ==
    /\ Reading
    /\ \/ UNCHANGED ssl
       \/ ReadsZero /\ ssl' = SslAfterZero
    /\ sawEof' = TRUE
    /\ UNCHANGED <<pc, active, peer, sock, fdOpen, closes, user, current, transfer,
                   upload, download, reply, act, sent, installed>>

\* The read fails or finds the connection closed: the session gives up at once.
ReadFails ==
    /\ Reading
    /\ \/ UNCHANGED ssl
       \/ ReadsZero /\ ssl' = SslAfterZero
    /\ active' = FALSE
    /\ sawEof' = TRUE
    /\ pc' = "failed"
    /\ UNCHANGED <<peer, sock, fdOpen, closes, user, current, transfer, upload,
                   download, reply, act, sent, installed>>

\* handleProtocolMessage before it dispatches: the module is remembered even when
\* the request is then refused, and for AUTH it is the user's name.
SetModule(r) == current' = IF r.module # NoName THEN r.module ELSE current

\* Mutant of Gated: listing needs no authentication.
GatedButList(r) ==
    AuthMethod = "public_key" /\ user = NoName /\ r.command \notin {"AUTH", "LIST"}

\* A request that public-key authentication keeps out until AUTH has succeeded.
Gated(r) ==
    AuthMethod = "public_key" /\ user = NoName /\ r.command # "AUTH"

HandleInvalid(r) ==
    /\ Reading /\ peer = "open"
    /\ ~Valid(r)
    /\ Respond("error")
    /\ UNCHANGED <<peer, fdVars, user, current, transfer, upload, download, act,
                   sent, installed, sawEof>>

HandleGated(r) ==
    /\ Reading /\ peer = "open"
    /\ Valid(r) /\ Gated(r)
    /\ SetModule(r)
    /\ Respond("error")
    /\ UNCHANGED <<peer, fdVars, user, transfer, upload, download, act, sent,
                   installed, sawEof>>

\* Mutant of AuthSucceeds: the verdict on the key is ignored.
AuthUnverified(r, verified) ==
    \/ AuthMethod = "disabled"
    \/ r.module # NoName /\ r.arg

\* handleAuthMessage; verified is the answer of the AuthenticationManager.
AuthSucceeds(r, verified) ==
    \/ AuthMethod = "disabled"
    \/ /\ AuthMethod = "public_key" /\ verified
       /\ r.module # NoName /\ r.path # NoName /\ r.arg
    \/ AuthMethod = "password" /\ verified /\ r.module # NoName /\ r.arg

HandleAuth(r, verified) ==
    /\ Reading /\ peer = "open"
    /\ Valid(r) /\ r.command = "AUTH"
    /\ verified => r.module \in Users
    /\ SetModule(r)
    /\ IF AuthSucceeds(r, verified)
       THEN /\ user' = IF AuthMethod = "disabled" THEN "anonymous" ELSE r.module
            /\ Respond("ok")
       ELSE UNCHANGED user /\ Respond("error")
    /\ UNCHANGED <<peer, fdVars, transfer, upload, download, act, sent,
                   installed, sawEof>>

Admitted(r) == Reading /\ peer = "open" /\ Valid(r) /\ ~Gated(r)

\* What the handlers ask of the module.
Permitted(op, m) ==
    CASE op = "LIST" -> m \in Listable
      [] op = "STAT" -> TRUE
      [] op = "PUT" -> m \notin ReadOnly
      [] op = "DELETE" -> m \notin ReadOnly /\ m \in Deletable
      [] OTHER -> TRUE

\* handleList, handleStat and handleDelete: answered in one go.  A listing that finds
\* nothing to list is answered with an empty one.
HandleSimple(r, ok) ==
    /\ Admitted(r)
    /\ r.command \in {"LIST", "STAT", "DELETE"}
    /\ SetModule(r)
    /\ \E m \in Found(Target(r, current)) :
          LET permitted == m # NoName /\ Permitted(r.command, m) IN
          IF permitted /\ Resolves(r.path) /\ ok
          THEN Did(r.command, m, r.path) /\ Respond("ok")
          ELSE /\ UNCHANGED act
               /\ Respond(IF permitted /\ r.command = "LIST" THEN "ok" ELSE "error")
    /\ UNCHANGED <<peer, fdVars, user, transfer, upload, download, sent,
                   installed, sawEof>>

\* handleGet or handlePut answers with an error; handleGet's fileExists may throw.
HandleTransferRefused(r) ==
    /\ Admitted(r)
    /\ r.command \in {"GET", "PUT"}
    /\ SetModule(r)
    /\ \/ Respond("error")
       \/ r.command = "GET" /\ r.path # NoName /\ Throws
    /\ UNCHANGED <<peer, fdVars, user, transfer, upload, download, act, sent,
                   installed, sawEof>>

\* startFileUpload after a successful handlePut.  It sets the transfer's names first;
\* the second lookup, the open of <path>.tmp or (create_directories) an exception may
\* stop it.  When it only fails, the "Ready to receive" reply goes out all the same.
\* Unlike the other handlers it joins the module's directory and the path itself and
\* does not go through resolvePath: Resolves is not asked.
StartUpload(r) ==
    /\ Admitted(r)
    /\ r.command = "PUT"
    /\ SetModule(r)
    /\ \E m \in Found(Target(r, current)) \ {NoName} :
          /\ Permitted("PUT", m)
          /\ \/ /\ Did("PUT", m, r.path)
                /\ upload' = TRUE
                /\ transfer' = [state |-> "RECEIVING", module |-> r.module,
                                path |-> r.path, remaining |-> 0]
                /\ installed' = FALSE
                /\ Respond("ready to receive")
             \/ /\ transfer' = [transfer EXCEPT !.module = r.module, !.path = r.path]
                /\ Respond("ready to receive") \/ Throws
                /\ UNCHANGED <<act, upload, installed>>
    /\ UNCHANGED <<peer, fdVars, user, download, sent, sawEof>>

----------------------------------------------------------------------------
\* continueFileTransfer, SENDING_FILE.

Min2(a, b) == IF a <= b THEN a ELSE b

\* How many of n bytes one write takes: SSL_write takes all of them, send may not.
Taken(n) == IF ssl = "open" THEN {n} ELSE 1..n

\* Mutant of Progress: what was read counts, sent or not.
ProgressRead(n, k) == n

\* What is subtracted from transfer_bytes_remaining_ after n bytes were read from the
\* file and send took k of them.
Progress(n, k) == k

\* One call of continueFileTransfer on transfer t, stream d and history h: a chunk is
\* read, and what send accepts of it, not what was read, is subtracted.
SendChunk(t, d, h) ==
    LET want == Min2(Chunk, t.remaining)
        left == IF d.eof \/ d.pos >= d.size THEN 0 ELSE d.size - d.pos
        n    == Min2(want, left)
    IN
    IF n = 0
    THEN /\ EndFileTransfer /\ sent' = NothingSent
         /\ pc' = "failed" /\ UNCHANGED reply
    ELSE \/ \E k \in Taken(n) :
              /\ "ok" \in WriteResults
              /\ sent' = [h EXCEPT !.bytes = @ + k, !.lost = @ + (n - k),
                                   !.done = (t.remaining = Progress(n, k))]
              /\ IF t.remaining = Progress(n, k)
                 THEN /\ EndFileTransfer
                      /\ \E w \in WriteResults :
                            /\ reply' = IF w = "ok" THEN "transfer complete" ELSE reply
                            /\ pc' = AfterWrite(w, "pool")
                 ELSE /\ transfer' = [t EXCEPT !.remaining = @ - Progress(n, k)]
                      /\ download' = [d EXCEPT !.pos = @ + n, !.eof = n < want]
                      /\ pc' = "pool"
                      /\ UNCHANGED <<reply, upload>>
         \/ \E w \in WriteResults \ {"ok"} :
              /\ EndFileTransfer /\ sent' = NothingSent
              /\ pc' = AfterWrite(w, "failed") /\ UNCHANGED reply

\* handleGet, then startFileDownload and the first chunk; between the look at the
\* file's size and the read the file may have got another length.  When
\* startFileDownload fails (second lookup, file gone, open) the client gets "Ready for
\* transfer" and no data.
StartDownload(r, size, length) ==
    /\ Admitted(r)
    /\ r.command = "GET"
    /\ r.path # NoName /\ Resolves(r.path)
    /\ SetModule(r)
    /\ \E m \in Found(Target(r, current)) \ {NoName} :
          LET names == [transfer EXCEPT !.module = r.module, !.path = r.path] IN
          /\ Did("GET", m, r.path)
          /\ \/ SendChunk([names EXCEPT !.state = "SENDING", !.remaining = size],
                          [open |-> TRUE, size |-> length, pos |-> 0, eof |-> FALSE],
                          [NothingSent EXCEPT !.size = size, !.resized = length # size])
             \/ /\ transfer' = names
                /\ Respond("ready for transfer") \/ Throws
                /\ UNCHANGED <<upload, download, sent>>
    /\ UNCHANGED <<peer, fdVars, user, installed, sawEof>>

ContinueDownload ==
    /\ pc = "pool" /\ active /\ transfer.state = "SENDING"
    /\ SendChunk(transfer, download, sent)
    /\ UNCHANGED <<peer, fdVars, user, current, act, installed, sawEof>>

\* continueFileTransfer, RECEIVING_FILE: there is no length and no end marker, whatever
\* arrives is file data.
ReceiveData ==
    /\ pc = "pool" /\ active /\ transfer.state = "RECEIVING" /\ peer = "open"
    /\ UNCHANGED vars

ReceiveError ==
    /\ pc = "pool" /\ active /\ transfer.state = "RECEIVING"
    /\ EndFileTransfer
    /\ pc' = "failed"
    /\ UNCHANGED <<peer, fdVars, user, current, reply, act, sent, installed, sawEof>>

\* The move of the temporary file, with the names as the transfer record t has them.
Install(t) ==
    installed' = (installed \/ (t.module # NoName /\ t.path # NoName))

\* The upload's end: endFileTransfer runs first and clears the names that the
\* rename then asks for.
FinishUpload ==
    /\ pc = "pool" /\ active /\ transfer.state = "RECEIVING"
    /\ ReadsZero
    /\ ssl' = SslAfterZero
    /\ EndFileTransfer
    /\ Install(transfer')
    /\ \E w \in WriteResults :
          /\ reply' = IF w = "ok" THEN "uploaded" ELSE reply
          /\ pc' = AfterWrite(w, "pool")
    /\ UNCHANGED <<peer, active, sock, fdOpen, closes, user, current, act, sent,
                   sawEof>>

----------------------------------------------------------------------------
\* The worker and the daemon around the session.

\* processRequest returned false or threw.
CloseFailed ==
    /\ pc = "failed"
    /\ Close
    /\ pc' = "closed"
    /\ UNCHANGED <<peer, user, current, transfer, upload, download, reply, act,
                   sent, installed, sawEof>>

\* The second lock of workerLoop: an active session goes back to the pool, the others
\* are destroyed with the worker's list.
ReturnOrDestroy ==
    /\ pc = "closed"
    /\ IF active
       THEN /\ pc' = "pool"
            /\ UNCHANGED <<fdVars, transfer, upload, download>>
       ELSE /\ pc' = "destroyed"
            /\ EndFileTransfer
            /\ Close
    /\ UNCHANGED <<peer, user, current, reply, act, sent, installed, sawEof>>

\* closeSessions and cleanupSessions of RSyncDaemon::stop, on a session in the pool.
StopDaemon ==
    /\ pc = "pool"
    /\ Close
    /\ EndFileTransfer
    /\ pc' = "destroyed"
    /\ UNCHANGED <<peer, user, current, reply, act, sent, installed, sawEof>>

\* The close_notify of SSL_shutdown goes to a client that has reset the connection.
KilledInShutdown ==
    /\ pc \in {"pool", "failed"}
    /\ Tls /\ ssl # "closed" /\ peer = "closed"
    /\ pc' = "killed"
    /\ UNCHANGED <<peer, fdVars, user, current, transfer, upload, download, reply,
                   act, sent, installed, sawEof>>

\* A lookup in the dangling map may also fault.
CrashOnLookup(r) ==
    /\ Admitted(r)
    /\ r.command # "AUTH"
    /\ pc' = "crashed"
    /\ UNCHANGED <<peer, fdVars, user, current, transfer, upload, download, reply,
                   act, sent, installed, sawEof>>

\* The client, and the other writers of the file that is being sent.
PeerCloses ==
    /\ peer = "open" /\ pc \notin {"destroyed", "killed", "crashed"}
    /\ peer' = "closed"
    /\ UNCHANGED <<pc, fdVars, user, current, transfer, upload, download, reply,
                   act, sent, installed, sawEof>>

FileResized(size) ==
    /\ pc = "pool" /\ download.open
    /\ size # download.size
    /\ download' = [download EXCEPT !.size = size]
    /\ sent' = [sent EXCEPT !.resized = TRUE]
    /\ UNCHANGED <<pc, peer, fdVars, user, current, transfer, upload, reply, act,
                   installed, sawEof>>

Over ==
    /\ pc \in {"destroyed", "killed", "crashed"}
    /\ UNCHANGED vars

Worker ==
    \/ ReadFails \/ ContinueDownload \/ ReceiveData \/ ReceiveError \/ FinishUpload
    \/ CloseFailed \/ ReturnOrDestroy
    \/ \E r \in Request :
          \/ HandleInvalid(r) \/ HandleGated(r) \/ HandleTransferRefused(r)
          \/ StartUpload(r) \/ CrashOnLookup(r)
          \/ \E b \in BOOLEAN : HandleAuth(r, b) \/ HandleSimple(r, b)
          \/ \E size, length \in 0..MaxSize : StartDownload(r, size, length)

Next ==
    \/ Worker \/ StopDaemon \/ KilledInShutdown \/ PeerCloses \/ Over
    \/ \E size \in 0..MaxSize : FileResized(size)

Spec == Init /\ [][Next]_vars

----------------------------------------------------------------------------
\* transfer_state_ and the two streams never disagree, a session in the pool that is
\* in the middle of a transfer can still use its socket, and the destructor leaves
\* no file open, whichever of the many exits of processRequest was taken.
TransferStreams ==
    /\ upload <=> transfer.state = "RECEIVING"
    /\ download.open <=> transfer.state = "SENDING"
    /\ pc = "pool" => active /\ sock
    /\ pc = "destroyed" => transfer = Idle

\* A download that is reported complete delivered as many bytes as the file had when
\* it was opened, and delivered them without a gap unless somebody resized the file
\* meanwhile, although a short send silently skips what send did not take.
DownloadIntact ==
    /\ sent.bytes <= sent.size
    /\ transfer.state = "SENDING" => transfer.remaining = sent.size - sent.bytes
    /\ sent.done => sent.bytes = sent.size /\ (sent.lost > 0 => sent.resized)

\* close() runs up to three times on a session (worker, destructor, stop): the
\* descriptor is closed at most once, and never used after that.  In one way only can a
\* destroyed session leave it open: no TLS, and processRequest cleared active_ itself
\* because the read failed or hit the end.
FdDiscipline ==
    /\ closes <= 1
    /\ sock => fdOpen
    /\ pc = "destroyed" /\ fdOpen => ~Tls /\ sawEof

\* What the handlers did was allowed: with public-key authentication only after AUTH
\* succeeded, no deletion in a read-only module and no upload for one, no deletion and
\* no listing where the module forbids it, although check and effect look the module up
\* twice; and all they read, listed and deleted lay inside the module.  Of uploads that
\* is not so: startFileUpload (session.cpp:280) asks the module whether it is read-only
\* and then writes wherever the joined path leads.
ActAllowed ==
    act # NoAct =>
        /\ AuthMethod = "public_key" => act.user \in Users
        /\ act.op # "PUT" => act.inside
        /\ act.op \in {"PUT", "DELETE"} => act.module \notin ReadOnly
        /\ act.op = "DELETE" => act.module \in Deletable
        /\ act.op = "LIST" => act.module \in Listable

\* The calls of processRequest that can still return true once the client is gone.
CallsLeft ==
    CASE transfer.state = "SENDING" -> transfer.remaining + 1
      [] transfer.state = "RECEIVING" -> 1
      [] OTHER -> 0

\* Every call of processRequest on a session whose client is gone takes it nearer to its
\* end, in whatever state the session was, an upload or a download included: it returns
\* true at most CallsLeft times, and then the worker closes and destroys the session.
\* So a gone client costs finitely many calls, however the workers are scheduled.
GoneClientCostsLess ==
    [][peer = "closed" /\ Worker /\ pc' = "pool" => CallsLeft' < CallsLeft]_vars

\* "Move temp file to final location" (session.cpp:384): an upload reported as
\* successful is there under its own name.
UploadInstalled == reply = "uploaded" => installed
=============================================================================
