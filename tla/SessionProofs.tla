--------------------------- MODULE SessionProofs ---------------------------
(***************************************************************************)
(* Proofs about Session, for any modules, users and paths, any settings of *)
(* the modules, any buffer size and files of any size.                     *)
(***************************************************************************)
EXTENDS Session, TLAPS

\* The descriptor: what close() relies on to close it once.
Descriptor ==
    /\ closes = IF fdOpen THEN 0 ELSE 1
    /\ sock <=> fdOpen
    /\ Tls => (fdOpen <=> ssl # "closed")
    /\ active => sock
    /\ ~active /\ fdOpen => sawEof
    /\ pc = "pool" => active
    /\ pc = "closed" => ~active
    /\ pc = "destroyed" => transfer = Idle /\ (fdOpen => ~Tls /\ sawEof)

\* The download: what has been read of the file is what was sent or lost.
Position ==
    /\ transfer.state = "SENDING" /\ ~sent.resized =>
          download.size = sent.size /\ download.pos = sent.bytes + sent.lost
    /\ DownloadIntact

\* Who the session believes to talk to.
Identity ==
    /\ AuthMethod = "public_key" => user \in Users \cup {NoName}
    /\ ActAllowed

Streams ==
    /\ upload <=> transfer.state = "RECEIVING"
    /\ download.open <=> transfer.state = "SENDING"

Transfers == [state : {"IDLE", "RECEIVING", "SENDING"}, module : Names \cup {NoName},
              path : Paths \cup {NoName}, remaining : Nat]
Downloads == [open : BOOLEAN, size : Nat, pos : Nat, eof : BOOLEAN]
Acts == [op : Commands, module : Modules \cup {NoName},
         user : Users \cup {NoName, "anonymous"}, inside : BOOLEAN]
Histories == [size : Nat, bytes : Nat, lost : Nat, resized : BOOLEAN, done : BOOLEAN]

IInv == TypeOK /\ Streams /\ Descriptor /\ Position /\ Identity

----------------------------------------------------------------------------

LEMMA Typed == Init => TypeOK
<1> SUFFICES ASSUME Init PROVE TypeOK
  OBVIOUS
<1>1. transfer \in Transfers
  BY DEF Init, Idle, Transfers
<1>2. download \in Downloads
  BY DEF Init, NoStream, Downloads
<1>3. act \in Acts
  BY DEF Init, NoAct, Commands, Acts
<1>4. sent \in Histories
  BY DEF Init, NothingSent, Histories
<1>5. reply \in Replies /\ closes \in Nat /\ ssl \in {"none", "open", "shut", "closed"}
  BY DEF Init, Replies
<1> QED
  BY <1>1, <1>2, <1>3, <1>4, <1>5
     DEF Init, TypeOK, Transfers, Downloads, Acts, Histories

LEMMA RequestFields ==
    ASSUME NEW r \in Request
    PROVE  /\ r.command \in Commands
           /\ r.module \in Names \cup {NoName}
           /\ r.path \in Paths \cup {NoName}
BY DEF Request

LEMMA WriteOutcomes ==
    ASSUME NEW w \in WriteResults
    PROVE  /\ AfterWrite(w, "failed") \in {"pool", "failed", "killed"}
           /\ AfterWrite(w, "pool") \in {"pool", "killed"}
BY DEF WriteResults, AfterWrite

LEMMA RespondTypes ==
    ASSUME reply \in Replies, NEW x \in Replies, Respond(x)
    PROVE  reply' \in Replies /\ pc' \in {"pool", "failed", "killed"}
BY WriteOutcomes DEF Respond

LEMMA FoundModules ==
    ASSUME NEW x, NEW m \in Found(x), m # NoName
    PROVE  m \in Modules
BY DEF Found

LEMMA SetModuleType ==
    ASSUME NEW r \in Request, current \in Names \cup {NoName}, SetModule(r)
    PROVE  current' \in Names \cup {NoName}
BY RequestFields DEF SetModule

LEMMA EndTransferTypes ==
    ASSUME EndFileTransfer
    PROVE  /\ transfer' \in Transfers /\ transfer'.state = "IDLE"
           /\ upload' \in BOOLEAN /\ download' \in Downloads
           /\ Streams'
BY DEF EndFileTransfer, Idle, NoStream, Streams, Transfers, Downloads

----------------------------------------------------------------------------
\* One chunk of a download, from whichever state it is sent.

\* A transfer t from stream d with history h that is in order.
InOrder(t, d, h) ==
    /\ t \in Transfers /\ d \in Downloads /\ h \in Histories
    /\ t.state = "SENDING" /\ d.open = TRUE
    /\ h.bytes <= h.size /\ t.remaining = h.size - h.bytes
    /\ h.resized = FALSE => d.size = h.size /\ d.pos = h.bytes + h.lost

\* History, transfer and stream after n bytes were read and k of them sent.
Counted(h, n, k, b) == [h EXCEPT !.bytes = @ + k, !.lost = @ + (n - k), !.done = b]
Reduced(t, k) == [t EXCEPT !.remaining = @ - k]
Advanced(d, n, c) == [d EXCEPT !.pos = @ + n, !.eof = c]

\* r is a history h to which k of n bytes were added, with t.remaining still to send.
Adds(r, t, h, n, k) ==
    /\ r \in Histories
    /\ r.size = h.size /\ r.bytes = h.bytes + k /\ r.lost = h.lost + (n - k)
    /\ r.resized = h.resized
    /\ r.bytes <= r.size
    /\ t.remaining - k = r.size - r.bytes
    /\ t.remaining = k => r.bytes = r.size
    /\ t.remaining = k /\ r.lost > 0 => r.resized = TRUE

\* The arithmetic of a chunk: what is known of the bytes, ...
LEMMA ChunkCounted ==
    ASSUME NEW t, NEW d, NEW h, InOrder(t, d, h), NEW n \in Nat, NEW k \in 1..n,
           n <= t.remaining, n <= d.size - d.pos, NEW b \in BOOLEAN
    PROVE  Adds(Counted(h, n, k, b), t, h, n, k)
<1> DEFINE h2 == Counted(h, n, k, b)
<1>1. /\ h.size \in Nat /\ h.bytes \in Nat /\ h.lost \in Nat
      /\ d.size \in Nat /\ d.pos \in Nat /\ t.remaining \in Nat
      /\ h.bytes <= h.size /\ t.remaining = h.size - h.bytes
      /\ h.resized \in BOOLEAN
      /\ h.resized = FALSE => d.size = h.size /\ d.pos = h.bytes + h.lost
  BY DEF InOrder, Transfers, Downloads, Histories
<1> h \in Histories
  BY DEF InOrder
<1>0. h.bytes + k \in Nat /\ h.lost + (n - k) \in Nat
  BY <1>1
<1>2. /\ h2 \in Histories
      /\ h2.size = h.size /\ h2.bytes = h.bytes + k /\ h2.lost = h.lost + (n - k)
      /\ h2.resized = h.resized
  <2>1. h2 \in Histories
    BY <1>0, Zenon DEF Histories, Counted
  <2> QED
    BY <2>1 DEF Histories, Counted
<1>3. /\ h2.bytes <= h2.size
      /\ t.remaining - k = h2.size - h2.bytes
  BY <1>1, <1>2
<1>4. t.remaining = k /\ h2.lost > 0 => h2.resized = TRUE
  BY <1>1, <1>2
<1>5. t.remaining = k => h2.bytes = h2.size
  BY <1>1, <1>2
<1> HIDE DEF h2
<1> QED
  BY <1>2, <1>3, <1>4, <1>5 DEF h2, Adds

\* ... and that a transfer that goes on is in order again.
LEMMA ChunkInOrder ==
    ASSUME NEW t, NEW d, NEW h, InOrder(t, d, h), NEW n \in Nat, NEW k \in 1..n,
           n <= t.remaining, n <= d.size - d.pos, NEW b \in BOOLEAN, NEW c \in BOOLEAN
    PROVE  InOrder(Reduced(t, k), Advanced(d, n, c), Counted(h, n, k, b))
<1> DEFINE h2 == Counted(h, n, k, b)
           u == Reduced(t, k)
           e == Advanced(d, n, c)
<1>1. /\ h.size \in Nat /\ h.bytes \in Nat /\ h.lost \in Nat
      /\ d.size \in Nat /\ d.pos \in Nat /\ t.remaining \in Nat
      /\ h.resized \in BOOLEAN
      /\ h.resized = FALSE => d.size = h.size /\ d.pos = h.bytes + h.lost
  BY DEF InOrder, Transfers, Downloads, Histories
<1>2. /\ h2 \in Histories
      /\ h2.size = h.size /\ h2.bytes = h.bytes + k /\ h2.lost = h.lost + (n - k)
      /\ h2.resized = h.resized
      /\ h2.bytes <= h2.size
      /\ t.remaining - k = h2.size - h2.bytes
  <2>1. Adds(h2, t, h, n, k)
    BY ChunkCounted
  <2> HIDE DEF h2
  <2> QED
    BY <2>1 DEF Adds
<1>3. u \in Transfers /\ u.state = "SENDING" /\ u.remaining = t.remaining - k
  BY <1>1 DEF InOrder, Transfers, Reduced
<1>4. e \in Downloads /\ e.open = TRUE /\ e.size = d.size /\ e.pos = d.pos + n
  <2>1. d \in Downloads /\ d.pos + n \in Nat
    BY <1>1 DEF InOrder
  <2>2. e \in Downloads
    BY <2>1, Zenon DEF Downloads, Advanced
  <2> QED
    BY <2>1, <2>2 DEF InOrder, Downloads, Advanced
<1> HIDE DEF u, e, h2
<1>5. InOrder(u, e, h2)
  BY <1>1, <1>2, <1>3, <1>4 DEF InOrder
<1> QED
  BY <1>5 DEF u, e, h2

\* What one call of continueFileTransfer leaves behind.
LEMMA ChunkSent ==
    ASSUME NEW t, NEW d, NEW h, InOrder(t, d, h), SendChunk(t, d, h), upload = FALSE,
           reply \in Replies
    PROVE  /\ transfer' \in Transfers /\ download' \in Downloads /\ sent' \in Histories
           /\ upload' = FALSE /\ reply' \in Replies
           /\ pc' \in {"pool", "failed", "killed"}
           /\ Streams' /\ Position'
<1>1. /\ t.remaining \in Nat /\ d.size \in Nat /\ d.pos \in Nat
      /\ h \in Histories
  BY DEF InOrder, Transfers, Downloads
<1>0. PICK want, left, n :
         /\ want = Min2(Chunk, t.remaining)
         /\ left = IF d.eof \/ d.pos >= d.size THEN 0 ELSE d.size - d.pos
         /\ n = Min2(want, left)
  OBVIOUS
<1>2. /\ want \in Nat /\ left \in Nat /\ n \in Nat /\ n <= want /\ n <= left
      /\ n <= t.remaining /\ (n > 0 => n <= d.size - d.pos)
  BY <1>0, <1>1, SessionConstants DEF Min2
\* The transfer ends without being complete.
<1>3. ASSUME EndFileTransfer, sent' = NothingSent
      PROVE  /\ transfer' \in Transfers /\ download' \in Downloads /\ sent' \in Histories
             /\ upload' = FALSE /\ Streams' /\ Position'
  <2>1. /\ transfer' \in Transfers /\ transfer'.state = "IDLE" /\ download' \in Downloads
        /\ Streams' /\ upload' = FALSE
    BY <1>3, EndTransferTypes DEF EndFileTransfer
  <2>2. sent' \in Histories
    BY <1>3 DEF NothingSent, Histories
  <2>3. Position'
    BY <1>3, <2>1 DEF NothingSent, Position, DownloadIntact
  <2> QED
    BY <2>1, <2>2, <2>3
<1>4. CASE n = 0
  <2>1. EndFileTransfer /\ sent' = NothingSent /\ pc' = "failed" /\ UNCHANGED reply
    BY <1>0, <1>4 DEF SendChunk
  <2> QED
    BY <1>3, <2>1
<1>5. ASSUME n # 0, NEW w \in WriteResults \ {"ok"},
             EndFileTransfer, sent' = NothingSent,
             pc' = AfterWrite(w, "failed"), UNCHANGED reply
      PROVE  /\ transfer' \in Transfers /\ download' \in Downloads /\ sent' \in Histories
             /\ upload' = FALSE /\ reply' \in Replies
             /\ pc' \in {"pool", "failed", "killed"}
             /\ Streams' /\ Position'
  BY <1>3, <1>5, WriteOutcomes
<1>6. ASSUME n # 0, NEW k \in Taken(n),
             sent' = [h EXCEPT !.bytes = @ + k, !.lost = @ + (n - k),
                               !.done = (t.remaining = k)],
             IF t.remaining = k
             THEN /\ EndFileTransfer
                  /\ \E w \in WriteResults :
                        /\ reply' = IF w = "ok" THEN "transfer complete" ELSE reply
                        /\ pc' = AfterWrite(w, "pool")
             ELSE /\ transfer' = [t EXCEPT !.remaining = @ - k]
                  /\ download' = [d EXCEPT !.pos = @ + n, !.eof = n < want]
                  /\ pc' = "pool"
                  /\ UNCHANGED <<reply, upload>>
      PROVE  /\ transfer' \in Transfers /\ download' \in Downloads /\ sent' \in Histories
             /\ upload' = FALSE /\ reply' \in Replies
             /\ pc' \in {"pool", "failed", "killed"}
             /\ Streams' /\ Position'
  <2>1. k \in 1..n /\ n <= d.size - d.pos
    <3>1. n \in Nat \ {0} /\ n <= d.size - d.pos
      <4>1. n # 0
        BY <1>6, Zenon
      <4> QED
        BY <1>1, <1>2, <4>1
    <3>2. k \in {n} \/ k \in 1..n
      BY <1>6, Zenon DEF Taken
    <3> QED
      BY <3>1, <3>2
  <2>2. n \in Nat /\ n <= t.remaining
    BY <1>2
  <2>4. CASE t.remaining = k
    <3>0. PICK yes \in BOOLEAN : yes = TRUE
      OBVIOUS
    <3> DEFINE h2 == Counted(h, n, k, yes)
    <3>1. /\ transfer' \in Transfers /\ transfer'.state = "IDLE" /\ download' \in Downloads
          /\ Streams' /\ upload' = FALSE
      BY <1>6, <2>4, EndTransferTypes DEF EndFileTransfer
    <3>2. reply' \in Replies /\ pc' \in {"pool", "failed", "killed"}
      BY <1>6, <2>4, WriteOutcomes DEF Replies
    <3>3. sent' = h2
      <4>1. sent' = Counted(h, n, k, TRUE)
        BY <1>6, <2>4 DEF Counted
      <4> QED
        BY <3>0, <4>1
    <3>4. /\ h2 \in Histories /\ h2.bytes <= h2.size
          /\ t.remaining = k => h2.bytes = h2.size
          /\ t.remaining = k /\ h2.lost > 0 => h2.resized = TRUE
      <4>1. Adds(h2, t, h, n, k)
        BY <2>1, <2>2, ChunkCounted
      <4> HIDE DEF h2
      <4> QED
        BY <4>1 DEF Adds
    <3> HIDE DEF h2
    <3>6. Position'
      BY <2>4, <3>1, <3>3, <3>4 DEF Position, DownloadIntact
    <3> QED
      BY <3>1, <3>2, <3>3, <3>4, <3>6
  <2>5. CASE t.remaining # k
    <3> DEFINE h2 == Counted(h, n, k, FALSE)
    <3>1. transfer' = Reduced(t, k) /\ pc' = "pool" /\ reply' = reply /\ upload' = upload
      BY <1>6, <2>5 DEF Reduced
    <3>0. PICK c \in BOOLEAN : download' = Advanced(d, n, c)
      <4>1. download' = [d EXCEPT !.pos = @ + n, !.eof = n < want]
        BY <1>6, <2>5, Zenon
      <4>2. CASE n < want
        BY <4>1, <4>2 DEF Advanced
      <4>3. CASE ~(n < want)
        <5>1. (n < want) = FALSE
          BY <4>3
        <5>2. download' = Advanced(d, n, FALSE)
          BY <4>1, <5>1 DEF Advanced
        <5> QED
          BY <5>2
      <4> QED
        BY <4>2, <4>3
    <3>2. sent' = h2
      BY <1>6, <2>5 DEF Counted
    <3>3. h2.done = FALSE /\ InOrder(Reduced(t, k), Advanced(d, n, c), h2)
      <4>1. h2.done = FALSE
        BY <1>1 DEF Counted, Histories
      <4>2. InOrder(Reduced(t, k), Advanced(d, n, c), h2)
        BY <2>1, <2>2, ChunkInOrder
      <4> QED
        BY <4>1, <4>2
    <3> HIDE DEF h2
    <3>4. InOrder(transfer', download', sent') /\ sent'.done = FALSE
      BY <3>0, <3>1, <3>2, <3>3
    <3>5. Streams'
      BY <3>1, <3>4 DEF InOrder, Streams
    <3>6. Position'
      BY <3>4 DEF InOrder, Position, DownloadIntact
    <3> QED
      BY <3>1, <3>4, <3>5, <3>6 DEF InOrder
  <2> QED
    BY <2>4, <2>5
<1> QED
  BY <1>0, <1>4, <1>5, <1>6 DEF SendChunk, Progress

----------------------------------------------------------------------------
\* What stays as it is when an action leaves the variables of a part alone.

LEMMA DescriptorKept ==
    ASSUME Descriptor, pc = "pool", UNCHANGED <<fdVars, sawEof>>,
           pc' \in {"pool", "failed", "killed", "crashed"}
    PROVE  Descriptor'
BY DEF Descriptor, fdVars, Tls

LEMMA PositionKept ==
    ASSUME Position, UNCHANGED sent,
           \/ transfer'.state # "SENDING"
           \/ UNCHANGED <<transfer, download>>
    PROVE  Position'
BY DEF Position, DownloadIntact

LEMMA StreamsKept ==
    ASSUME Streams, UNCHANGED <<upload, download>>, transfer'.state = transfer.state
    PROVE  Streams'
BY DEF Streams

LEMMA IdentityKept ==
    ASSUME Identity, UNCHANGED <<user, act>>
    PROVE  Identity'
BY DEF Identity, ActAllowed

\* A user who got past the gate.
LEMMA AdmittedUser ==
    ASSUME IInv, NEW r, ~Gated(r), r.command # "AUTH", AuthMethod = "public_key"
    PROVE  user \in Users
BY DEF IInv, Identity, Gated

\* What a handler records is allowed, if the module's settings were asked and, unless it
\* was an upload, resolvePath as well.
LEMMA IdentityAfterAct ==
    ASSUME IInv, NEW r \in Request, ~Gated(r), r.command # "AUTH",
           NEW m \in Modules, Permitted(r.command, m), Did(r.command, m, r.path),
           r.command = "PUT" \/ Resolves(r.path), UNCHANGED user
    PROVE  Identity' /\ act' \in Acts
<1>1. r.command \in Commands
  BY RequestFields
<1>2. AuthMethod = "public_key" => user \in Users
  BY AdmittedUser
<1>3. PICK b \in BOOLEAN :
         /\ act' = [op |-> r.command, module |-> m, user |-> user, inside |-> b]
         /\ b <=> r.path \notin Outside
  <2>1. CASE r.path \in Outside
    <3>1. (r.path \notin Outside) = FALSE
      BY <2>1
    <3>2. act' = [op |-> r.command, module |-> m, user |-> user, inside |-> FALSE]
      BY <3>1 DEF Did
    <3> QED
      BY <2>1, <3>2
  <2>2. CASE r.path \notin Outside
    <3>1. (r.path \notin Outside) = TRUE
      BY <2>2
    <3>2. act' = [op |-> r.command, module |-> m, user |-> user, inside |-> TRUE]
      BY <3>1 DEF Did
    <3> QED
      BY <2>2, <3>2
  <2> QED
    BY <2>1, <2>2
<1>4. act' \in Acts
  BY <1>1, <1>3 DEF Acts, IInv, TypeOK
<1>6. act'.op # "PUT" => act'.inside
  BY <1>3 DEF Resolves
<1>5. ActAllowed'
  BY <1>1, <1>2, <1>3, <1>6 DEF ActAllowed, Permitted, Commands
<1> QED
  BY <1>2, <1>4, <1>5 DEF Identity, IInv

----------------------------------------------------------------------------
\* The requests.

\* The variables that a request that ends with its answer leaves alone.
requestFrame == <<peer, fdVars, upload, download, sent, installed, sawEof>>

\* A request that changes neither streams nor history, nor the state of a transfer.
LEMMA AnsweredRequest ==
    ASSUME IInv, pc = "pool", UNCHANGED requestFrame,
           transfer' \in Transfers, transfer'.state = transfer.state,
           transfer.state = "IDLE",
           current' \in Names \cup {NoName}, reply' \in Replies,
           pc' \in {"pool", "failed", "killed", "crashed"},
           user' \in Users \cup {NoName, "anonymous"}, act' \in Acts, Identity'
    PROVE  IInv'
<1>1. TypeOK'
  BY DEF IInv, TypeOK, requestFrame, fdVars, Transfers, Acts
<1>2. Streams' /\ Position'
  BY PositionKept, StreamsKept DEF IInv, requestFrame
<1>3. Descriptor'
  BY DescriptorKept DEF IInv, requestFrame
<1> QED
  BY <1>1, <1>2, <1>3 DEF IInv

LEMMA RequestSteps ==
    ASSUME IInv, NEW r \in Request
    PROVE  /\ HandleInvalid(r) => IInv'
           /\ HandleGated(r) => IInv'
           /\ HandleTransferRefused(r) => IInv'
           /\ CrashOnLookup(r) => IInv'
           /\ \A b \in BOOLEAN : HandleAuth(r, b) => IInv'
           /\ \A ok \in BOOLEAN : HandleSimple(r, ok) => IInv'
<1> USE DEF requestFrame, Reading
<1>1. /\ reply \in Replies /\ current \in Names \cup {NoName}
      /\ transfer \in Transfers /\ act \in Acts
      /\ user \in Users \cup {NoName, "anonymous"}
      /\ "error" \in Replies /\ "ok" \in Replies
  BY DEF IInv, TypeOK, Transfers, Acts, Replies
<1>2. ASSUME HandleInvalid(r) PROVE IInv'
  <2>1. Identity'
    BY <1>2, IdentityKept DEF HandleInvalid, IInv
  <2> QED
    BY <1>1, <1>2, <2>1, RespondTypes, AnsweredRequest DEF HandleInvalid
<1>3. ASSUME HandleGated(r) PROVE IInv'
  <2>1. Identity'
    BY <1>3, IdentityKept DEF HandleGated, IInv
  <2> QED
    BY <1>1, <1>3, <2>1, RespondTypes, SetModuleType, AnsweredRequest DEF HandleGated
<1>4. ASSUME HandleTransferRefused(r) PROVE IInv'
  <2>1. Identity'
    BY <1>4, IdentityKept DEF HandleTransferRefused, IInv
  <2>2. reply' \in Replies /\ pc' \in {"pool", "failed", "killed", "crashed"}
    BY <1>1, <1>4, RespondTypes DEF HandleTransferRefused, Throws
  <2> QED
    BY <1>1, <1>4, <2>1, <2>2, SetModuleType, AnsweredRequest
       DEF HandleTransferRefused, Admitted
<1>5. ASSUME CrashOnLookup(r) PROVE IInv'
  <2>1. Identity'
    BY <1>5, IdentityKept DEF CrashOnLookup, IInv
  <2> QED
    BY <1>1, <1>5, <2>1, AnsweredRequest DEF CrashOnLookup, Admitted
<1>6. ASSUME NEW b \in BOOLEAN, HandleAuth(r, b) PROVE IInv'
  <2>1. reply' \in Replies /\ pc' \in {"pool", "failed", "killed", "crashed"}
    BY <1>1, <1>6, RespondTypes DEF HandleAuth
  <2>2. user' \in Users \cup {NoName, "anonymous"}
    BY <1>1, <1>6 DEF HandleAuth, AuthSucceeds
  <2>3. AuthMethod = "public_key" => user' \in Users \cup {NoName}
    BY <1>1, <1>6 DEF HandleAuth, AuthSucceeds, IInv, Identity
  <2>4. Identity'
    BY <1>6, <2>3 DEF HandleAuth, IInv, Identity, ActAllowed
  <2> QED
    BY <1>1, <1>6, <2>1, <2>2, <2>4, SetModuleType, AnsweredRequest DEF HandleAuth
<1>7. ASSUME NEW ok \in BOOLEAN, HandleSimple(r, ok) PROVE IInv'
  <2>1. PICK m \in Found(Target(r, current)) :
            IF m # NoName /\ Permitted(r.command, m) /\ Resolves(r.path) /\ ok
            THEN Did(r.command, m, r.path) /\ Respond("ok")
            ELSE UNCHANGED act /\ (Respond("ok") \/ Respond("error"))
    BY <1>7 DEF HandleSimple
  <2>2. reply' \in Replies /\ pc' \in {"pool", "failed", "killed", "crashed"}
    BY <1>1, <2>1, RespondTypes
  <2>3. Identity' /\ act' \in Acts
    <3>1. CASE m # NoName /\ Permitted(r.command, m) /\ Resolves(r.path) /\ ok
      BY <1>7, <2>1, <3>1, FoundModules, IdentityAfterAct DEF HandleSimple, Admitted
    <3>2. CASE UNCHANGED act
      BY <1>1, <1>7, <3>2, IdentityKept DEF HandleSimple, IInv
    <3> QED
      BY <2>1, <3>1, <3>2
  <2> QED
    BY <1>1, <1>7, <2>2, <2>3, SetModuleType, AnsweredRequest DEF HandleSimple, Admitted
<1> QED
  BY <1>2, <1>3, <1>4, <1>5, <1>6, <1>7

\* Uploads: the transfer's names are set even when nothing else comes of it.
LEMMA UploadStep ==
    ASSUME IInv, NEW r \in Request, StartUpload(r)
    PROVE  IInv'
<1>1. /\ reply \in Replies /\ "ready to receive" \in Replies
      /\ current \in Names \cup {NoName}
      /\ transfer \in Transfers /\ act \in Acts
      /\ user \in Users \cup {NoName, "anonymous"}
      /\ r.module \in Names \cup {NoName} /\ r.path \in Paths \cup {NoName}
  BY RequestFields DEF IInv, TypeOK, Transfers, Acts, Replies
<1>2. /\ pc = "pool" /\ transfer.state = "IDLE" /\ r.command = "PUT" /\ ~Gated(r)
      /\ SetModule(r) /\ UNCHANGED <<peer, fdVars, user, download, sent, sawEof>>
  BY DEF StartUpload, Admitted, Reading
<1>3. current' \in Names \cup {NoName}
  BY <1>1, <1>2, SetModuleType
<1>4. PICK m \in Found(Target(r, current)) \ {NoName} :
          /\ Permitted("PUT", m)
          /\ \/ /\ Did("PUT", m, r.path)
                /\ upload' = TRUE
                /\ transfer' = [state |-> "RECEIVING", module |-> r.module,
                                path |-> r.path, remaining |-> 0]
                /\ installed' = FALSE
                /\ Respond("ready to receive")
             \/ /\ transfer' = [transfer EXCEPT !.module = r.module, !.path = r.path]
                /\ Respond("ready to receive") \/ Throws
                /\ UNCHANGED <<act, upload, installed>>
  BY DEF StartUpload
<1>5. reply' \in Replies /\ pc' \in {"pool", "failed", "killed", "crashed"}
  BY <1>1, <1>4, RespondTypes DEF Throws
<1>6. CASE /\ Did("PUT", m, r.path) /\ upload' = TRUE /\ installed' = FALSE
           /\ transfer' = [state |-> "RECEIVING", module |-> r.module,
                           path |-> r.path, remaining |-> 0]
  <2>1. Identity' /\ act' \in Acts
    BY <1>2, <1>4, <1>6, FoundModules, IdentityAfterAct
  <2>2. transfer' \in Transfers /\ transfer'.state = "RECEIVING"
    BY <1>1, <1>6 DEF Transfers
  <2>3. TypeOK'
    <3>1. upload' \in BOOLEAN /\ installed' \in BOOLEAN
      BY <1>6
    <3> QED
      BY <1>2, <1>3, <1>5, <2>1, <2>2, <3>1 DEF IInv, TypeOK, fdVars, Transfers, Acts
  <2>4. Streams'
    BY <1>2, <1>6, <2>2 DEF IInv, Streams
  <2>5. Position'
    BY <1>2, <2>2, PositionKept DEF IInv
  <2>6. Descriptor'
    BY <1>2, <1>5, DescriptorKept DEF IInv
  <2> QED
    BY <2>1, <2>3, <2>4, <2>5, <2>6 DEF IInv
<1>7. CASE /\ transfer' = [transfer EXCEPT !.module = r.module, !.path = r.path]
           /\ UNCHANGED <<act, upload, installed>>
  <2>1. transfer' \in Transfers /\ transfer'.state = transfer.state
    BY <1>1, <1>7 DEF Transfers
  <2>2. Identity'
    BY <1>2, <1>7, IdentityKept DEF IInv
  <2> QED
    BY <1>1, <1>2, <1>3, <1>5, <1>7, <2>1, <2>2, AnsweredRequest DEF requestFrame
<1> QED
  BY <1>4, <1>6, <1>7

\* After one call of continueFileTransfer everything is in order.
LEMMA AfterChunk ==
    ASSUME IInv, pc = "pool", NEW t, NEW d, NEW h, InOrder(t, d, h), SendChunk(t, d, h),
           transfer.state # "RECEIVING",
           UNCHANGED <<peer, fdVars, user, installed, sawEof>>,
           current' \in Names \cup {NoName}, act' \in Acts, Identity'
    PROVE  IInv'
<1>1. upload = FALSE /\ reply \in Replies
  BY DEF IInv, Streams, TypeOK
<1>2. /\ transfer' \in Transfers /\ download' \in Downloads /\ sent' \in Histories
      /\ upload' = FALSE /\ reply' \in Replies
      /\ pc' \in {"pool", "failed", "killed"}
      /\ Streams' /\ Position'
  BY <1>1, ChunkSent
<1>3. TypeOK'
  <2>1. upload' \in BOOLEAN
    BY <1>2
  <2> QED
    BY <1>2, <2>1 DEF IInv, TypeOK, fdVars, Transfers, Downloads, Acts, Histories
<1>4. Descriptor'
  BY <1>2, DescriptorKept DEF IInv
<1> QED
  BY <1>2, <1>3, <1>4 DEF IInv

LEMMA DownloadStarts ==
    ASSUME IInv, NEW r \in Request, NEW size \in Nat, NEW length \in Nat,
           StartDownload(r, size, length)
    PROVE  IInv'
<1>1. /\ reply \in Replies /\ "ready for transfer" \in Replies
      /\ current \in Names \cup {NoName}
      /\ transfer \in Transfers
      /\ user \in Users \cup {NoName, "anonymous"}
      /\ r.module \in Names \cup {NoName} /\ r.path \in Paths \cup {NoName}
  BY RequestFields DEF IInv, TypeOK, Transfers, Replies
<1>2. /\ pc = "pool" /\ transfer.state = "IDLE" /\ r.command = "GET" /\ ~Gated(r)
      /\ Resolves(r.path)
      /\ SetModule(r) /\ UNCHANGED <<peer, fdVars, user, installed, sawEof>>
  BY DEF StartDownload, Admitted, Reading
<1>3. current' \in Names \cup {NoName}
  BY <1>1, <1>2, SetModuleType
<1> DEFINE names == [transfer EXCEPT !.module = r.module, !.path = r.path]
           t == [names EXCEPT !.state = "SENDING", !.remaining = size]
           d == [open |-> TRUE, size |-> length, pos |-> 0, eof |-> FALSE]
           h == [NothingSent EXCEPT !.size = size, !.resized = length # size]
<1>4. PICK m \in Found(Target(r, current)) \ {NoName} :
          /\ Did("GET", m, r.path)
          /\ \/ SendChunk(t, d, h)
             \/ /\ transfer' = names
                /\ Respond("ready for transfer") \/ Throws
                /\ UNCHANGED <<upload, download, sent>>
  BY DEF StartDownload
<1>5. Identity' /\ act' \in Acts
  <2>1. Permitted("GET", m)
    BY DEF Permitted
  <2> QED
    BY <1>2, <1>4, <2>1, FoundModules, IdentityAfterAct
<1>6. names \in Transfers /\ names.state = transfer.state
  BY <1>1 DEF Transfers
<1> HIDE DEF names
<1>7. InOrder(t, d, h)
  <2>1. t \in Transfers /\ t.state = "SENDING" /\ t.remaining = size
    BY <1>6 DEF Transfers
  <2>2. d \in Downloads /\ d.open = TRUE /\ d.size = length /\ d.pos = 0
    BY DEF Downloads
  <2>3. /\ h \in Histories /\ h.size = size /\ h.bytes = 0 /\ h.lost = 0
        /\ h.resized = FALSE => length = size
    <3>1. CASE length = size
      BY <3>1 DEF NothingSent, Histories
    <3>2. CASE length # size
      BY <3>2 DEF NothingSent, Histories
    <3> QED
      BY <3>1, <3>2
  <2> HIDE DEF t, d, h
  <2> QED
    BY <2>1, <2>2, <2>3 DEF InOrder
<1> HIDE DEF t, d, h
<1>8. CASE SendChunk(t, d, h)
  BY <1>2, <1>3, <1>5, <1>7, <1>8, AfterChunk
<1>9. CASE /\ transfer' = names
           /\ Respond("ready for transfer") \/ Throws
           /\ UNCHANGED <<upload, download, sent>>
  <2>1. reply' \in Replies /\ pc' \in {"pool", "failed", "killed", "crashed"}
    BY <1>1, <1>9, RespondTypes DEF Throws
  <2> QED
    BY <1>1, <1>2, <1>3, <1>5, <1>6, <1>9, <2>1, AnsweredRequest DEF requestFrame
<1> QED
  BY <1>4, <1>8, <1>9

LEMMA DownloadContinues ==
    ASSUME IInv, ContinueDownload
    PROVE  IInv'
<1>1. /\ pc = "pool" /\ transfer.state = "SENDING" /\ SendChunk(transfer, download, sent)
      /\ UNCHANGED <<peer, fdVars, user, current, act, installed, sawEof>>
  BY DEF ContinueDownload
<1>2. InOrder(transfer, download, sent)
  <2>1. transfer \in Transfers /\ download \in Downloads /\ sent \in Histories
    BY DEF IInv, TypeOK, Transfers, Downloads, Histories
  <2>2. download.open = TRUE
    BY <1>1, <2>1 DEF IInv, Streams, Downloads
  <2>3. /\ sent.bytes <= sent.size /\ transfer.remaining = sent.size - sent.bytes
        /\ sent.resized = FALSE
              => download.size = sent.size /\ download.pos = sent.bytes + sent.lost
    BY <1>1 DEF IInv, Position, DownloadIntact
  <2> QED
    BY <1>1, <2>1, <2>2, <2>3 DEF InOrder
<1>3. current' \in Names \cup {NoName} /\ act' \in Acts /\ Identity'
  BY <1>1, IdentityKept DEF IInv, TypeOK, Acts
<1> QED
  BY <1>1, <1>2, <1>3, AfterChunk

----------------------------------------------------------------------------
\* The rest of the worker, the daemon, the client and the writers of the file.

LEMMA CloseTypes ==
    ASSUME TypeOK, Close
    PROVE  /\ active' \in BOOLEAN /\ sock' \in BOOLEAN /\ fdOpen' \in BOOLEAN
           /\ ssl' \in {"none", "open", "shut", "closed"} /\ closes' \in Nat
<1>1. CASE UNCHANGED fdVars
  BY <1>1 DEF TypeOK, fdVars
<1>2. CASE ~UNCHANGED fdVars
  <2>1. sock' = FALSE /\ active' = FALSE /\ fdOpen' = FALSE
    BY <1>2 DEF Close
  <2>2. ssl' \in {"none", "open", "shut", "closed"} /\ closes' \in Nat
    BY <1>2 DEF TypeOK, Close
  <2> QED
    BY <2>1, <2>2
<1> QED
  BY <1>1, <1>2

\* close(), whenever it is called.
LEMMA CloseOnce ==
    ASSUME TypeOK, Descriptor, Close
    PROVE  /\ closes' = IF fdOpen' THEN 0 ELSE 1
           /\ sock' <=> fdOpen'
           /\ Tls' => (fdOpen' <=> ssl' # "closed")
           /\ active' => sock'
           /\ ~active' /\ fdOpen' => sawEof
           /\ active' => active
           /\ ~active'
           /\ fdOpen' => ~Tls' /\ ~active
BY DEF TypeOK, Descriptor, Close, Tls, fdVars

LEMMA ReadStep == ASSUME IInv, ReadFails PROVE IInv'
<1>1. /\ pc = "pool" /\ active /\ pc' = "failed"
      /\ active' = FALSE /\ sawEof' = TRUE
      /\ ssl' = ssl \/ (ssl # "closed" /\ ssl' = "shut") \/ (ssl = "none" /\ ssl' = "none")
      /\ UNCHANGED <<peer, sock, fdOpen, closes, user, current, transfer, upload,
                     download, reply, act, sent, installed>>
  BY DEF ReadFails, Reading, SslAfterZero
<1>2. TypeOK'
  <2>1. /\ active' \in BOOLEAN /\ sawEof' \in BOOLEAN
        /\ ssl' \in {"none", "open", "shut", "closed"}
    BY <1>1 DEF IInv, TypeOK
  <2> QED
    BY <1>1, <2>1 DEF IInv, TypeOK
<1>3. Descriptor'
  BY <1>1 DEF ReadFails, SslAfterZero, IInv, TypeOK, Descriptor, Tls
<1>4. Streams' /\ Position' /\ Identity'
  BY <1>1, StreamsKept, PositionKept, IdentityKept DEF IInv
<1> QED
  BY <1>2, <1>3, <1>4 DEF IInv

LEMMA ReceiveStep == ASSUME IInv, ReceiveError PROVE IInv'
<1>1. /\ pc = "pool" /\ pc' = "failed" /\ EndFileTransfer
      /\ UNCHANGED <<peer, fdVars, user, current, reply, act, sent, installed, sawEof>>
  BY DEF ReceiveError
<1>2. /\ transfer' \in Transfers /\ transfer'.state = "IDLE"
      /\ upload' \in BOOLEAN /\ download' \in Downloads /\ Streams'
  BY <1>1, EndTransferTypes
<1>3. TypeOK'
  BY <1>1, <1>2 DEF IInv, TypeOK, fdVars, Transfers, Downloads
<1>4. Descriptor' /\ Position' /\ Identity'
  BY <1>1, <1>2, DescriptorKept, PositionKept, IdentityKept DEF IInv
<1> QED
  BY <1>2, <1>3, <1>4 DEF IInv

LEMMA FinishStep == ASSUME IInv, FinishUpload PROVE IInv'
<1>1. /\ pc = "pool" /\ EndFileTransfer
      /\ ssl' = SslAfterZero /\ Install(transfer')
      /\ UNCHANGED <<peer, active, sock, fdOpen, closes, user, current, act, sent, sawEof>>
  BY DEF FinishUpload
<1>2. /\ transfer' \in Transfers /\ transfer'.state = "IDLE"
      /\ upload' \in BOOLEAN /\ download' \in Downloads /\ Streams'
  BY <1>1, EndTransferTypes
<1>3. reply' \in Replies /\ pc' \in {"pool", "killed"}
  BY WriteOutcomes DEF FinishUpload, IInv, TypeOK, Replies
<1>4. ssl' \in {"none", "open", "shut", "closed"} /\ installed' \in BOOLEAN
  BY <1>1 DEF SslAfterZero, Install, IInv, TypeOK
<1>5. TypeOK'
  BY <1>1, <1>2, <1>3, <1>4 DEF IInv, TypeOK, Transfers, Downloads
<1>6. Descriptor'
  BY <1>1, <1>3 DEF IInv, TypeOK, Descriptor, Tls, SslAfterZero
<1>7. Position' /\ Identity'
  BY <1>1, <1>2, PositionKept, IdentityKept DEF IInv
<1> QED
  BY <1>2, <1>5, <1>6, <1>7 DEF IInv

LEMMA CloseStep == ASSUME IInv, CloseFailed PROVE IInv'
<1>1. /\ pc = "failed" /\ pc' = "closed" /\ Close
      /\ UNCHANGED <<peer, user, current, transfer, upload, download, reply, act, sent,
                     installed, sawEof>>
  BY DEF CloseFailed
<1>2. TypeOK'
  BY <1>1, CloseTypes DEF IInv, TypeOK
<1>3. Descriptor'
  BY <1>1, CloseOnce DEF IInv, Descriptor
<1>4. Streams' /\ Position' /\ Identity'
  BY <1>1, StreamsKept, PositionKept, IdentityKept DEF IInv
<1> QED
  BY <1>2, <1>3, <1>4 DEF IInv

\* The destructor: in the worker's list, or in stop().
LEMMA Destroyed ==
    ASSUME IInv, Close, EndFileTransfer, pc' = "destroyed",
           UNCHANGED <<peer, user, current, reply, act, sent, installed, sawEof>>
    PROVE  IInv'
<1>1. /\ transfer' \in Transfers /\ transfer'.state = "IDLE"
      /\ upload' \in BOOLEAN /\ download' \in Downloads /\ Streams'
  BY EndTransferTypes
<1>2. TypeOK'
  BY <1>1, CloseTypes DEF IInv, TypeOK, Transfers, Downloads
<1>3. transfer' = Idle'
  BY DEF EndFileTransfer, Idle
<1>4. Descriptor'
  BY <1>3, CloseOnce DEF IInv, Descriptor
<1>5. Position' /\ Identity'
  BY <1>1, PositionKept, IdentityKept DEF IInv
<1> QED
  BY <1>1, <1>2, <1>4, <1>5 DEF IInv

LEMMA ReturnStep == ASSUME IInv, ReturnOrDestroy PROVE IInv'
<1>1. CASE active
  <2>1. /\ pc' = "pool" /\ UNCHANGED <<peer, fdVars, user, current, transfer, upload,
                                      download, reply, act, sent, installed, sawEof>>
    BY <1>1 DEF ReturnOrDestroy
  <2>2. TypeOK'
    BY <2>1 DEF IInv, TypeOK, fdVars
  <2>3. Descriptor'
    BY <1>1, <2>1 DEF IInv, Descriptor, fdVars, Tls
  <2>4. Streams' /\ Position' /\ Identity'
    BY <2>1, StreamsKept, PositionKept, IdentityKept DEF IInv
  <2> QED
    BY <2>2, <2>3, <2>4 DEF IInv
<1>2. CASE ~active
  BY <1>2, Destroyed DEF ReturnOrDestroy
<1> QED
  BY <1>1, <1>2

LEMMA StopStep == ASSUME IInv, StopDaemon PROVE IInv'
<1>1. /\ Close /\ EndFileTransfer /\ pc' = "destroyed"
      /\ UNCHANGED <<peer, user, current, reply, act, sent, installed, sawEof>>
  BY DEF StopDaemon
<1> QED
  BY <1>1, Destroyed

LEMMA KilledStep == ASSUME IInv, KilledInShutdown PROVE IInv'
<1>1. /\ pc' = "killed"
      /\ UNCHANGED <<peer, fdVars, user, current, transfer, upload, download, reply, act,
                     sent, installed, sawEof>>
  BY DEF KilledInShutdown
<1>2. TypeOK' /\ Descriptor'
  BY <1>1 DEF IInv, TypeOK, Descriptor, fdVars, Tls
<1>3. Streams' /\ Position' /\ Identity'
  BY <1>1, StreamsKept, PositionKept, IdentityKept DEF IInv
<1> QED
  BY <1>2, <1>3 DEF IInv

LEMMA PeerStep == ASSUME IInv, PeerCloses PROVE IInv'
<1>1. /\ peer' = "closed"
      /\ UNCHANGED <<pc, fdVars, user, current, transfer, upload, download, reply, act,
                     sent, installed, sawEof>>
  BY DEF PeerCloses
<1>2. TypeOK' /\ Descriptor'
  BY <1>1 DEF IInv, TypeOK, Descriptor, fdVars, Tls, Idle
<1>3. Streams' /\ Position' /\ Identity'
  BY <1>1, StreamsKept, PositionKept, IdentityKept DEF IInv
<1> QED
  BY <1>2, <1>3 DEF IInv

LEMMA ResizeStep == ASSUME IInv, NEW size \in Nat, FileResized(size) PROVE IInv'
<1>1. /\ pc = "pool" /\ download.open
      /\ download' = [download EXCEPT !.size = size]
      /\ sent' = [sent EXCEPT !.resized = TRUE]
      /\ UNCHANGED <<pc, peer, fdVars, user, current, transfer, upload, reply, act,
                     installed, sawEof>>
  BY DEF FileResized
<1>2. download \in Downloads /\ sent \in Histories
  BY DEF IInv, TypeOK, Downloads, Histories
<1>3. download' \in Downloads /\ download'.open = download.open
  BY <1>1, <1>2 DEF Downloads
<1>4. /\ sent' \in Histories /\ sent'.resized = TRUE
      /\ sent'.size = sent.size /\ sent'.bytes = sent.bytes /\ sent'.lost = sent.lost
      /\ sent'.done = sent.done
  BY <1>1, <1>2 DEF Histories
<1>5. TypeOK'
  BY <1>1, <1>3, <1>4 DEF IInv, TypeOK, fdVars, Downloads, Histories
<1>6. Streams'
  BY <1>1, <1>3 DEF IInv, Streams
<1>7. Position'
  BY <1>1, <1>4 DEF IInv, Position, DownloadIntact
<1>8. Descriptor' /\ Identity'
  BY <1>1, DescriptorKept, IdentityKept DEF IInv
<1> QED
  BY <1>5, <1>6, <1>7, <1>8 DEF IInv

----------------------------------------------------------------------------

LEMMA InitIInv == Init => IInv
<1> SUFFICES ASSUME Init PROVE IInv
  OBVIOUS
<1>1. Streams
  BY DEF Init, Streams, Idle, NoStream
<1>2. Descriptor
  BY DEF Init, Descriptor, Tls
<1>3. Position
  BY DEF Init, Position, DownloadIntact, Idle, NothingSent
<1>4. Identity
  BY DEF Init, Identity, ActAllowed
<1> QED
  BY <1>1, <1>2, <1>3, <1>4, Typed DEF IInv

LEMMA NextIInv == IInv /\ [Next]_vars => IInv'
<1> SUFFICES ASSUME IInv, [Next]_vars PROVE IInv'
  OBVIOUS
<1>1. CASE UNCHANGED vars
  <2>1. TypeOK' /\ Descriptor'
    BY <1>1 DEF vars, IInv, TypeOK, Descriptor, Tls, Idle
  <2>2. Streams' /\ Position' /\ Identity'
    BY <1>1, StreamsKept, PositionKept, IdentityKept DEF vars, IInv
  <2> QED
    BY <2>1, <2>2 DEF IInv
<1>2. ASSUME Worker PROVE IInv'
  <2>1. CASE ReadFails \/ ContinueDownload \/ ReceiveError \/ FinishUpload
             \/ CloseFailed \/ ReturnOrDestroy
    BY <2>1, ReadStep, DownloadContinues, ReceiveStep, FinishStep, CloseStep, ReturnStep
  <2>2. CASE ReceiveData
    BY <1>1, <2>2 DEF ReceiveData
  <2>3. ASSUME NEW r \in Request,
               \/ HandleInvalid(r) \/ HandleGated(r) \/ HandleTransferRefused(r)
               \/ StartUpload(r) \/ CrashOnLookup(r)
               \/ \E b \in BOOLEAN : HandleAuth(r, b) \/ HandleSimple(r, b)
        PROVE  IInv'
    BY <2>3, RequestSteps, UploadStep
  <2>4. ASSUME NEW r \in Request, NEW size \in 0..MaxSize, NEW length \in 0..MaxSize,
               StartDownload(r, size, length)
        PROVE  IInv'
    <3>1. size \in Nat /\ length \in Nat
      BY SessionConstants
    <3> QED
      BY <2>4, <3>1, DownloadStarts
  <2> QED
    BY <1>2, <2>1, <2>2, <2>3, <2>4 DEF Worker
<1>3. ASSUME NEW size \in 0..MaxSize, FileResized(size) PROVE IInv'
  <2>1. size \in Nat
    BY SessionConstants
  <2> QED
    BY <1>3, <2>1, ResizeStep
<1>4. CASE StopDaemon \/ KilledInShutdown \/ PeerCloses
  BY <1>4, StopStep, KilledStep, PeerStep
<1>5. CASE Over
  BY <1>1, <1>5 DEF Over
<1> QED
  BY <1>1, <1>2, <1>3, <1>4, <1>5 DEF Next

\* The inductive invariant holds in every state: descriptor, streams, position of the
\* download and identity of the client are in order after every exit of processRequest.
THEOREM SessionInvariant == Spec => []IInv
BY InitIInv, NextIInv, PTL DEF Spec

\* The variables of a session keep their types, whatever the client sends.
THEOREM SessionTypeCorrect == Spec => []TypeOK
<1>1. IInv => TypeOK
  BY DEF IInv
<1> QED
  BY <1>1, SessionInvariant, PTL

\* transfer_state_ and the open streams agree, a session in the pool can use its socket,
\* and the destructor leaves no file open, for every exit of processRequest.
THEOREM StreamsFollowTransfer == Spec => []TransferStreams
<1>1. IInv => TransferStreams
  BY DEF IInv, Streams, Descriptor, TransferStreams
<1> QED
  BY <1>1, SessionInvariant, PTL

\* A download reported complete delivered the file's bytes, with no gap unless the file
\* was resized meanwhile, for every buffer size, file size and sequence of short sends.
THEOREM DownloadsAreIntact == Spec => []DownloadIntact
<1>1. IInv => DownloadIntact
  BY DEF IInv, Position
<1> QED
  BY <1>1, SessionInvariant, PTL

\* The descriptor is closed at most once and not used afterwards, although close() runs up
\* to three times; only a plain session whose read failed can leave it open.
THEOREM DescriptorClosedOnce == Spec => []FdDiscipline
<1>1. IInv => FdDiscipline
  BY DEF IInv, Descriptor, FdDiscipline
<1> QED
  BY <1>1, SessionInvariant, PTL

\* What the handlers did was allowed by the module and, with public keys, done for a user
\* whose key was verified; all but uploads (which do not go through resolvePath) kept to
\* the paths that resolvePath accepts.
THEOREM HandlersStayWithinRights == Spec => []ActAllowed
<1>1. IInv => ActAllowed
  BY DEF IInv, Identity
<1> QED
  BY <1>1, SessionInvariant, PTL

\* A chunk that leaves the session in the pool ends the transfer or leaves less to send.
LEMMA ChunkLess ==
    ASSUME NEW t \in Transfers, NEW d \in Downloads, NEW h, SendChunk(t, d, h),
           t.state = "SENDING", pc' = "pool"
    PROVE  \/ transfer'.state = "IDLE"
           \/ /\ transfer'.state = "SENDING"
              /\ transfer'.remaining \in Int /\ transfer'.remaining < t.remaining
<1>0. PICK want, left, n :
         /\ want = Min2(Chunk, t.remaining)
         /\ left = IF d.eof \/ d.pos >= d.size THEN 0 ELSE d.size - d.pos
         /\ n = Min2(want, left)
  OBVIOUS
<1>1. n \in Int /\ t.remaining \in Nat
  BY <1>0, SessionConstants DEF Min2, Transfers, Downloads
<1>2. CASE n = 0
  BY <1>0, <1>2 DEF SendChunk
<1>3. CASE n # 0
  <2>1. ASSUME NEW k \in Taken(n),
               IF t.remaining = k
               THEN EndFileTransfer
               ELSE transfer' = [t EXCEPT !.remaining = @ - k]
        PROVE  \/ transfer'.state = "IDLE"
               \/ /\ transfer'.state = "SENDING"
                  /\ transfer'.remaining \in Int /\ transfer'.remaining < t.remaining
    <3>1. k \in {n} \/ k \in 1..n
      BY <2>1, Zenon DEF Taken
    <3>2. n > 0
      BY <1>0, <1>1, <1>3, SessionConstants DEF Min2, Transfers, Downloads
    <3>3. k \in Int /\ k > 0
      BY <1>1, <3>1, <3>2
    <3>4. CASE t.remaining = k
      BY <2>1, <3>4 DEF EndFileTransfer, Idle
    <3>5. CASE t.remaining # k
      <4>1. transfer' = [t EXCEPT !.remaining = @ - k]
        BY <2>1, <3>5
      <4>2. transfer'.state = "SENDING" /\ transfer'.remaining = t.remaining - k
        BY <4>1 DEF Transfers
      <4> QED
        BY <1>1, <3>3, <4>2
    <3> QED
      BY <3>4, <3>5
  <2>2. CASE \E w \in WriteResults \ {"ok"} : EndFileTransfer
    BY <2>2 DEF EndFileTransfer, Idle
  <2> QED
    BY <1>0, <1>3, <2>1, <2>2 DEF SendChunk, Progress
<1> QED
  BY <1>2, <1>3

\* A worker's step on a session whose client is gone.
LEMMA GoneClientStep ==
    ASSUME IInv, peer = "closed", Worker, pc' = "pool"
    PROVE  CallsLeft' < CallsLeft
<1>1. transfer \in Transfers /\ download \in Downloads
  BY DEF IInv, TypeOK, Transfers, Downloads
<1>2. CASE ContinueDownload
  <2>1. /\ transfer.state = "SENDING" /\ SendChunk(transfer, download, sent)
    BY <1>2 DEF ContinueDownload
  <2>2. \/ transfer'.state = "IDLE"
        \/ /\ transfer'.state = "SENDING"
           /\ transfer'.remaining \in Int /\ transfer'.remaining < transfer.remaining
    BY <1>1, <2>1, ChunkLess
  <2>3. transfer.remaining \in Nat /\ CallsLeft = transfer.remaining + 1
    BY <1>1, <2>1 DEF CallsLeft, Transfers
  <2>4. \/ CallsLeft' = 0
        \/ /\ CallsLeft' = transfer'.remaining + 1
           /\ transfer'.remaining \in Int /\ transfer'.remaining < transfer.remaining
    BY <2>2 DEF CallsLeft
  <2> QED
    BY <2>3, <2>4
<1>3. CASE FinishUpload
  <2>1. transfer.state = "RECEIVING" /\ transfer'.state = "IDLE"
    BY <1>3 DEF FinishUpload, EndFileTransfer, Idle
  <2>2. CallsLeft = 1 /\ CallsLeft' = 0
    BY <2>1 DEF CallsLeft
  <2> QED
    BY <2>2
<1>4. CASE ReturnOrDestroy
  <2>1. ~active
    BY <1>4 DEF ReturnOrDestroy, IInv, Descriptor
  <2> QED
    BY <1>4, <2>1 DEF ReturnOrDestroy
<1>5. CASE ReadFails \/ ReceiveError \/ CloseFailed \/ ReceiveData
  BY <1>5 DEF ReadFails, ReceiveError, CloseFailed, ReceiveData
<1>6. ASSUME NEW r \in Request,
             \/ HandleInvalid(r) \/ HandleGated(r) \/ HandleTransferRefused(r)
             \/ StartUpload(r) \/ CrashOnLookup(r)
             \/ \E b \in BOOLEAN : HandleAuth(r, b) \/ HandleSimple(r, b)
             \/ \E size, length \in 0..MaxSize : StartDownload(r, size, length)
      PROVE  FALSE
  BY <1>6 DEF HandleInvalid, HandleGated, HandleTransferRefused, StartUpload,
              CrashOnLookup, HandleAuth, HandleSimple, StartDownload, Admitted
<1> QED
  BY <1>2, <1>3, <1>4, <1>5, <1>6 DEF Worker

\* A gone client costs the workers finitely many calls: each one that keeps the session
\* lowers the number of those that can follow, for every file size and buffer size and in
\* every state the session may have been in.
THEOREM GoneClientsCostLess == Spec => GoneClientCostsLess
<1>1. IInv /\ [Next]_vars
        => [peer = "closed" /\ Worker /\ pc' = "pool" => CallsLeft' < CallsLeft]_vars
  BY GoneClientStep
<1> QED
  BY <1>1, SessionInvariant, PTL DEF Spec, GoneClientCostsLess

\* No step of a session ever moves a finished upload to its final name: endFileTransfer has
\* cleared the names that the rename asks for, whatever was uploaded and where.
LEMMA InstalledStep == ~installed /\ [Next]_vars => ~installed'
<1> SUFFICES ASSUME ~installed, [Next]_vars PROVE ~installed'
  OBVIOUS
<1>1. CASE UNCHANGED vars
  BY <1>1 DEF vars
<1>2. CASE FinishUpload
  <2>1. transfer'.module = NoName
    BY <1>2 DEF FinishUpload, EndFileTransfer, Idle
  <2> QED
    BY <1>2, <2>1 DEF FinishUpload, Install
<1>3. ASSUME Worker, ~FinishUpload PROVE ~installed'
  <2>1. CASE ReadFails \/ ContinueDownload \/ ReceiveError \/ CloseFailed \/ ReturnOrDestroy
    BY <2>1 DEF ReadFails, ContinueDownload, ReceiveError, CloseFailed, ReturnOrDestroy
  <2>2. CASE ReceiveData
    BY <1>1, <2>2 DEF ReceiveData
  <2>3. ASSUME NEW r \in Request,
               \/ HandleInvalid(r) \/ HandleGated(r) \/ HandleTransferRefused(r)
               \/ StartUpload(r) \/ CrashOnLookup(r)
        PROVE  ~installed'
    BY <2>3 DEF HandleInvalid, HandleGated, HandleTransferRefused, StartUpload, CrashOnLookup
  <2>4. ASSUME NEW r \in Request, NEW b \in BOOLEAN, HandleAuth(r, b) \/ HandleSimple(r, b)
        PROVE  ~installed'
    BY <2>4 DEF HandleAuth, HandleSimple
  <2>5. ASSUME NEW r \in Request, NEW size \in 0..MaxSize, NEW length \in 0..MaxSize,
               StartDownload(r, size, length)
        PROVE  ~installed'
    BY <2>5 DEF StartDownload
  <2> QED
    BY <1>3, <2>1, <2>2, <2>3, <2>4, <2>5 DEF Worker
<1>4. CASE StopDaemon \/ KilledInShutdown \/ PeerCloses
  BY <1>4 DEF StopDaemon, KilledInShutdown, PeerCloses
<1>5. ASSUME NEW size \in 0..MaxSize, FileResized(size) PROVE ~installed'
  BY <1>5 DEF FileResized
<1>6. CASE Over
  BY <1>1, <1>6 DEF Over
<1> QED
  BY <1>1, <1>2, <1>3, <1>4, <1>5, <1>6 DEF Next

\* What the run SessionUpload shows of one upload holds of all: a client that is told "File
\* uploaded successfully" has nothing under the name that it uploaded to, for any modules,
\* paths and sequences of requests.
THEOREM UploadsAreNeverInstalled == Spec => [](reply = "uploaded" => ~installed)
<1>1. Init => ~installed
  BY DEF Init
<1> QED
  BY <1>1, InstalledStep, PTL DEF Spec
=============================================================================
