---------------------------- MODULE DaemonConfig ----------------------------
(***************************************************************************)
(* The daemon and its configuration: start-up from a file (handleStart of  *)
(* main.cpp, the constructor and start() of core/daemon.cpp), reloadConfig *)
(* while the daemon runs, and what sessions make of the settings           *)
(* meanwhile.  The Configuration object is shared and never locked: a load *)
(* assigns one setting after the other, and each assignment is a step.     *)
(* (Reading a string while it is assigned is undefined; here a setting is  *)
(* read before or after.)                                                  *)
(*                                                                         *)
(* The daemon's own threads never get to reloadConfig, as hasChanged() is  *)
(* never true; it is public, and the model lets it be called at any time,  *)
(* by one thread.  The operator edits the file and the disk.               *)
(***************************************************************************)
EXTENDS Configuration, NetworkAccess

CONSTANTS
    Documents,      \* for each format, the documents that the operator writes
    Starts,         \* how the daemon is started: [format, doc, access], access being the
                    \* AccessConfig that the Configuration was made with
    Kind,           \* what each path is when nobody has disturbed it
    Users,          \* the names that clients log in with
    MaxEdits,       \* bound on the changes of file and disk
    MaxReloads      \* bound on the calls of reloadConfig

ASSUME DaemonConfigConstants ==
    /\ \A f \in Formats : \A d \in Documents[f] : IsDocument(d)
    /\ \A s \in Starts :
          s.format \in Formats /\ s.doc \in Documents[s.format] /\ s.access \in AccessLists
    /\ Kind \in [Paths -> {"file", "dir"}]
    /\ Users \cap {"", "anonymous"} = {}
    /\ MaxEdits \in Nat /\ MaxReloads \in Nat

VARIABLES
    format,     \* the file's extension
    file,       \* the file: [kind, doc]
    disk,       \* what each path is: "none", "file" or "dir"
    access,     \* the access settings, which no parser assigns
    config,     \* the other settings of the Configuration object
    isValid,    \* is_valid_
    proc,       \* "starting", "running", "failed" or "terminated"
    loader,     \* the thread that loads: [pc, doc, at], at being the place it is at
    served,     \* modules_
    manager,    \* the AuthConfig that auth_manager_ was made with
    tls,        \* ssl_context_ is there
    session,    \* one session: [open, tls, user], tls being whether it was made with TLS
    read,       \* history: the documents whose reading was begun, one after the other
    edits,      \* changes made by the operator
    reloads     \* calls of reloadConfig

env == <<format, access>>
operator == <<file, disk, edits>>
vars == <<env, operator, config, isValid, proc, loader, served, manager, tls, session,
          read, reloads>>

FileKinds == {"missing", "garbled", "good"}
LoaderPcs == {"idle", "open", "parse", "validate", "main", "construct", "check",
              "modules", "sockets"}
NoManager == [on |-> FALSE, method |-> "", denied |-> <<>>]
NoSession == [open |-> FALSE, tls |-> FALSE, user |-> ""]

\* The types of the daemon's settings, of its copies of them, and of the load under way.
TypeOK ==
    /\ format \in Formats /\ access \in {s.access : s \in Starts}
    /\ file.kind \in FileKinds /\ file.doc \in Documents[format] \cup {EmptyDocument}
    /\ disk \in [Paths -> {"none", "file", "dir"}]
    /\ config.bind_port \in 0..(PortModulus - 1)
    /\ DOMAIN config.modules = Names
    /\ isValid \in BOOLEAN
    /\ proc \in {"starting", "running", "failed", "terminated"}
    /\ loader.pc \in LoaderPcs /\ loader.at \in 0..Len(Order)
    /\ \A m \in Names : served[m].present => served[m].path \in Paths
    /\ manager \in [on : BOOLEAN, method : Words, denied : Seq(Words)]
    /\ session \in [open : BOOLEAN, tls : BOOLEAN, user : Users \cup {"", "anonymous"}]
    /\ read \in Seq(Documents[format] \cup {EmptyDocument})
    /\ edits \in 0..MaxEdits /\ reloads \in 0..MaxReloads

File(kind, doc) == [kind |-> kind, doc |-> doc]

Init ==
    /\ \E s \in Starts :
          format = s.format /\ file = File("good", s.doc) /\ access = s.access
    /\ disk = Kind
    /\ config = Defaults /\ isValid = FALSE
    /\ proc = "starting"
    /\ loader = [pc |-> "open", doc |-> EmptyDocument, at |-> 0]
    /\ served = [m \in Names |-> NoModule]
    /\ manager = NoManager /\ tls = FALSE
    /\ session = NoSession
    /\ read = <<>> /\ edits = 0 /\ reloads = 0

----------------------------------------------------------------------------
\* The operator, as long as there is a process to take notice.

Over == proc \in {"failed", "terminated"}

WriteFile(new) ==
    /\ ~Over /\ edits < MaxEdits
    /\ new # file
    /\ file' = new
    /\ edits' = edits + 1
    /\ UNCHANGED <<env, disk, config, isValid, proc, loader, served, manager, tls, session,
                   read, reloads>>

\* A path disappears, comes back, or is a file where a directory should be.
Disturb(path, kind) ==
    /\ ~Over /\ edits < MaxEdits
    /\ kind # disk[path] /\ kind \in {"none", "file", Kind[path]}
    /\ disk' = [disk EXCEPT ![path] = kind]
    /\ edits' = edits + 1
    /\ UNCHANGED <<env, file, config, isValid, proc, loader, served, manager, tls, session,
                   read, reloads>>

----------------------------------------------------------------------------
\* loadFromFile.

loadFrame == <<env, operator, served, manager, tls, session, reloads>>

Goto(pc) == loader' = [loader EXCEPT !.pc = pc]

\* The load, or what follows it, fails: start-up ends, a reload returns false.
Fail ==
    /\ Goto("idle")
    /\ proc' = IF proc = "starting" THEN "failed" ELSE proc

\* Mutant of OpenFile: the settings are reset before the file is read.
OpenAfresh ==
    LET contents == IF file.kind = "good" THEN file.doc ELSE EmptyDocument IN
    /\ loader.pc = "open"
    /\ isValid' = FALSE
    /\ IF file.kind = "good" \/ (file.kind = "garbled" /\ format = "ini")
       THEN /\ loader' = [pc |-> "parse", doc |-> contents, at |-> 0]
            /\ read' = Append(read, contents)
            /\ config' = Defaults
            /\ UNCHANGED proc
       ELSE Fail /\ UNCHANGED <<config, read>>
    /\ UNCHANGED loadFrame

\* A file that is not there or cannot be opened ends it; so does one that the JSON or the
\* YAML library refuses.  An INI file full of nonsense has no settings.
OpenFile ==
    LET contents == IF file.kind = "good" THEN file.doc ELSE EmptyDocument IN
    /\ loader.pc = "open"
    /\ isValid' = FALSE
    /\ IF file.kind = "good" \/ (file.kind = "garbled" /\ format = "ini")
       THEN /\ loader' = [pc |-> "parse", doc |-> contents, at |-> 0]
            /\ read' = Append(read, contents)
            /\ UNCHANGED proc
       ELSE Fail /\ UNCHANGED read
    /\ UNCHANGED <<loadFrame, config>>

\* The places still to come, and the next one.
Ahead == {i \in (loader.at + 1)..Len(Order) : Mentions(format, loader.doc, Order[i])}
NextPlace == CHOOSE i \in Ahead : \A j \in Ahead : i <= j

Parse ==
    /\ loader.pc = "parse"
    /\ Ahead # {}
    /\ loader' = [loader EXCEPT !.at = NextPlace]
    /\ config' = IF Assigns(format, loader.doc, Order[NextPlace])
                 THEN Apply(config, Order[NextPlace],
                            Assigned(loader.doc, Order[NextPlace]))
                 ELSE config
    /\ format = "ini" \/ Assigns(format, loader.doc, Order[NextPlace])
    /\ UNCHANGED <<loadFrame, isValid, proc, read>>

\* A number or a flag that cannot be read: yaml-cpp's exception is caught, jsoncpp's is
\* caught nowhere.  The settings read so far stay, and so does the module that the
\* section of the place has just created.
ParseThrows ==
    /\ loader.pc = "parse"
    /\ Ahead # {}
    /\ format # "ini" /\ Order[NextPlace] \in loader.doc.bad
    /\ IF format = "yaml" THEN Fail ELSE proc' = "terminated" /\ Goto("idle")
    /\ config' = Enter(config, Order[NextPlace][1])
    /\ UNCHANGED <<loadFrame, isValid, read>>

ParseDone ==
    /\ loader.pc = "parse"
    /\ Ahead = {}
    /\ Goto("validate")
    /\ UNCHANGED <<loadFrame, config, isValid, proc, read>>

AfterLoad == IF proc = "starting" THEN "main" ELSE "check"

\* Mutant of Validate: the result of the load is not looked at.
ValidateAnyway ==
    /\ loader.pc = "validate"
    /\ isValid' = Validates(config, disk)
    /\ Goto(AfterLoad)
    /\ UNCHANGED <<loadFrame, config, proc, read>>

\* validate at the end of the load; it clears errors_, so that whatever the parsers
\* complained of is forgotten.
Validate ==
    /\ loader.pc = "validate"
    /\ isValid' = Validates(config, disk)
    /\ IF Validates(config, disk) THEN Goto(AfterLoad) /\ UNCHANGED proc ELSE Fail
    /\ UNCHANGED <<loadFrame, config, read>>

----------------------------------------------------------------------------
\* handleStart, RSyncDaemon's constructor, start() and reloadConfig.

daemonFrame == <<env, operator, config, isValid, session, read, reloads>>

\* handleStart validates once more, and drops privileges, which may fail.
MainValidates ==
    /\ loader.pc = "main"
    /\ \/ Validates(config, disk) /\ Goto("construct") /\ UNCHANGED proc
       \/ Fail
    /\ UNCHANGED <<daemonFrame, served, manager, tls>>

\* The constructor gives the authentication manager a copy of the settings of now.
Construct ==
    /\ loader.pc = "construct"
    /\ manager' = IF config.auth
                  THEN [on |-> TRUE, method |-> config.method, denied |-> config.denied_users]
                  ELSE NoManager
    /\ Goto("check")
    /\ UNCHANGED <<daemonFrame, proc, served, tls>>

\* validateConfiguration of start() and reloadConfig.
Check ==
    /\ loader.pc = "check"
    /\ IF Validates(config, disk) THEN Goto("modules") /\ UNCHANGED proc ELSE Fail
    /\ UNCHANGED <<daemonFrame, served, manager, tls>>

\* FileSystemModule::validate.
Loadable(m) ==
    /\ config.modules[m].present
    /\ config.modules[m].path # "" /\ disk[config.modules[m].path] = "dir"

\* loadModules, under modules_mutex_: the old modules go first, whether or not there are
\* new ones.
LoadModules ==
    /\ loader.pc = "modules"
    /\ served' = [m \in Names |-> IF Loadable(m) THEN config.modules[m] ELSE NoModule]
    /\ IF \E m \in Names : Loadable(m)
       THEN Goto(IF proc = "starting" THEN "sockets" ELSE "idle") /\ UNCHANGED proc
       ELSE Fail
    /\ UNCHANGED <<daemonFrame, manager, tls>>

\* The certificate is needed once more, and is not read again later.
InitializesSSL == config.ssl => Exists(disk, config.cert)

\* initializeSSL and initializeNetwork, either of which may fail, chroot and privileges;
\* then the threads start.
StartThreads ==
    /\ loader.pc = "sockets"
    /\ \/ /\ InitializesSSL
          /\ tls' = config.ssl
          /\ proc' = "running"
          /\ Goto("idle")
       \/ Fail /\ UNCHANGED tls
    /\ UNCHANGED <<daemonFrame, served, manager>>

ReloadConfig ==
    /\ proc = "running" /\ loader.pc = "idle"
    /\ reloads < MaxReloads
    /\ reloads' = reloads + 1
    /\ Goto("open")
    /\ UNCHANGED <<env, operator, config, isValid, proc, served, manager, tls, session, read>>

----------------------------------------------------------------------------
\* Sessions.

sessionFrame == <<env, operator, config, isValid, proc, loader, served, manager, tls, read,
                  reloads>>

\* acceptLoop: checkAccess, and TLS if the settings of now ask for it and start() has set
\* it up.  (A client that ends the TLS of its session itself goes on without it, session.cpp:83:
\* that is in Session, and is no matter of the settings.)
Accept(client) ==
    /\ proc = "running" /\ ~session.open
    /\ access.enabled => IsAllowed(client, access)
    /\ session' = [open |-> TRUE, tls |-> config.ssl /\ tls, user |-> ""]
    /\ UNCHANGED sessionFrame

EndSession ==
    /\ proc = "running" /\ session.open
    /\ session' = NoSession
    /\ UNCHANGED sessionFrame

IsDenied(user) == \E i \in DOMAIN manager.denied : manager.denied[i] = user

\* Mutant of Authenticates: authenticateWithKey does not look at denied_users.
AuthenticatesAnyKey(user) ==
    /\ manager.on
    /\ manager.method = config.method
    /\ config.method = "public_key" \/ ~IsDenied(user)

\* authenticate and authenticateWithKey: the session asks for the method of the settings
\* of now, the manager answers only for its own.
Authenticates(user) ==
    /\ manager.on
    /\ manager.method = config.method
    /\ config.method \in {"password", "public_key"}
    /\ ~IsDenied(user)

\* handleAuthMessage, for a client that proves to be user.
AuthMessage(user) ==
    /\ proc = "running" /\ session.open
    /\ session' = [session EXCEPT !.user =
                     IF ~config.auth THEN "anonymous"
                     ELSE IF Authenticates(user) THEN user ELSE @]
    /\ UNCHANGED sessionFrame

Next ==
    \/ \E d \in Documents[format] : WriteFile(File("good", d))
    \/ \E k \in {"missing", "garbled"} : WriteFile(File(k, EmptyDocument))
    \/ \E p \in Paths, k \in {"none", "file", "dir"} : Disturb(p, k)
    \/ OpenFile \/ Parse \/ ParseThrows \/ ParseDone \/ Validate
    \/ MainValidates \/ Construct \/ Check \/ LoadModules \/ StartThreads
    \/ ReloadConfig
    \/ \E a \in Addresses : Accept(a)
    \/ EndSession
    \/ \E u \in Users : AuthMessage(u)
    \/ (Over \/ proc = "running") /\ UNCHANGED vars

Spec == Init /\ [][Next]_vars

----------------------------------------------------------------------------
Everything == {read[i] : i \in DOMAIN read}

MentionedPlaces(d) == {p \in Places : Mentions(format, d, p)}
AssignedPlaces(d) == {p \in Places : Assigns(format, d, p)}

\* The file decides a setting: it assigns one of the setting's places, or no document read
\* so far mentions any.  (No load begins with the defaults, config.cpp:100: what earlier
\* documents said of other settings stays.)
Decides(places) ==
    \/ places \cap AssignedPlaces(loader.doc) # {}
    \/ \A d \in Everything : places \cap MentionedPlaces(d) = {}

\* Every setting that the file decides is what the file alone means.
SettingsOfFile ==
    /\ \A key \in {GlobalOrder[i] : i \in DOMAIN GlobalOrder} \ {"denied_users"} :
          LET meaning == GlobalMeaning(format, loader.doc, key) IN
          Decides({<<"global", key>>, <<"own", key>>}) =>
              config[key] = IF key = "bind_port" THEN meaning % PortModulus ELSE meaning
    /\ \A m \in Names :
          LET meaning == ModuleMeaning(format, loader.doc, m) IN
          \A field \in DOMAIN meaning :
              Decides(PlacesOf(m, field)) => config.modules[m][field] = meaning[field]

\* The lists, which no load clears: they end with what the file adds, and what comes before
\* it was added by documents read earlier.
ListsOfFile ==
    \A place \in ListPlaces :
        LET list == ListAt(config, place) IN
        /\ EndsWith(list, Added(format, loader.doc, place))
        /\ \A i \in DOMAIN list : \E d \in Everything :
              \E j \in DOMAIN Added(format, d, place) : list[i] = Added(format, d, place)[j]

\* A load that goes through repairs what it mentions: every setting that the file decides is
\* what it would be after a restart with that file, whatever other documents were loaded
\* before, completely, in part or not at all.  The lists are the exception: reloading appends
\* to them (config.cpp:323, 447, 539), to entries that some document gave them.
ReloadIsRestart == isValid => SettingsOfFile /\ ListsOfFile

\* Modules are replaced only from a configuration that was loaded to its end and found
\* valid, never from the half that a failed load leaves in the shared object.
OnlyValidReplaces == [][served' # served => isValid]_vars

TurnsOn(d, key) == GlobalMeaning(format, d, key) = TRUE

\* Settings are assigned under the feet of running sessions, yet there is no moment at
\* which one is looser than every document: where all documents read so far turn
\* authentication on, nobody becomes anonymous, and where all turn TLS on, nobody is
\* accepted without it.
NoLaxWindow ==
    /\ session.user = "anonymous" => \E d \in Everything : ~TurnsOn(d, "auth")
    /\ session.open /\ ~session.tls => \E d \in Everything : ~TurnsOn(d, "ssl")

DeniedBy(d) ==
    LET place == <<"own", "denied_users">> IN
    IF Assigns(format, d, place) THEN {d.says[place][i] : i \in DOMAIN d.says[place]} ELSE {}

\* A user denied by the document that the daemon was started with stays out for as long
\* as it runs: reloads change the settings that sessions look at, the method among them,
\* and the manager's copy goes on to be asked.
DeniedStaysOut == session.user \in Users => session.user \notin DeniedBy(read[1])

RulesMatchBits ==
    \A rule \in Rule, a \in Addresses \cup {NotIpv4} :
        IpMatchesRule(a, rule) <=> a \in Covered(rule)

\* Masks and prefixes give the clients that the lists name bit by bit: a deny list beats an
\* allow list, malformed rules name nobody, and an allow list of malformed rules is not an
\* empty one.
AccessMatchesBits ==
    /\ RulesMatchBits
    /\ {a \in Addresses : IsAllowed(a, access)} = Admissible(access)
=============================================================================
