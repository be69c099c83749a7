--------------------------- MODULE Configuration ---------------------------
(***************************************************************************)
(* Configuration (config/config.cpp): what a configuration file in each of *)
(* the three formats does to the settings of the one Configuration object  *)
(* that the whole process shares.                                          *)
(*                                                                         *)
(* A document says something at places, a place being a section and a key; *)
(* sections are "global", "own" (the setting's own section: network, ssl,  *)
(* auth, config) and one per module.  Of the settings, those are kept that *)
(* validation, the daemon or a session looks at; of the many others, which *)
(* every parser treats alike, the module's read_only stands for all.       *)
(* A file has each place once, a module's section says something that its  *)
(* format reads, and certificate and private key are one.                  *)
(***************************************************************************)
EXTENDS Integers, Sequences, FiniteSets

CONSTANTS
    ModuleNames,    \* the modules, in the order in which they are read
    Paths,          \* files and directories that settings name
    Words,          \* the strings that documents say
    PortModulus     \* 65536: bind_port is a uint16_t

ASSUME ConfigurationConstants ==
    /\ ModuleNames \in Seq(STRING \ {"global", "own"})
    /\ \A i, j \in DOMAIN ModuleNames : ModuleNames[i] = ModuleNames[j] => i = j
    /\ {"", "password"} \subseteq Words
    /\ PortModulus \in Nat \ {0, 1}
    /\ "" \notin Paths

Names == {ModuleNames[i] : i \in DOMAIN ModuleNames}
Formats == {"ini", "json", "yaml"}

Numbers == {"bind_port", "max_connections"}
Flags == {"ssl", "auth", "auto_reload", "read_only", "allow_delete", "delete"}
Lists == {"denied_users", "exclude"}
Files == {"cert", "password_file", "path"}

\* What can be said at a key.
Values(key) ==
    CASE key \in Numbers -> Int
      [] key \in Flags -> BOOLEAN
      [] key \in Lists -> Seq(Words)
      [] key \in Files -> Paths \cup {""}
      [] OTHER -> Words

\* The order of loadFromJSON and loadFromYAML.  An INI file is read from top to bottom;
\* as it has each place once and no line stops its reading, the order makes no difference to the
\* result.
GlobalOrder == <<"bind_port", "max_connections", "ssl", "cert", "auth", "method",
                 "password_file", "denied_users", "auto_reload">>
ModuleOrder == <<"path", "read_only", "delete", "allow_delete", "exclude">>

Order ==
    LET g == Len(GlobalOrder)
        k == Len(ModuleOrder)
    IN  [i \in 1..(2 * g + k * Len(ModuleNames)) |->
            IF i <= g THEN <<"global", GlobalOrder[i]>>
            ELSE IF i <= 2 * g THEN <<"own", GlobalOrder[i - g]>>
            ELSE <<ModuleNames[((i - 2 * g - 1) \div k) + 1],
                   ModuleOrder[((i - 2 * g - 1) % k) + 1]>>]

Places == {Order[i] : i \in DOMAIN Order}

\* parseGlobalConfig and parseModuleConfig: one section, no lists of users, no
\* auto_reload; "allow_delete" is an unknown key.
IniReads(section, key) ==
    \/ section = "global" /\ key \notin {"denied_users", "auto_reload"}
    \/ section \in Names /\ key # "allow_delete"

\* parseJSONGlobal, loadFromJSON, parseJSONModule.
JsonReads(section, key) ==
    \/ section = "global" /\ key \in Numbers
    \/ section = "own" /\ key # "auto_reload"
    \/ section \in Names /\ key # "delete"

\* parseYAMLGlobal, loadFromYAML, parseYAMLModule.
YamlReads(section, key) ==
    \/ section = "global" /\ key \in Numbers
    \/ section \in {"own"} \cup Names

Reads(format, place) ==
    CASE format = "ini" -> IniReads(place[1], place[2])
      [] format = "json" -> JsonReads(place[1], place[2])
      [] format = "yaml" -> YamlReads(place[1], place[2])

\* A document: what it says, and the places whose number or flag cannot be read.
EmptyDocument == [says |-> [p \in {} |-> ""], bad |-> {}]
IsDocument(d) ==
    /\ DOMAIN d.says \subseteq Places
    /\ \A p \in DOMAIN d.says : d.says[p] \in Values(p[2])
    /\ d.bad \subseteq {p \in Places : p[2] \in Numbers \cup Flags}
    /\ d.bad \cap DOMAIN d.says = {}

\* The parser stops to look at a place that the document mentions and the format reads.
\* In YAML "delete" is looked at only where there is no "allow_delete".
Mentions(format, d, place) ==
    LET said == DOMAIN d.says \cup d.bad IN
    /\ place \in said
    /\ Reads(format, place)
    /\ place[2] = "delete" /\ format = "yaml" => <<place[1], "allow_delete">> \notin said

\* ... and assigns something there.  In an INI file anything but true, 1 and yes is false;
\* a number that cannot be read is passed over.
Assigns(format, d, place) ==
    /\ Mentions(format, d, place)
    /\ place \in d.bad => format = "ini" /\ place[2] \in Flags

Assigned(d, place) == IF place \in d.bad THEN FALSE ELSE d.says[place]

----------------------------------------------------------------------------
\* setDefaults and ModuleConfig's own.
NoModule == [present |-> FALSE, path |-> "", read_only |-> FALSE,
             allow_delete |-> FALSE, exclude |-> <<>>]

Defaults ==
    [bind_port |-> 1, max_connections |-> 1, ssl |-> FALSE, cert |-> "", auth |-> FALSE,
     method |-> "password", password_file |-> "", denied_users |-> <<>>,
     auto_reload |-> FALSE, modules |-> [m \in Names |-> NoModule]]

\* Where a place's value goes.
Setting(key) == IF key = "delete" THEN "allow_delete" ELSE key

\* Mutant of Converted: the port is assigned as it is.
ConvertedWide(key, old, value) == IF key \in Lists THEN old \o value ELSE value

\* static_cast<uint16_t>; push_back for lists; assignment for the others.
Converted(key, old, value) ==
    IF key = "bind_port" THEN value % PortModulus
    ELSE IF key \in Lists THEN old \o value
    ELSE value

\* A module's section creates the module if it is not there.
Enter(config, section) ==
    IF section \in Names THEN [config EXCEPT !.modules[section].present = TRUE] ELSE config

\* Mutant of Apply: the path of a module that is there already is not assigned again.
ApplyToNew(config, place, value) ==
    LET key == Setting(place[2])
        entered == Enter(config, place[1])
    IN  IF place[1] \notin Names
        THEN [entered EXCEPT ![key] = Converted(key, @, value)]
        ELSE IF key = "path" /\ config.modules[place[1]].present THEN config
        ELSE [entered EXCEPT !.modules[place[1]][key] = Converted(key, @, value)]

\* One assignment.
Apply(config, place, value) ==
    LET key == Setting(place[2])
        entered == Enter(config, place[1])
    IN  IF place[1] \in Names
        THEN [entered EXCEPT !.modules[place[1]][key] = Converted(key, @, value)]
        ELSE [entered EXCEPT ![key] = Converted(key, @, value)]

----------------------------------------------------------------------------
\* validate(), with disk telling what each path is at the moment.

Exists(disk, path) == path # "" /\ disk[path] # "none"

ValidateNetwork(config) == config.bind_port # 0 /\ config.max_connections # 0

ValidateSSL(config, disk) == config.ssl => Exists(disk, config.cert)

ValidateAuth(config, disk) ==
    config.auth /\ config.method = "password" => Exists(disk, config.password_file)

\* A path that is not there is let through: it might be created later.
ValidateModules(config, disk) ==
    \A m \in Names :
        LET module == config.modules[m] IN
        module.present => module.path # "" /\ disk[module.path] # "file"

Validates(config, disk) ==
    /\ ValidateNetwork(config)
    /\ ValidateSSL(config, disk)
    /\ ValidateAuth(config, disk)
    /\ ValidateModules(config, disk)

----------------------------------------------------------------------------
\* What a document means, from the defaults and in one go: the reference for what the
\* parsers do one assignment after the other.

Value(format, d, candidates, default) ==
    LET given == {i \in DOMAIN candidates : Assigns(format, d, candidates[i])} IN
    IF given = {} THEN default
    ELSE Assigned(d, candidates[CHOOSE i \in given : \A j \in given : j <= i])

GlobalMeaning(format, d, key) ==
    Value(format, d, <<<<"global", key>>, <<"own", key>>>>, Defaults[key])

ModuleMeaning(format, d, m) ==
    [present |-> \E key \in {ModuleOrder[i] : i \in DOMAIN ModuleOrder} :
                    Assigns(format, d, <<m, key>>),
     path |-> Value(format, d, <<<<m, "path">>>>, ""),
     read_only |-> Value(format, d, <<<<m, "read_only">>>>, FALSE),
     allow_delete |->
        Value(format, d, <<<<m, "delete">>, <<m, "allow_delete">>>>, FALSE)]

\* The places of a module's setting; whether the module is there depends on all of them.
PlacesOf(m, field) ==
    {<<m, ModuleOrder[i]>> :
        i \in {j \in DOMAIN ModuleOrder : field \in {"present", Setting(ModuleOrder[j])}}}

\* What a document adds to a list, and whether a list ends with what was added.
ListPlaces == {<<"own", "denied_users">>} \cup {<<m, "exclude">> : m \in Names}
ListAt(config, place) ==
    IF place[1] \in Names THEN config.modules[place[1]].exclude ELSE config.denied_users
Added(format, d, place) == IF Assigns(format, d, place) THEN Assigned(d, place) ELSE <<>>
EndsWith(list, added) ==
    /\ Len(added) <= Len(list)
    /\ \A i \in 1..Len(added) : list[(Len(list) - Len(added)) + i] = added[i]
=============================================================================
