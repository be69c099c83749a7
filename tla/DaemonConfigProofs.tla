------------------------- MODULE DaemonConfigProofs -------------------------
(***************************************************************************)
(* The configuration under a running daemon, for any documents, modules    *)
(* and paths, any number of edits and reloads.                             *)
(*                                                                         *)
(* What a finished load leaves is not inductive.  The invariant follows    *)
(* the load through the places of its document: behind the place it is at, *)
(* every setting has the value of the last place that assigned it          *)
(* (Through), and what no document ever mentioned is still the default     *)
(* (Untouched).  While a setting is being assigned, sessions look at it:   *)
(* Strict says from which moment on a switch is on for good, if no         *)
(* document turns it off, and Denied the same of the list of denied users  *)
(* and of the copies that the daemon made of it.                           *)
(*                                                                         *)
(* The access lists do not change; that masks mean their bits is an        *)
(* induction over the bits of an address.                                  *)
(***************************************************************************)
EXTENDS DaemonConfig, SequenceTheorems, FiniteSetTheorems, WellFoundedInduction, TLAPS

GlobalKeys == {"bind_port", "max_connections", "ssl", "cert", "auth", "method",
               "password_file", "denied_users", "auto_reload"}
ModuleKeys == {"path", "read_only", "delete", "allow_delete", "exclude"}
Fields == {"path", "read_only", "allow_delete", "exclude"}

----------------------------------------------------------------------------
\* The places and their order.

LEMMA OrderLengths ==
    /\ Len(GlobalOrder) = 9 /\ Len(ModuleOrder) = 5
    /\ \A i \in 1..9 : GlobalOrder[i] \in GlobalKeys
    /\ \A key \in GlobalKeys : \E i \in 1..9 : GlobalOrder[i] = key
    /\ \A i \in 1..5 : ModuleOrder[i] \in ModuleKeys
    /\ ModuleOrder[3] = "delete" /\ ModuleOrder[4] = "allow_delete"
    /\ \A i \in 1..5 : ModuleOrder[i] = "delete" => i = 3
    /\ \A i \in 1..5 : ModuleOrder[i] = "allow_delete" => i = 4
    /\ DOMAIN GlobalOrder = 1..9 /\ DOMAIN ModuleOrder = 1..5
    /\ \A key \in ModuleKeys : \E i \in 1..5 : ModuleOrder[i] = key
  BY DEF GlobalOrder, ModuleOrder, GlobalKeys, ModuleKeys

LEMMA NameFacts ==
    /\ Len(ModuleNames) \in Nat /\ DOMAIN ModuleNames = 1..Len(ModuleNames)
    /\ "global" \notin Names /\ "own" \notin Names
    /\ \A i, j \in 1..Len(ModuleNames) : ModuleNames[i] = ModuleNames[j] => i = j
    /\ \A i \in 1..Len(ModuleNames) : ModuleNames[i] \in Names
    /\ PortModulus \in Nat /\ PortModulus > 1
    /\ "" \notin Paths
  <1> DEFINE n == Len(ModuleNames)
  <1>1. ModuleNames \in Seq(STRING \ {"global", "own"})
    BY ConfigurationConstants DEF ConfigurationConstants
  <1>2. /\ n \in Nat /\ DOMAIN ModuleNames = 1..n
        /\ \A i \in 1..n : ModuleNames[i] \in STRING \ {"global", "own"}
    BY <1>1
  <1>3. \A i, j \in 1..n : ModuleNames[i] = ModuleNames[j] => i = j
    BY <1>2, ConfigurationConstants DEF ConfigurationConstants
  <1>4. PortModulus \in Nat \ {0, 1}
    BY ConfigurationConstants DEF ConfigurationConstants
  <1>5. PortModulus \in Nat /\ PortModulus > 1
    BY <1>4
  <1>6. "" \notin Paths
    BY ConfigurationConstants DEF ConfigurationConstants
  <1> QED
    BY <1>2, <1>3, <1>5, <1>6 DEF Names

LEMMA OrderAt ==
    ASSUME NEW i \in DOMAIN Order
    PROVE  \/ i \in 1..9 /\ Order[i] = <<"global", GlobalOrder[i]>>
           \/ i \in 10..18 /\ Order[i] = <<"own", GlobalOrder[i - 9]>>
           \/ \E j \in 1..Len(ModuleNames), k \in 1..5 :
                 /\ i = 18 + 5 * (j - 1) + k
                 /\ Order[i] = <<ModuleNames[j], ModuleOrder[k]>>
  <1> DEFINE n == Len(ModuleNames)
  <1>1. Order = [x \in 1..(2 * 9 + 5 * n) |->
            IF x <= 9 THEN <<"global", GlobalOrder[x]>>
            ELSE IF x <= 2 * 9 THEN <<"own", GlobalOrder[x - 9]>>
            ELSE <<ModuleNames[((x - 2 * 9 - 1) \div 5) + 1],
                   ModuleOrder[((x - 2 * 9 - 1) % 5) + 1]>>]
    BY OrderLengths DEF Order
  <1>2. n \in Nat
    BY NameFacts
  <1> HIDE DEF n
  <1>3. i \in 1..(18 + 5 * n)
    BY <1>1
  <1>4. CASE i <= 9
    BY <1>1, <1>3, <1>4
  <1>5. CASE i > 9 /\ i <= 18
    BY <1>1, <1>3, <1>5
  <1>6. CASE i > 18
    <2> DEFINE j == ((i - 2 * 9 - 1) \div 5) + 1
               k == ((i - 2 * 9 - 1) % 5) + 1
    <2>1. j \in 1..n /\ k \in 1..5 /\ i = 18 + 5 * (j - 1) + k
      BY <1>2, <1>3, <1>6
    <2>2. Order[i] = <<ModuleNames[j], ModuleOrder[k]>>
      BY <1>1, <1>3, <1>6
    <2> HIDE DEF j, k
    <2> QED
      BY <2>1, <2>2 DEF n
  <1> QED
    BY <1>2, <1>3, <1>4, <1>5, <1>6

LEMMA Pair ==
    ASSUME NEW a, NEW b, NEW p, p = <<a, b>>
    PROVE  p[1] = a /\ p[2] = b /\ p = <<p[1], p[2]>>
  OBVIOUS

LEMMA PlaceKinds ==
    ASSUME NEW p \in Places
    PROVE  /\ p = <<p[1], p[2]>>
           /\ \/ p[1] \in {"global", "own"} /\ p[1] \notin Names /\ p[2] \in GlobalKeys
              \/ p[1] \in Names /\ p[2] \in ModuleKeys
  <1>1. PICK i \in DOMAIN Order : p = Order[i]
    BY DEF Places
  <1>2. CASE i \in 1..9 /\ Order[i] = <<"global", GlobalOrder[i]>>
    <2>1. p[1] = "global" /\ p[2] = GlobalOrder[i] /\ p = <<p[1], p[2]>>
      BY <1>1, <1>2, Pair
    <2>2. GlobalOrder[i] \in GlobalKeys
      BY <1>2, OrderLengths
    <2> QED
      BY <2>1, <2>2, NameFacts, Zenon
  <1>3. CASE i \in 10..18 /\ Order[i] = <<"own", GlobalOrder[i - 9]>>
    <2>1. i - 9 \in 1..9
      BY <1>3
    <2>2. GlobalOrder[i - 9] \in GlobalKeys
      BY <2>1, OrderLengths
    <2>3. p[1] = "own" /\ p[2] = GlobalOrder[i - 9] /\ p = <<p[1], p[2]>>
      BY <1>1, <1>3, Pair
    <2> QED
      BY <2>2, <2>3, NameFacts, Zenon
  <1>4. ASSUME NEW j \in 1..Len(ModuleNames), NEW k \in 1..5,
               Order[i] = <<ModuleNames[j], ModuleOrder[k]>>
        PROVE  p = <<p[1], p[2]>> /\ p[1] \in Names /\ p[2] \in ModuleKeys
    <2>1. p[1] = ModuleNames[j] /\ p[2] = ModuleOrder[k] /\ p = <<p[1], p[2]>>
      BY <1>1, <1>4, Pair
    <2>2. ModuleNames[j] \in Names
      BY NameFacts
    <2>3. ModuleOrder[k] \in ModuleKeys
      BY OrderLengths
    <2> QED
      BY <2>1, <2>2, <2>3
  <1> QED
    BY <1>2, <1>3, <1>4, OrderAt

----------------------------------------------------------------------------
\* What one assignment does.

\* The setting that a place is about, and whether two places are about the same.
Get(c, p) == IF p[1] \in Names THEN c.modules[p[1]][Setting(p[2])] ELSE c[Setting(p[2])]
Same(p, q) ==
    /\ Setting(p[2]) = Setting(q[2])
    /\ p[1] = q[1] \/ (p[1] \notin Names /\ q[1] \notin Names)

\* The shape of the settings.
Shaped(c) ==
    /\ c = [x \in GlobalKeys \cup {"modules"} |-> c[x]]
    /\ c["modules"] = [m \in Names |-> c["modules"][m]]
    /\ \A m \in Names : c["modules"][m] =
            [x \in Fields \cup {"present"} |-> c["modules"][m][x]]

ModuleFields == Fields \cup {"present"}

\* One field of one module is assigned.
WithField(c, s, k, v) ==
    [c EXCEPT !["modules"] = [c["modules"] EXCEPT ![s] = [c["modules"][s] EXCEPT ![k] = v]]]

LEMMA SetModule ==
    ASSUME NEW c, Shaped(c), NEW s \in Names, NEW k \in ModuleFields, NEW v
    PROVE  /\ Shaped(WithField(c, s, k, v))
           /\ \A x \in GlobalKeys : WithField(c, s, k, v)[x] = c[x]
           /\ WithField(c, s, k, v)["modules"][s][k] = v
           /\ \A m \in Names, x \in ModuleFields : m # s \/ x # k =>
                 WithField(c, s, k, v)["modules"][m][x] = c["modules"][m][x]
  <1> DEFINE a == WithField(c, s, k, v)
             u == [c["modules"][s] EXCEPT ![k] = v]
             ms == [c["modules"] EXCEPT ![s] = u]
  <1>1. a = [c EXCEPT !["modules"] = ms]
    BY DEF WithField
  <1> HIDE DEF a
  <1>2. /\ u = [x \in ModuleFields |-> u[x]]
        /\ \A x \in ModuleFields : u[x] = IF x = k THEN v ELSE c["modules"][s][x]
    BY DEF Shaped, ModuleFields
  <1> HIDE DEF u
  <1>3. /\ ms = [m \in Names |-> ms[m]]
        /\ ms[s] = u /\ \A m \in Names : m # s => ms[m] = c["modules"][m]
    BY DEF Shaped
  <1> HIDE DEF ms
  <1>4. /\ a = [x \in GlobalKeys \cup {"modules"} |-> a[x]]
        /\ a["modules"] = ms /\ \A x \in GlobalKeys : a[x] = c[x]
    BY <1>1 DEF Shaped, GlobalKeys
  <1>5. Shaped(a)
    <2>1. a["modules"] = [m \in Names |-> a["modules"][m]]
      BY <1>3, <1>4, Zenon
    <2>2. ASSUME NEW m \in Names
          PROVE  ms[m] = [x \in ModuleFields |-> ms[m][x]]
      <3>1. CASE m = s
        BY <1>2, <1>3, <3>1, Zenon
      <3>2. CASE m # s
        <4>1. ms[m] = c["modules"][m]
          BY <1>3, <3>2
        <4> QED
          BY <4>1, Zenon DEF Shaped, ModuleFields
      <3> QED
        BY <3>1, <3>2
    <2>3. ASSUME NEW m \in Names
          PROVE  a["modules"][m] = [x \in ModuleFields |-> a["modules"][m][x]]
      <3>1. a["modules"][m] = ms[m]
        BY <1>4
      <3> QED
        BY <2>2, <3>1, Zenon
    <2> QED
      BY <1>4, <2>1, <2>3, Zenon DEF Shaped, ModuleFields
  <1>6. a["modules"][s][k] = v
    BY <1>2, <1>3, <1>4, Zenon
  <1>7. ASSUME NEW m \in Names, NEW x \in ModuleFields, m # s \/ x # k
        PROVE  a["modules"][m][x] = c["modules"][m][x]
    <2>1. CASE m = s
      BY <1>2, <1>3, <1>4, <1>7, <2>1, Zenon
    <2>2. CASE m # s
      BY <1>3, <1>4, <2>2, Zenon
    <2> QED
      BY <2>1, <2>2
  <1> QED
    BY <1>4, <1>5, <1>6, <1>7 DEF a

\* One global setting is assigned.
WithGlobal(c, k, v) == [c EXCEPT ![k] = v]

LEMMA SetGlobal ==
    ASSUME NEW c, Shaped(c), NEW k \in GlobalKeys, NEW v
    PROVE  /\ Shaped(WithGlobal(c, k, v))
           /\ \A x \in GlobalKeys : WithGlobal(c, k, v)[x] = IF x = k THEN v ELSE c[x]
           /\ WithGlobal(c, k, v)["modules"] = c["modules"]
  <1> DEFINE a == WithGlobal(c, k, v)
  <1>1. k # "modules"
    BY DEF GlobalKeys
  <1>2. /\ a = [x \in GlobalKeys \cup {"modules"} |-> a[x]]
        /\ \A x \in GlobalKeys : a[x] = IF x = k THEN v ELSE c[x]
        /\ a["modules"] = c["modules"]
    BY <1>1 DEF Shaped, WithGlobal
  <1> HIDE DEF a
  <1>3. a["modules"] = [m \in Names |-> a["modules"][m]]
    <2>1. c["modules"] = [m \in Names |-> c["modules"][m]]
      BY DEF Shaped
    <2> QED
      BY <1>2, <2>1, Zenon
  <1>4. ASSUME NEW m \in Names
        PROVE  a["modules"][m] = [x \in ModuleFields |-> a["modules"][m][x]]
    <2>1. c["modules"][m] = [x \in ModuleFields |-> c["modules"][m][x]]
      BY Zenon DEF Shaped, ModuleFields
    <2>2. a["modules"][m] = c["modules"][m]
      BY <1>2
    <2> QED
      BY <2>1, <2>2, Zenon
  <1>5. Shaped(a)
    BY <1>2, <1>3, <1>4, Zenon DEF Shaped, ModuleFields
  <1> QED
    BY <1>2, <1>5 DEF a

LEMMA EnterKeeps ==
    ASSUME NEW c, Shaped(c), NEW s
    PROVE  /\ Shaped(Enter(c, s))
           /\ \A x \in GlobalKeys : Enter(c, s)[x] = c[x]
           /\ \A m \in Names, x \in Fields :
                 Enter(c, s)["modules"][m][x] = c["modules"][m][x]
           /\ \A m \in Names : m # s =>
                 Enter(c, s)["modules"][m]["present"] = c["modules"][m]["present"]
  <1>1. CASE s \notin Names
    BY <1>1 DEF Enter
  <1>2. CASE s \in Names
    <2> DEFINE e == Enter(c, s)
    <2>1. PICK yes : yes = TRUE
      BY Zenon
    <2>2. e = WithField(c, s, "present", yes)
      BY <1>2, <2>1, Zenon DEF Enter, WithField
    <2>3. "present" \in ModuleFields /\ \A x \in Fields : x \in ModuleFields /\ x # "present"
      BY DEF ModuleFields, Fields
    <2> HIDE DEF e
    <2>4. /\ Shaped(e)
          /\ \A x \in GlobalKeys : e[x] = c[x]
          /\ \A m \in Names, x \in ModuleFields :
                m # s \/ x # "present" => e["modules"][m][x] = c["modules"][m][x]
      BY <1>2, <2>2, <2>3, SetModule
    <2>5. \A m \in Names, x \in Fields : e["modules"][m][x] = c["modules"][m][x]
      BY <2>3, <2>4
    <2>6. \A m \in Names : m # s =>
              e["modules"][m]["present"] = c["modules"][m]["present"]
      BY <2>3, <2>4
    <2> QED
      BY <2>4, <2>5, <2>6 DEF e
  <1> QED
    BY <1>1, <1>2

LEMMA EnterPresent ==
    ASSUME NEW c, Shaped(c), NEW s \in Names
    PROVE  Enter(c, s)["modules"][s]["present"] = TRUE
  <1>1. PICK yes : yes = TRUE
    BY Zenon
  <1>2. Enter(c, s) = WithField(c, s, "present", yes)
    BY <1>1, Zenon DEF Enter, WithField
  <1>3. "present" \in ModuleFields
    BY DEF ModuleFields
  <1>4. WithField(c, s, "present", yes)["modules"][s]["present"] = yes
    BY <1>3, SetModule
  <1> QED
    BY <1>1, <1>2, <1>4, Zenon

\* What a place is called in the settings.
LEMMA SettingKinds ==
    ASSUME NEW p \in Places
    PROVE  IF p[1] \in Names THEN Setting(p[2]) \in Fields
           ELSE Setting(p[2]) \in GlobalKeys /\ Setting(p[2]) = p[2]
  <1>1. CASE p[1] \in Names
    <2>1. p[2] \in ModuleKeys
      BY <1>1, PlaceKinds
    <2> QED
      BY <1>1, <2>1 DEF Setting, ModuleKeys, Fields
  <1>2. CASE p[1] \notin Names
    <2>1. p[2] \in GlobalKeys
      BY <1>2, PlaceKinds
    <2> QED
      BY <1>2, <2>1 DEF Setting, GlobalKeys
  <1> QED
    BY <1>1, <1>2

LEMMA EnterGet ==
    ASSUME NEW c, Shaped(c), NEW s, NEW q \in Places
    PROVE  Get(Enter(c, s), q) = Get(c, q)
  <1> DEFINE e == Enter(c, s)
  <1>1. /\ \A x \in GlobalKeys : e[x] = c[x]
        /\ \A m \in Names, x \in Fields : e["modules"][m][x] = c["modules"][m][x]
    BY EnterKeeps
  <1> HIDE DEF e
  <1>2. Get(e, q) = Get(c, q)
    BY <1>1, SettingKinds DEF Get
  <1> QED
    BY <1>2 DEF e

LEMMA ApplyFacts ==
    ASSUME NEW c, Shaped(c), NEW p \in Places, NEW v
    PROVE  /\ Shaped(Apply(c, p, v))
           /\ \A q \in Places : Get(Apply(c, p, v), q) =
                 IF Same(p, q) THEN Converted(Setting(p[2]), Get(c, q), v) ELSE Get(c, q)
           /\ p[1] \in Names => Apply(c, p, v)["modules"][p[1]]["present"] = TRUE
           /\ \A m \in Names : m # p[1] =>
                 Apply(c, p, v)["modules"][m]["present"] = c["modules"][m]["present"]
  <1> DEFINE e == Enter(c, p[1])
             k == Setting(p[2])
             a == Apply(c, p, v)
  <1>1. /\ Shaped(e)
        /\ \A q \in Places : Get(e, q) = Get(c, q)
        /\ p[1] \in Names => e["modules"][p[1]]["present"] = TRUE
        /\ \A m \in Names : m # p[1] =>
              e["modules"][m]["present"] = c["modules"][m]["present"]
    <2>1. \A q \in Places : Get(e, q) = Get(c, q)
      BY EnterGet
    <2>2. p[1] \in Names => e["modules"][p[1]]["present"] = TRUE
      BY EnterPresent, Zenon
    <2>3. /\ Shaped(e)
          /\ \A m \in Names : m # p[1] =>
                e["modules"][m]["present"] = c["modules"][m]["present"]
      BY EnterKeeps
    <2> QED
      BY <2>1, <2>2, <2>3, Zenon
  <1>2. CASE p[1] \in Names
    <2> DEFINE s == p[1]
               w == Converted(k, e["modules"][s][k], v)
    <2>1. a = WithField(e, s, k, w)
      BY <1>2, Zenon DEF Apply, WithField
    <2>2. k \in Fields /\ k \in ModuleFields /\ k # "present"
      BY <1>2, SettingKinds DEF Fields, ModuleFields
    <2> HIDE DEF a, e, w
    <2>3. /\ Shaped(a)
          /\ \A x \in GlobalKeys : a[x] = e[x]
          /\ a["modules"][s][k] = w
          /\ \A m \in Names, x \in ModuleFields :
                m # s \/ x # k => a["modules"][m][x] = e["modules"][m][x]
      BY <1>1, <1>2, <2>1, <2>2, SetModule
    <2>4. \A m \in Names : a["modules"][m]["present"] = e["modules"][m]["present"]
      <3>1. "present" \in ModuleFields
        BY DEF ModuleFields
      <3> QED
        BY <2>2, <2>3, <3>1
    <2>5. ASSUME NEW q \in Places
          PROVE  Get(a, q) = IF Same(p, q) THEN Converted(k, Get(e, q), v) ELSE Get(e, q)
      <3>1. CASE q[1] \in Names
        <4>1. Setting(q[2]) \in ModuleFields
          BY <3>1, SettingKinds DEF ModuleFields
        <4>2. /\ Get(a, q) = a["modules"][q[1]][Setting(q[2])]
              /\ Get(e, q) = e["modules"][q[1]][Setting(q[2])]
          BY <3>1 DEF Get
        <4>3. Same(p, q) <=> q[1] = s /\ Setting(q[2]) = k
          BY <1>2, <3>1 DEF Same
        <4>4. CASE Same(p, q)
          BY <2>3, <3>1, <4>1, <4>2, <4>3, <4>4 DEF w
        <4>5. CASE ~Same(p, q)
          BY <2>3, <3>1, <4>1, <4>2, <4>3, <4>5
        <4> QED
          BY <4>4, <4>5
      <3>2. CASE q[1] \notin Names
        BY <1>2, <2>3, <3>2, SettingKinds DEF Get, Same
      <3> QED
        BY <3>1, <3>2
    <2> QED
      BY <1>1, <2>3, <2>4, <2>5 DEF a
  <1>3. CASE p[1] \notin Names
    <2> DEFINE w == Converted(k, e[k], v)
    <2>1. a = WithGlobal(e, k, w)
      BY <1>3, Zenon DEF Apply, WithGlobal
    <2>2. k \in GlobalKeys
      BY <1>3, SettingKinds
    <2> HIDE DEF a, e, w
    <2>3. /\ Shaped(a)
          /\ \A x \in GlobalKeys : a[x] = IF x = k THEN w ELSE e[x]
          /\ a["modules"] = e["modules"]
      BY <1>1, <2>1, <2>2, SetGlobal
    <2>4. ASSUME NEW q \in Places
          PROVE  Get(a, q) = IF Same(p, q) THEN Converted(k, Get(e, q), v) ELSE Get(e, q)
      <3>1. CASE q[1] \in Names
        BY <1>3, <2>3, <3>1 DEF Get, Same
      <3>2. CASE q[1] \notin Names
        <4>1. Setting(q[2]) \in GlobalKeys
          BY <3>2, SettingKinds
        <4>2. Get(a, q) = a[Setting(q[2])] /\ Get(e, q) = e[Setting(q[2])]
          BY <3>2 DEF Get
        <4>3. Same(p, q) <=> Setting(q[2]) = k
          BY <1>3, <3>2 DEF Same
        <4>4. CASE Same(p, q)
          BY <2>3, <4>1, <4>2, <4>3, <4>4 DEF w
        <4>5. CASE ~Same(p, q)
          BY <2>3, <4>1, <4>2, <4>3, <4>5
        <4> QED
          BY <4>4, <4>5
      <3> QED
        BY <3>1, <3>2
    <2> QED
      BY <1>1, <2>3, <2>4 DEF a
  <1> QED
    BY <1>2, <1>3

LEMMA ApplyShaped ==
    ASSUME NEW c, Shaped(c), NEW p \in Places, NEW v
    PROVE  Shaped(Apply(c, p, v))
  BY ApplyFacts, Zenon

LEMMA ApplyGet ==
    ASSUME NEW c, Shaped(c), NEW p \in Places, NEW v, NEW q \in Places
    PROVE  Get(Apply(c, p, v), q) =
              IF Same(p, q) THEN Converted(Setting(p[2]), Get(c, q), v) ELSE Get(c, q)
  BY ApplyFacts, Zenon

LEMMA ApplyPresent ==
    ASSUME NEW c, Shaped(c), NEW p \in Places, NEW v, NEW m \in Names
    PROVE  /\ m = p[1] => Apply(c, p, v)["modules"][m]["present"] = TRUE
           /\ m # p[1] =>
                 Apply(c, p, v)["modules"][m]["present"] = c["modules"][m]["present"]
  BY ApplyFacts, Zenon

----------------------------------------------------------------------------
\* What documents say, and the types of the settings.

Kept(key) == IF key = "bind_port" THEN 0..(PortModulus - 1) ELSE Values(key)
Typed(c) == \A q \in Places : Get(c, q) \in Kept(Setting(q[2]))

LEMMA ValueKinds ==
    /\ \A key \in Numbers : Values(key) = Int
    /\ \A key \in Flags : Values(key) = BOOLEAN
    /\ \A key \in Lists : Values(key) = Seq(Words)
    /\ \A key \in Files : Values(key) = Paths \cup {""}
    /\ Values("method") = Words
  <1>1. \A key \in Numbers : key \notin Flags /\ key \notin Lists /\ key \notin Files
    BY DEF Files, Lists, Flags, Numbers
  <1>2. \A key \in Flags : key \notin Numbers /\ key \notin Lists /\ key \notin Files
    BY DEF Files, Lists, Flags, Numbers
  <1>3. \A key \in Lists : key \notin Numbers /\ key \notin Flags /\ key \notin Files
    BY DEF Files, Lists, Flags, Numbers
  <1>4. \A key \in Files : key \notin Numbers /\ key \notin Flags /\ key \notin Lists
    BY DEF Files, Lists, Flags, Numbers
  <1>5. /\ "method" \notin Numbers /\ "method" \notin Flags /\ "method" \notin Lists
        /\ "method" \notin Files
    BY DEF Files, Lists, Flags, Numbers
  <1> QED
    BY <1>1, <1>2, <1>3, <1>4, <1>5 DEF Values

LEMMA SettingFacts ==
    ASSUME NEW key \in GlobalKeys \cup ModuleKeys
    PROVE  /\ Setting(key) = "bind_port" <=> key = "bind_port"
           /\ Setting(key) \in Lists <=> key \in Lists
           /\ key \in Lists => key # "bind_port"
           /\ Values(Setting(key)) = Values(key)
           /\ Setting(key) \in Numbers \cup Flags \cup Lists \cup Files \cup {"method"}
  <1>1. CASE key = "delete"
    <2>1. Setting(key) = "allow_delete"
      BY <1>1 DEF Setting
    <2>2. "allow_delete" \in Flags /\ "delete" \in Flags
      BY DEF Flags
    <2>3. "allow_delete" \notin Lists /\ "delete" \notin Lists
      BY DEF Lists
    <2>4. Values("allow_delete") = Values("delete")
      BY <2>2, ValueKinds
    <2> QED
      BY <1>1, <2>1, <2>2, <2>3, <2>4
  <1>2. CASE key # "delete"
    <2>1. Setting(key) = key
      BY <1>2 DEF Setting
    <2>2. key \in Numbers \cup Flags \cup Lists \cup Files \cup {"method"}
      BY DEF GlobalKeys, ModuleKeys, Numbers, Flags, Lists, Files
    <2>3. key \in Lists => key # "bind_port"
      BY DEF Lists
    <2> QED
      BY <2>1, <2>2, <2>3
  <1> QED
    BY <1>1, <1>2

LEMMA PlaceKey ==
    ASSUME NEW p \in Places
    PROVE  p[2] \in GlobalKeys \cup ModuleKeys
  BY PlaceKinds

LEMMA ConvertedTyped ==
    ASSUME NEW key \in GlobalKeys \cup ModuleKeys, NEW old, NEW v \in Values(key),
           old \in Kept(Setting(key))
    PROVE  Converted(Setting(key), old, v) \in Kept(Setting(key))
  <1> DEFINE k == Setting(key)
  <1>1. CASE key = "bind_port"
    <2>1. k = "bind_port" /\ "bind_port" \in Numbers
      BY <1>1, SettingFacts DEF Numbers
    <2>2. v \in Int
      BY <1>1, <2>1, ValueKinds
    <2>3. PortModulus \in Nat /\ PortModulus > 1
      BY NameFacts
    <2>4. v % PortModulus \in 0..(PortModulus - 1)
      BY <2>2, <2>3
    <2> QED
      BY <2>1, <2>4 DEF Converted, Kept
  <1>2. CASE key \in Lists
    <2>1. k \in Lists /\ k # "bind_port"
      BY <1>2, SettingFacts
    <2>2. old \in Seq(Words) /\ v \in Seq(Words)
      BY <1>2, <2>1, ValueKinds DEF Kept
    <2>3. old \o v \in Seq(Words)
      BY <2>2, ConcatProperties
    <2> QED
      BY <2>1, <2>3, ValueKinds DEF Converted, Kept
  <1>3. CASE key # "bind_port" /\ key \notin Lists
    <2>1. k # "bind_port" /\ k \notin Lists /\ Values(k) = Values(key)
      BY <1>3, SettingFacts
    <2> QED
      BY <2>1 DEF Converted, Kept
  <1> QED
    BY <1>1, <1>2, <1>3

LEMMA ApplyTyped ==
    ASSUME NEW c, Shaped(c), Typed(c), NEW p \in Places, NEW v \in Values(p[2])
    PROVE  Typed(Apply(c, p, v))
  <1> SUFFICES ASSUME NEW q \in Places
               PROVE  Get(Apply(c, p, v), q) \in Kept(Setting(q[2]))
    BY DEF Typed
  <1>1. Get(c, q) \in Kept(Setting(q[2]))
    BY DEF Typed
  <1>2. CASE ~Same(p, q)
    BY <1>1, <1>2, ApplyGet
  <1>3. CASE Same(p, q)
    <2>1. Setting(p[2]) = Setting(q[2])
      BY <1>3 DEF Same
    <2>2. Get(Apply(c, p, v), q) = Converted(Setting(p[2]), Get(c, q), v)
      BY <1>3, ApplyGet
    <2>3. p[2] \in GlobalKeys \cup ModuleKeys
      BY PlaceKey
    <2>4. Converted(Setting(p[2]), Get(c, q), v) \in Kept(Setting(p[2]))
      BY <1>1, <2>1, <2>3, ConvertedTyped
    <2> QED
      BY <2>1, <2>2, <2>4
  <1> QED
    BY <1>2, <1>3

LEMMA EnterTyped ==
    ASSUME NEW c, Shaped(c), Typed(c), NEW s
    PROVE  Typed(Enter(c, s))
  BY EnterGet DEF Typed

\* The documents that a file can hold.
Docs == Documents[format] \cup {EmptyDocument}

LEMMA DocFacts ==
    ASSUME format \in Formats, NEW d \in Docs
    PROVE  IsDocument(d)
  <1>1. CASE d \in Documents[format]
    BY <1>1, DaemonConfigConstants DEF DaemonConfigConstants
  <1>2. CASE d = EmptyDocument
    <2>1. DOMAIN EmptyDocument.says = {} /\ EmptyDocument.bad = {}
      BY DEF EmptyDocument
    <2> QED
      BY <1>2, <2>1 DEF IsDocument
  <1> QED
    BY <1>1, <1>2 DEF Docs

LEMMA MentionedIsPlace ==
    ASSUME format \in Formats, NEW d \in Docs, NEW p, Mentions(format, d, p)
    PROVE  p \in Places
  BY DocFacts DEF IsDocument, Mentions

LEMMA AssignedTyped ==
    ASSUME format \in Formats, NEW d \in Docs, NEW p, Assigns(format, d, p)
    PROVE  Assigned(d, p) \in Values(p[2])
  <1>1. p \in DOMAIN d.says \cup d.bad
    BY DEF Assigns, Mentions
  <1>2. CASE p \in d.bad
    <2>1. p[2] \in Flags
      BY <1>2 DEF Assigns
    <2> QED
      BY <1>2, <2>1, ValueKinds DEF Assigned
  <1>3. CASE p \notin d.bad
    BY <1>1, <1>3, DocFacts DEF Assigned, IsDocument
  <1> QED
    BY <1>2, <1>3
----------------------------------------------------------------------------
\* The invariant.

Loaders == [pc : LoaderPcs, doc : Docs, at : 0..Len(Order)]
Managers == [on : BOOLEAN, method : Words, denied : Seq(Words)]
Sessions == [open : BOOLEAN, tls : BOOLEAN, user : Users \cup {"", "anonymous"}]

Types ==
    /\ format \in Formats /\ access \in {s.access : s \in Starts}
    /\ file.kind \in FileKinds /\ file.doc \in Docs
    /\ disk \in [Paths -> {"none", "file", "dir"}]
    /\ isValid \in BOOLEAN
    /\ proc \in {"starting", "running", "failed", "terminated"}
    /\ loader \in Loaders
    /\ manager \in Managers
    /\ session \in Sessions
    /\ read \in Seq(Docs)
    /\ edits \in 0..MaxEdits /\ reloads \in 0..MaxReloads

Settings == Shaped(config) /\ Typed(config)

ServedPaths == \A m \in Names : served[m].present => served[m].path \in Paths

Validated == {"main", "construct", "check", "modules", "sockets"}
Past == Validated \cup {"validate"}

\* What the place in the code says about the load.
Control ==
    /\ loader.pc \in Validated => isValid = TRUE
    /\ loader.pc \in {"parse", "validate"} => isValid = FALSE
    /\ isValid = TRUE \/ loader.pc \in {"parse", "validate"} =>
          read # <<>> /\ loader.doc = read[Len(read)]
    /\ proc = "starting" =>
          /\ loader.pc # "idle"
          /\ loader.pc = "open" => read = <<>>
          /\ loader.pc # "open" => Len(read) = 1
          /\ session.user = ""
    /\ loader.pc # "idle" => proc \in {"starting", "running"}
    /\ proc = "running" => read # <<>>
    /\ loader.pc \in {"main", "construct", "sockets"} => proc = "starting"

\* The places that some document mentioned, whether or not it got there.
Touched == UNION {MentionedPlaces(d) : d \in Everything}

\* What no document mentioned is as it was.
Untouched ==
    /\ \A q \in Places : (\A p \in Touched : ~Same(p, q)) => Get(config, q) = Get(Defaults, q)
    /\ \A m \in Names : (\A p \in Touched : p[1] # m) =>
          config["modules"][m]["present"] = FALSE

\* What a place's value becomes, lists aside.
Plain(p, v) == IF p[2] = "bind_port" THEN v % PortModulus ELSE v

\* The load has been through the first n places of its document: a setting has the value
\* of the last place that assigned it.
Through(n) ==
    \A i \in 1..n :
        Assigns(format, loader.doc, Order[i]) =>
            /\ Order[i][1] \in Names => config["modules"][Order[i][1]]["present"] = TRUE
            /\ Order[i][2] \notin Lists =>
                  \/ Get(config, Order[i]) = Plain(Order[i], Assigned(loader.doc, Order[i]))
                  \/ \E j \in (i + 1)..n : /\ Assigns(format, loader.doc, Order[j])
                                           /\ Same(Order[j], Order[i])

Progress ==
    /\ loader.pc = "parse" => Through(loader.at)
    /\ loader.pc = "validate" \/ isValid = TRUE => Through(Len(Order))

\* The place where a format turns a switch, and whether the first load is past place p.
Switch(key) == <<IF format = "ini" THEN "global" ELSE "own", key>>
Reached(p) ==
    \/ proc = "running"
    \/ loader.pc \in Past
    \/ loader.pc = "parse" /\ \A i \in Ahead : Order[i] # p

\* A switch that every document turns on is on once the first load is past it.
Strict ==
    /\ \A key \in {"auth", "ssl"} :
          Reached(Switch(key)) /\ (\A d \in Everything : TurnsOn(d, key)) =>
              config[key] = TRUE
    /\ proc = "running" /\ (\A d \in Everything : TurnsOn(d, "ssl")) => tls = TRUE

DenyPlace == <<"own", "denied_users">>
Entries(s) == {s[i] : i \in DOMAIN s}

\* Who the first document denies is on the list, and on the manager's copy of it.
Denied ==
    /\ Reached(DenyPlace) => DeniedBy(read[1]) \subseteq Entries(config["denied_users"])
    /\ manager.on = TRUE =>
          read # <<>> /\ DeniedBy(read[1]) \subseteq Entries(manager.denied)
    /\ session.user \in Users => manager.on = TRUE

IInv ==
    /\ Types /\ Settings /\ ServedPaths /\ Control /\ Untouched /\ Progress
    /\ Strict /\ Denied /\ NoLaxWindow /\ DeniedStaysOut
----------------------------------------------------------------------------
\* What a document means.

LEMMA ValueOfOne ==
    ASSUME NEW f, NEW d, NEW c, NEW default
    PROVE  Value(f, d, <<c>>, default) = IF Assigns(f, d, c) THEN Assigned(d, c) ELSE default
  <1> DEFINE cs == <<c>>
             given == {i \in DOMAIN cs : Assigns(f, d, cs[i])}
             last == CHOOSE i \in given : \A j \in given : j <= i
  <1>1. Value(f, d, cs, default) = IF given = {} THEN default ELSE Assigned(d, cs[last])
    BY Zenon DEF Value
  <1>2. DOMAIN cs = {1} /\ cs[1] = c
    OBVIOUS
  <1>3. CASE Assigns(f, d, c)
    <2>1. given = {1}
      BY <1>2, <1>3
    <2>2. last = 1
      BY <2>1
    <2> HIDE DEF cs, given, last
    <2> QED
      BY <1>1, <1>2, <1>3, <2>1, <2>2 DEF cs
  <1>4. CASE ~Assigns(f, d, c)
    <2>1. given = {}
      BY <1>2, <1>4
    <2> HIDE DEF given, last
    <2> QED
      BY <1>1, <1>4, <2>1
  <1> QED
    BY <1>3, <1>4

LEMMA ValueOfTwo ==
    ASSUME NEW f, NEW d, NEW c1, NEW c2, NEW default
    PROVE  Value(f, d, <<c1, c2>>, default) =
              IF Assigns(f, d, c2) THEN Assigned(d, c2)
              ELSE IF Assigns(f, d, c1) THEN Assigned(d, c1) ELSE default
  <1> DEFINE cs == <<c1, c2>>
             given == {i \in DOMAIN cs : Assigns(f, d, cs[i])}
             last == CHOOSE i \in given : \A j \in given : j <= i
  <1>1. Value(f, d, cs, default) = IF given = {} THEN default ELSE Assigned(d, cs[last])
    BY Zenon DEF Value
  <1>2. DOMAIN cs = {1, 2} /\ cs[1] = c1 /\ cs[2] = c2
    OBVIOUS
  <1>3. CASE Assigns(f, d, c2)
    <2>1. 2 \in given /\ given \subseteq {1, 2}
      BY <1>2, <1>3
    <2> HIDE DEF given
    <2>2. last = 2
      <3>1. \A j \in given : j <= 2
        BY <2>1
      <3>2. last \in given /\ \A j \in given : j <= last
        BY <2>1, <3>1
      <3> HIDE DEF last
      <3> QED
        BY <2>1, <3>2
    <2>3. given # {}
      BY <2>1
    <2> HIDE DEF cs, last
    <2> QED
      BY <1>1, <1>2, <1>3, <2>2, <2>3 DEF cs
  <1>4. CASE ~Assigns(f, d, c2) /\ Assigns(f, d, c1)
    <2>1. given = {1}
      BY <1>2, <1>4
    <2>2. last = 1
      BY <2>1
    <2> HIDE DEF cs, given, last
    <2> QED
      BY <1>1, <1>2, <1>4, <2>1, <2>2 DEF cs
  <1>5. CASE ~Assigns(f, d, c2) /\ ~Assigns(f, d, c1)
    <2>1. given = {}
      BY <1>2, <1>5
    <2> HIDE DEF given, last
    <2> QED
      BY <1>1, <1>5, <2>1
  <1> QED
    BY <1>3, <1>4, <1>5

\* A document that turns a switch on does so at the place of its format.
LEMMA SwitchFacts ==
    ASSUME format \in Formats, NEW d, NEW key \in {"auth", "ssl"}, TurnsOn(d, key)
    PROVE  Assigns(format, d, Switch(key)) /\ Assigned(d, Switch(key)) = TRUE
  <1> DEFINE g == <<"global", key>>
             o == <<"own", key>>
  <1>1. g[1] = "global" /\ g[2] = key /\ o[1] = "own" /\ o[2] = key
    OBVIOUS
  <1>2. GlobalMeaning(format, d, key) =
            IF Assigns(format, d, o) THEN Assigned(d, o)
            ELSE IF Assigns(format, d, g) THEN Assigned(d, g) ELSE Defaults[key]
    <2>1. GlobalMeaning(format, d, key) = Value(format, d, <<g, o>>, Defaults[key])
      BY Zenon DEF GlobalMeaning
    <2> HIDE DEF g, o
    <2>2. Value(format, d, <<g, o>>, Defaults[key]) =
            IF Assigns(format, d, o) THEN Assigned(d, o)
            ELSE IF Assigns(format, d, g) THEN Assigned(d, g) ELSE Defaults[key]
      BY ValueOfTwo
    <2> QED
      BY <2>1, <2>2, Zenon
  <1>3. Defaults[key] = FALSE
    <2>1. Defaults["auth"] = FALSE /\ Defaults["ssl"] = FALSE
      BY DEF Defaults
    <2> QED
      BY <2>1, Zenon
  <1>4. GlobalMeaning(format, d, key) = TRUE
    BY Zenon DEF TurnsOn
  <1>5. key \notin Numbers
    BY DEF Numbers
  <1>6. "own" \notin Names /\ "global" \notin Names
    BY NameFacts
  <1> HIDE DEF g, o
  <1>7. CASE format = "ini"
    <2>1. ~Reads(format, o)
      BY <1>1, <1>6, <1>7 DEF Reads, IniReads
    <2>2. ~Assigns(format, d, o)
      BY <2>1 DEF Assigns, Mentions
    <2>3. Switch(key) = g
      BY <1>7 DEF Switch, g
    <2> QED
      BY <1>2, <1>3, <1>4, <2>2, <2>3, Zenon
  <1>8. CASE format # "ini"
    <2>1. ~Reads(format, g)
      <3>1. CASE format = "json"
        BY <1>1, <1>5, <1>6, <3>1 DEF Reads, JsonReads
      <3>2. CASE format = "yaml"
        BY <1>1, <1>5, <1>6, <3>2 DEF Reads, YamlReads
      <3> QED
        BY <1>8, <3>1, <3>2 DEF Formats
    <2>2. ~Assigns(format, d, g)
      BY <2>1 DEF Assigns, Mentions
    <2>3. Switch(key) = o
      BY <1>8 DEF Switch, o
    <2> QED
      BY <1>2, <1>3, <1>4, <2>2, <2>3, Zenon
  <1> QED
    BY <1>7, <1>8

\* The next place that the document mentions.
LEMMA LeastNumber ==
    ASSUME NEW T, T \subseteq Nat, T # {}
    PROVE  \E n \in T : \A m \in T : n <= m
  <1>1. PICK n \in T : \A m \in T : ~(<<m, n>> \in OpToRel(<, Nat))
    BY NatLessThanWellFounded, WFMin
  <1>2. ASSUME NEW m \in T PROVE n <= m
    <2>1. ~(<<m, n>> \in {p \in Nat \X Nat : p[1] < p[2]})
      BY <1>1 DEF OpToRel
    <2> QED
      BY <2>1
  <1> QED
    BY <1>2

LEMMA OrderLength == Len(Order) \in Nat /\ DOMAIN Order = 1..Len(Order)
  <1> DEFINE n == 2 * Len(GlobalOrder) + Len(ModuleOrder) * Len(ModuleNames)
  <1>1. n \in Nat
    <2>1. n = 2 * 9 + 5 * Len(ModuleNames)
      BY OrderLengths
    <2>2. Len(ModuleNames) \in Nat
      BY NameFacts
    <2> HIDE DEF n
    <2> QED
      BY <2>1, <2>2
  <1>2. DOMAIN Order = 1..n
    BY DEF Order
  <1> HIDE DEF n
  <1>3. Order = [i \in 1..n |-> Order[i]]
    BY <1>2 DEF Order, n
  <1>4. Order \in Seq({Order[i] : i \in 1..n})
    <2>1. Order \in [1..n -> {Order[i] : i \in 1..n}]
      BY <1>3
    <2> QED
      BY <1>1, <2>1, SeqDef
  <1> QED
    BY <1>2, <1>4, LenProperties

LEMMA NextPlaceFacts ==
    ASSUME Types, Ahead # {}
    PROVE  /\ NextPlace \in Ahead
           /\ NextPlace \in 1..Len(Order) /\ NextPlace > loader.at
           /\ \A j \in Ahead : NextPlace <= j
           /\ Mentions(format, loader.doc, Order[NextPlace])
           /\ Order[NextPlace] \in Places
  <1>1. loader.at \in 0..Len(Order) /\ Len(Order) \in Nat
    BY OrderLength DEF Types, Loaders
  <1>2. \A i \in Ahead :
            i \in 1..Len(Order) /\ i > loader.at /\ Mentions(format, loader.doc, Order[i])
    BY <1>1 DEF Ahead
  <1>3. Ahead \subseteq Nat
    BY <1>1, <1>2
  <1>4. \E n \in Ahead : \A j \in Ahead : n <= j
    BY <1>3, LeastNumber
  <1>5. NextPlace \in Ahead /\ \A j \in Ahead : NextPlace <= j
    BY <1>4, Zenon DEF NextPlace
  <1>6. Order[NextPlace] \in Places
    BY <1>2, <1>5, OrderLength DEF Places
  <1> QED
    BY <1>2, <1>5, <1>6

\* A place that the document mentions and the load is not past is ahead of it.
LEMMA AheadOrBehind ==
    ASSUME Types, NEW p, Mentions(format, loader.doc, p), \A i \in Ahead : Order[i] # p
    PROVE  \E i \in 1..loader.at : Order[i] = p
  <1>1. loader.doc \in Docs /\ format \in Formats /\ loader.at \in 0..Len(Order)
    BY DEF Types, Loaders
  <1>2. p \in Places
    BY <1>1, MentionedIsPlace
  <1>3. PICK i \in 1..Len(Order) : Order[i] = p
    BY <1>2, OrderLength DEF Places
  <1>4. i <= loader.at
    BY <1>1, <1>3, OrderLength DEF Ahead
  <1> QED
    BY <1>1, <1>3, <1>4

----------------------------------------------------------------------------
\* What each part of the invariant needs of a step.

LEMMA SettingsKept ==
    ASSUME Settings, UNCHANGED config
    PROVE  Settings'
  BY DEF Settings

LEMMA DocsKept ==
    ASSUME UNCHANGED format
    PROVE  Docs' = Docs
  BY DEF Docs

LEMMA MentionsKept ==
    ASSUME UNCHANGED format, NEW d
    PROVE  /\ MentionedPlaces(d)' = MentionedPlaces(d)
           /\ DeniedBy(d)' = DeniedBy(d)
           /\ \A key : TurnsOn(d, key)' <=> TurnsOn(d, key)
  BY DEF MentionedPlaces, DeniedBy, TurnsOn

LEMMA UntouchedKept ==
    ASSUME Untouched, UNCHANGED <<format, config>>, Everything \subseteq Everything'
    PROVE  Untouched'
  <1>1. Touched \subseteq Touched'
    BY MentionsKept DEF Touched
  <1> QED
    BY <1>1 DEF Untouched

LEMMA ThroughKept ==
    ASSUME NEW n, Through(n), UNCHANGED <<format, config>>, loader'.doc = loader.doc
    PROVE  Through(n)'
  BY DEF Through

LEMMA StrictKept ==
    ASSUME Strict, UNCHANGED <<format, config>>, Everything \subseteq Everything',
           \A key \in {"auth", "ssl"} : Reached(Switch(key))' => Reached(Switch(key)),
           \/ proc' # "running"
           \/ proc = "running" /\ tls' = tls
           \/ (\A d \in Everything : TurnsOn(d, "ssl")) => tls' = TRUE
    PROVE  Strict'
  <1>1. \A key \in {"auth", "ssl"} :
            (\A d \in Everything' : TurnsOn(d, key)') => \A d \in Everything : TurnsOn(d, key)
    BY MentionsKept
  <1>2. ASSUME NEW key \in {"auth", "ssl"}, Reached(Switch(key))',
               \A d \in Everything' : TurnsOn(d, key)'
        PROVE  config'[key] = TRUE
    <2>1. config[key] = TRUE
      BY <1>1, <1>2 DEF Strict
    <2> QED
      BY <2>1
  <1>3. ASSUME proc' = "running", \A d \in Everything' : TurnsOn(d, "ssl")'
        PROVE  tls' = TRUE
    <2>1. \A d \in Everything : TurnsOn(d, "ssl")
      BY <1>1, <1>3
    <2> QED
      BY <1>3, <2>1 DEF Strict
  <1> QED
    BY <1>2, <1>3 DEF Strict

\* The documents read so far.
LEMMA EverythingGrows ==
    ASSUME read \in Seq(Docs), NEW d \in Docs, read' = Append(read, d)
    PROVE  /\ Everything' = Everything \cup {d}
           /\ read' # <<>> /\ read'[Len(read')] = d /\ Len(read') = Len(read) + 1
           /\ read # <<>> => read'[1] = read[1]
           /\ read = <<>> => read'[1] = d
  <1>1. /\ read' \in Seq(Docs) /\ read' # <<>> /\ Len(read') = Len(read) + 1
        /\ \A i \in 1..Len(read) : read'[i] = read[i]
        /\ read'[Len(read) + 1] = d
    BY AppendProperties
  <1>2. Len(read) \in Nat /\ DOMAIN read = 1..Len(read) /\ DOMAIN read' = 1..Len(read')
    BY <1>1, LenProperties
  <1>3. Everything' = Everything \cup {d}
    BY <1>1, <1>2 DEF Everything
  <1>4. read # <<>> => Len(read) > 0
    BY EmptySeq
  <1> QED
    BY <1>1, <1>2, <1>3, <1>4

LEMMA SessionKept ==
    ASSUME IInv, UNCHANGED <<session, format>>, Everything \subseteq Everything',
           read # <<>> => read'[1] = read[1]
    PROVE  NoLaxWindow' /\ DeniedStaysOut'
  <1>1. NoLaxWindow'
    <2>1. \A d : /\ TurnsOn(d, "auth")' <=> TurnsOn(d, "auth")
                 /\ TurnsOn(d, "ssl")' <=> TurnsOn(d, "ssl")
      BY MentionsKept
    <2> QED
      BY <2>1 DEF IInv, NoLaxWindow
  <1>2. DeniedStaysOut'
    <2> SUFFICES ASSUME session.user \in Users PROVE session.user \notin DeniedBy(read[1])'
      BY DEF DeniedStaysOut
    <2>1. read # <<>>
      BY DEF IInv, Denied
    <2>2. DeniedBy(read[1])' = DeniedBy(read[1])
      BY <2>1 DEF DeniedBy
    <2> QED
      BY <2>2 DEF IInv, DeniedStaysOut
  <1> QED
    BY <1>1, <1>2
----------------------------------------------------------------------------
\* The defaults, and the initial state.

LEMMA DefaultsShaped == Shaped(Defaults)
  <1> DEFINE d == Defaults
  <1>1. d = [x \in GlobalKeys \cup {"modules"} |-> d[x]]
    BY DEF Defaults, GlobalKeys
  <1>2. d["modules"] = [m \in Names |-> NoModule]
    BY DEF Defaults
  <1>3. NoModule = [x \in Fields \cup {"present"} |-> NoModule[x]]
    BY DEF NoModule, Fields
  <1> HIDE DEF d
  <1>4. \A m \in Names : d["modules"][m] = NoModule
    BY <1>2
  <1>5. d["modules"] = [m \in Names |-> d["modules"][m]]
    BY <1>2, <1>4
  <1>6. \A m \in Names : d["modules"][m] = [x \in Fields \cup {"present"} |-> d["modules"][m][x]]
    BY <1>3, <1>4, Zenon
  <1> QED
    BY <1>1, <1>5, <1>6, Zenon DEF Shaped, d

LEMMA DefaultsTyped == Typed(Defaults)
  <1> SUFFICES ASSUME NEW q \in Places
               PROVE  Get(Defaults, q) \in Kept(Setting(q[2]))
    BY DEF Typed
  <1>0. <<>> \in Seq(Words) /\ 1 \in Int
    OBVIOUS
  <1>1. CASE q[1] \in Names
    <2>1. q[2] \in ModuleKeys
      BY <1>1, PlaceKinds
    <2>2. Get(Defaults, q) = NoModule[Setting(q[2])]
      BY <1>1 DEF Get, Defaults
    <2>3. /\ "path" \in Files /\ "read_only" \in Flags
          /\ "allow_delete" \in Flags /\ "exclude" \in Lists
      BY DEF Files, Flags, Lists
    <2>4. CASE q[2] = "path"
      <3>1. Setting(q[2]) = "path" /\ NoModule["path"] = ""
        BY <2>4 DEF Setting, NoModule
      <3> QED
        BY <2>2, <2>3, <3>1, ValueKinds DEF Kept
    <2>5. CASE q[2] = "read_only"
      <3>1. Setting(q[2]) = "read_only" /\ NoModule["read_only"] \in BOOLEAN
        BY <2>5 DEF Setting, NoModule
      <3> QED
        BY <2>2, <2>3, <3>1, ValueKinds DEF Kept
    <2>6. CASE q[2] \in {"delete", "allow_delete"}
      <3>1. Setting(q[2]) = "allow_delete" /\ NoModule["allow_delete"] \in BOOLEAN
        BY <2>6 DEF Setting, NoModule
      <3> QED
        BY <2>2, <2>3, <3>1, ValueKinds DEF Kept
    <2>7. CASE q[2] = "exclude"
      <3>1. Setting(q[2]) = "exclude" /\ NoModule["exclude"] = <<>>
        BY <2>7 DEF Setting, NoModule
      <3> QED
        BY <1>0, <2>2, <2>3, <3>1, ValueKinds DEF Kept
    <2> QED
      BY <2>1, <2>4, <2>5, <2>6, <2>7 DEF ModuleKeys
  <1>2. CASE q[1] \notin Names
    <2>1. q[2] \in GlobalKeys /\ Setting(q[2]) = q[2]
      BY <1>2, PlaceKinds, SettingKinds
    <2>2. Get(Defaults, q) = Defaults[q[2]]
      BY <1>2, <2>1 DEF Get
    <2>3. CASE q[2] = "bind_port"
      <3>1. Defaults["bind_port"] = 1
        BY DEF Defaults
      <3>2. 1 \in 0..(PortModulus - 1)
        <4>1. PortModulus \in Nat /\ PortModulus > 1
          BY NameFacts
        <4> QED
          BY <4>1
      <3> QED
        BY <2>1, <2>2, <2>3, <3>1, <3>2 DEF Kept
    <2>4. CASE q[2] = "max_connections"
      <3>1. Defaults["max_connections"] = 1 /\ "max_connections" \in Numbers
        BY DEF Defaults, Numbers
      <3>2. 1 \in Kept("max_connections")
        BY <1>0, <3>1, ValueKinds DEF Kept
      <3> QED
        BY <2>1, <2>2, <2>4, <3>1, <3>2
    <2>5. CASE q[2] \in {"ssl", "auth", "auto_reload"}
      <3>0. Defaults["ssl"] = FALSE /\ Defaults["auth"] = FALSE /\ Defaults["auto_reload"] = FALSE
        BY DEF Defaults
      <3>1. q[2] \in Flags /\ Defaults[q[2]] \in BOOLEAN
        BY <2>5, <3>0 DEF Flags
      <3>2. Kept(q[2]) = BOOLEAN
        BY <2>5, <3>1, ValueKinds DEF Kept
      <3> QED
        BY <2>1, <2>2, <3>1, <3>2
    <2>6. CASE q[2] \in {"cert", "password_file"}
      <3>0. Defaults["cert"] = "" /\ Defaults["password_file"] = ""
        BY DEF Defaults
      <3>1. q[2] \in Files /\ Defaults[q[2]] = ""
        BY <2>6, <3>0 DEF Files
      <3>2. "" \in Kept(q[2])
        BY <2>6, <3>1, ValueKinds DEF Kept
      <3> QED
        BY <2>1, <2>2, <3>1, <3>2
    <2>7. CASE q[2] = "method"
      <3>1. Defaults["method"] = "password"
        BY DEF Defaults
      <3>2. "password" \in Kept("method")
        <4>1. Values("method") = Words
          BY ValueKinds, Zenon
        <4>2. Kept("method") = Words
          BY <4>1 DEF Kept
        <4>3. "password" \in Words
          BY ConfigurationConstants DEF ConfigurationConstants
        <4> QED
          BY <4>2, <4>3
      <3> QED
        BY <2>1, <2>2, <2>7, <3>1, <3>2
    <2>8. CASE q[2] = "denied_users"
      <3>1. Defaults["denied_users"] = <<>> /\ "denied_users" \in Lists
        BY DEF Defaults, Lists
      <3>2. <<>> \in Kept("denied_users")
        BY <1>0, <3>1, ValueKinds DEF Kept
      <3> QED
        BY <2>1, <2>2, <2>8, <3>1, <3>2
    <2> QED
      BY <2>1, <2>3, <2>4, <2>5, <2>6, <2>7, <2>8 DEF GlobalKeys
  <1> QED
    BY <1>1, <1>2

LEMMA InitInv ==
    ASSUME Init
    PROVE  IInv
  <1>1. PICK s \in Starts : format = s.format /\ file = File("good", s.doc) /\ access = s.access
    BY DEF Init
  <1>2. format \in Formats /\ s.doc \in Documents[format]
    BY <1>1, DaemonConfigConstants DEF DaemonConfigConstants
  <1>3. /\ disk = Kind /\ config = Defaults /\ isValid = FALSE /\ proc = "starting"
        /\ loader = [pc |-> "open", doc |-> EmptyDocument, at |-> 0]
        /\ served = [m \in Names |-> NoModule]
        /\ manager = NoManager /\ session = NoSession /\ read = <<>>
        /\ edits = 0 /\ reloads = 0
    BY DEF Init
  <1>4. loader.pc = "open" /\ manager.on = FALSE /\ session.user = "" /\ session.open = FALSE
    BY <1>3 DEF NoManager, NoSession
  <1>5. "open" \notin Past /\ "open" \notin Validated
    BY DEF Past, Validated
  <1>6. Types
    <2>1. file.kind \in FileKinds /\ file.doc \in Docs
      BY <1>1, <1>2 DEF File, FileKinds, Docs
    <2>2. disk \in [Paths -> {"none", "file", "dir"}]
      <3>1. Kind \in [Paths -> {"file", "dir"}]
        BY DaemonConfigConstants DEF DaemonConfigConstants
      <3> QED
        BY <1>3, <3>1
    <2>3. loader \in Loaders
      BY <1>3, OrderLength DEF Loaders, LoaderPcs, Docs
    <2>4. manager \in Managers
      <3>1. <<>> \in Seq(Words)
        OBVIOUS
      <3>2. PICK no : no = FALSE
        BY Zenon
      <3>3. no \in BOOLEAN
        BY <3>2
      <3>6. "" \in Words
        BY ConfigurationConstants DEF ConfigurationConstants
      <3>4. [on |-> no, method |-> "", denied |-> <<>>] \in Managers
        BY <3>1, <3>3, <3>6 DEF Managers
      <3>5. NoManager = [on |-> no, method |-> "", denied |-> <<>>]
        BY <3>2, Zenon DEF NoManager
      <3> QED
        BY <1>3, <3>4, <3>5
    <2>5. session \in Sessions
      BY <1>3 DEF Sessions, NoSession
    <2>6. edits \in 0..MaxEdits /\ reloads \in 0..MaxReloads
      <3>1. MaxEdits \in Nat /\ MaxReloads \in Nat
        BY DaemonConfigConstants DEF DaemonConfigConstants
      <3> QED
        BY <1>3, <3>1
    <2>7. read \in Seq(Docs)
      BY <1>3
    <2> QED
      BY <1>1, <1>2, <1>3, <2>1, <2>2, <2>3, <2>4, <2>5, <2>6, <2>7 DEF Types
  <1>7. Settings
    BY <1>3, DefaultsShaped, DefaultsTyped DEF Settings
  <1>8. ServedPaths
    BY <1>3 DEF ServedPaths, NoModule
  <1>9. Control
    BY <1>3, <1>4, <1>5 DEF Control
  <1>10. Untouched
    <2>1. \A m \in Names : Defaults["modules"][m]["present"] = FALSE
      BY DEF Defaults, NoModule
    <2> QED
      BY <1>3, <2>1, Zenon DEF Untouched
  <1>11. Progress
    BY <1>3, <1>4 DEF Progress
  <1>12. \A p : ~Reached(p)
    BY <1>3, <1>4, <1>5 DEF Reached
  <1>13. Strict
    BY <1>3, <1>12 DEF Strict
  <1>14. session.user \notin Users /\ session.user # "anonymous"
    BY <1>4, DaemonConfigConstants DEF DaemonConfigConstants
  <1>15. Denied
    BY <1>4, <1>12, <1>14 DEF Denied
  <1>16. NoLaxWindow /\ DeniedStaysOut
    BY <1>4, <1>14 DEF NoLaxWindow, DeniedStaysOut
  <1> QED
    BY <1>6, <1>7, <1>8, <1>9, <1>10, <1>11, <1>13, <1>15, <1>16 DEF IInv
----------------------------------------------------------------------------
\* Steps of the loading thread that assign no setting.

\* Nothing is assigned behind the last place mentioned.
LEMMA ThroughAll ==
    ASSUME Types, Through(loader.at), Ahead = {}
    PROVE  Through(Len(Order))
  <1>1. loader.at \in Nat /\ loader.at <= Len(Order) /\ Len(Order) \in Nat
    BY OrderLength DEF Types, Loaders
  <1>2. ASSUME NEW i \in 1..Len(Order), Assigns(format, loader.doc, Order[i])
        PROVE  i \in 1..loader.at
    <2>1. i \notin Ahead /\ Mentions(format, loader.doc, Order[i])
      BY <1>2 DEF Assigns
    <2>2. i \notin (loader.at + 1)..Len(Order)
      BY <2>1 DEF Ahead
    <2> QED
      BY <1>1, <2>2
  <1> SUFFICES ASSUME NEW i \in 1..Len(Order), Assigns(format, loader.doc, Order[i])
               PROVE
            /\ Order[i][1] \in Names => config["modules"][Order[i][1]]["present"] = TRUE
            /\ Order[i][2] \notin Lists =>
                  \/ Get(config, Order[i]) = Plain(Order[i], Assigned(loader.doc, Order[i]))
                  \/ \E j \in (i + 1)..Len(Order) : /\ Assigns(format, loader.doc, Order[j])
                                                    /\ Same(Order[j], Order[i])
    BY Zenon DEF Through
  <1>3. i \in 1..loader.at
    BY <1>2
  <1>4. \A j \in (i + 1)..loader.at : j \in (i + 1)..Len(Order)
    BY <1>1
  <1> QED
    BY <1>3, <1>4, Zenon DEF Through

\* A step from one place in the code to another, outside the parsers.
Moves(pc2) ==
    /\ pc2 \in LoaderPcs \ {"parse"} /\ loader' = [loader EXCEPT !.pc = pc2]
    /\ UNCHANGED <<env, operator, config, session, read>>
    /\ isValid' \in BOOLEAN /\ proc' \in {"starting", "running", "failed", "terminated"}
    /\ reloads' \in 0..MaxReloads
    /\ ServedPaths'
    \* is_valid_ is set where the document has been read to its end.
    /\ pc2 \in Validated => isValid' = TRUE
    /\ pc2 = "validate" => isValid' = FALSE
    /\ isValid' = TRUE \/ pc2 = "validate" =>
          isValid = TRUE \/ loader.pc = "validate" \/ (loader.pc = "parse" /\ Ahead = {})
    \* Start-up goes one way.
    /\ proc' = "starting" =>
          proc = "starting" /\ pc2 \notin {"idle", "open"} /\ loader.pc # "open"
    /\ pc2 # "idle" => proc' \in {"starting", "running"}
    /\ pc2 \in {"main", "construct", "sockets"} => proc' = "starting"
    /\ proc' = "running" \/ pc2 \in Past =>
          proc = "running" \/ loader.pc \in Past \/ (loader.pc = "parse" /\ Ahead = {})
    \* The copies are made of settings that are there.
    /\ proc' = "running" => \/ proc = "running" /\ tls' = tls
                            \/ loader.pc \in Validated /\ tls' = config["ssl"]
    /\ \/ manager' = manager
       \/ /\ loader.pc \in Validated /\ proc = "starting"
          /\ manager' \in Managers
          /\ manager'.on = TRUE => manager'.denied = config["denied_users"]

LEMMA MovesInv ==
    ASSUME IInv, NEW pc2, Moves(pc2)
    PROVE  IInv'
  <1>0. /\ pc2 \in LoaderPcs /\ pc2 # "parse"
        /\ UNCHANGED <<format, access, file, disk, edits, config, session, read>>
    BY Zenon DEF Moves, env, operator
  <1>1. /\ Types /\ Settings /\ Control /\ Untouched /\ Progress /\ Strict /\ Denied
    BY DEF IInv
  <1>2. loader'.pc = pc2 /\ loader'.doc = loader.doc /\ loader'.at = loader.at
    BY <1>1 DEF Moves, Types, Loaders
  <1>3. Everything' = Everything /\ Docs' = Docs
    BY <1>0 DEF Everything, Docs
  <1>4. Types'
    <2>1. loader' \in Loaders'
      BY <1>0, <1>1, <1>3 DEF Moves, Types, Loaders
    <2>2. manager' \in Managers
      BY <1>1 DEF Moves, Types
    <2> QED
      BY <1>0, <1>1, <1>3, <2>1, <2>2 DEF Moves, Types
  <1>5. Settings'
    BY <1>0, <1>1, SettingsKept
  <1>6. ServedPaths'
    BY DEF Moves
  <1>7. \A p : Reached(p)' => Reached(p)
    <2> SUFFICES ASSUME NEW p, Reached(p)' PROVE Reached(p)
      OBVIOUS
    <2>1. proc' = "running" \/ pc2 \in Past
      BY <1>0, <1>2 DEF Reached
    <2> QED
      BY <2>1 DEF Reached, Moves
  <1>8. \A p : loader.pc \in Past => Reached(p)
    BY DEF Reached
  <1>9. loader.pc \in Validated => loader.pc \in Past /\ isValid = TRUE /\ read # <<>>
    BY <1>1 DEF Past, Control
  <1>10. Control'
    <2>1. loader'.pc \in Validated => isValid' = TRUE
      BY <1>2 DEF Moves
    <2>2. loader'.pc \in {"parse", "validate"} => isValid' = FALSE
      BY <1>0, <1>2 DEF Moves
    <2>3. isValid' = TRUE \/ loader'.pc \in {"parse", "validate"} =>
              read' # <<>> /\ loader'.doc = read'[Len(read')]
      <3> SUFFICES ASSUME isValid' = TRUE \/ loader'.pc \in {"parse", "validate"}
                   PROVE  read # <<>> /\ loader.doc = read[Len(read)]
        BY <1>0, <1>2
      <3>1. isValid = TRUE \/ loader.pc \in {"parse", "validate"}
        BY <1>0, <1>2 DEF Moves
      <3> QED
        BY <1>1, <3>1 DEF Control
    <2>4. proc' = "starting" =>
              /\ loader'.pc # "idle"
              /\ loader'.pc = "open" => read' = <<>>
              /\ loader'.pc # "open" => Len(read') = 1
              /\ session'.user = ""
      BY <1>0, <1>1, <1>2 DEF Moves, Control
    <2>5. loader'.pc # "idle" => proc' \in {"starting", "running"}
      BY <1>2 DEF Moves
    <2>6. proc' = "running" => read' # <<>>
      BY <1>0, <1>1, <1>9 DEF Moves, Control
    <2>7. loader'.pc \in {"main", "construct", "sockets"} => proc' = "starting"
      BY <1>2 DEF Moves
    <2> QED
      BY <2>1, <2>2, <2>3, <2>4, <2>5, <2>6, <2>7 DEF Control
  <1>11. Untouched'
    BY <1>0, <1>1, <1>3, UntouchedKept
  <1>12. Progress'
    <2> SUFFICES ASSUME loader'.pc = "validate" \/ isValid' = TRUE
                 PROVE  Through(Len(Order))'
      BY <1>0, <1>2 DEF Progress
    <2>1. isValid = TRUE \/ loader.pc = "validate" \/ (loader.pc = "parse" /\ Ahead = {})
      BY <1>2 DEF Moves
    <2>2. Through(Len(Order))
      BY <1>1, <2>1, ThroughAll DEF Progress
    <2> QED
      BY <1>0, <1>2, <2>2, ThroughKept
  <1>13. Strict'
    <2>1. \A key \in {"auth", "ssl"} : Reached(Switch(key))' => Reached(Switch(key))
      <3>1. \A key : Switch(key)' = Switch(key)
        BY <1>0 DEF Switch
      <3> QED
        BY <1>7, <3>1
    <2>2. \/ proc' # "running"
          \/ proc = "running" /\ tls' = tls
          \/ (\A d \in Everything : TurnsOn(d, "ssl")) => tls' = TRUE
      <3>1. CASE loader.pc \in Validated /\ tls' = config["ssl"]
        <4>1. Reached(Switch("ssl"))
          BY <1>8, <1>9, <3>1
        <4>2. (\A d \in Everything : TurnsOn(d, "ssl")) => config["ssl"] = TRUE
          BY <1>1, <4>1 DEF Strict
        <4> QED
          BY <3>1, <4>2
      <3> QED
        BY <3>1 DEF Moves
    <2> QED
      BY <1>0, <1>1, <1>3, <2>1, <2>2, StrictKept
  <1>14. Denied'
    <2>1. DeniedBy(read[1])' = DeniedBy(read[1])
      BY <1>0 DEF DeniedBy
    <2>2. Reached(DenyPlace)' => DeniedBy(read[1])' \subseteq Entries(config'["denied_users"])
      BY <1>0, <1>1, <1>7, <2>1 DEF Denied, DenyPlace
    <2>3. manager'.on = TRUE =>
              read' # <<>> /\ DeniedBy(read[1])' \subseteq Entries(manager'.denied)
      <3>1. CASE manager' = manager
        BY <1>0, <1>1, <2>1, <3>1 DEF Denied
      <3>2. CASE /\ loader.pc \in Validated
                 /\ manager'.on = TRUE => manager'.denied = config["denied_users"]
        <4>1. Reached(DenyPlace) /\ read # <<>>
          BY <1>8, <1>9, <3>2
        <4> QED
          BY <1>0, <1>1, <2>1, <3>2, <4>1 DEF Denied
      <3> QED
        BY <3>1, <3>2 DEF Moves
    <2>4. session'.user \in Users => manager'.on = TRUE
      <3>1. CASE manager' = manager
        BY <1>0, <1>1, <3>1 DEF Denied
      <3>2. CASE proc = "starting"
        <4>1. session.user = ""
          BY <1>1, <3>2 DEF Control
        <4> QED
          BY <1>0, <4>1, DaemonConfigConstants DEF DaemonConfigConstants
      <3> QED
        BY <3>1, <3>2 DEF Moves
    <2> QED
      BY <2>2, <2>3, <2>4 DEF Denied
  <1>15. NoLaxWindow' /\ DeniedStaysOut'
    BY <1>0, <1>3, SessionKept
  <1> QED
    BY <1>4, <1>5, <1>6, <1>10, <1>11, <1>12, <1>13, <1>14, <1>15 DEF IInv
----------------------------------------------------------------------------
\* Where each place is.

LEMMA OrderDomain == DOMAIN Order = 1..(18 + 5 * Len(ModuleNames))
  <1> DEFINE n == 2 * Len(GlobalOrder) + Len(ModuleOrder) * Len(ModuleNames)
  <1>1. DOMAIN Order = 1..n
    BY DEF Order
  <1>2. n = 2 * 9 + 5 * Len(ModuleNames)
    BY OrderLengths
  <1> HIDE DEF n
  <1>4. Len(ModuleNames) \in Nat
    BY NameFacts
  <1>3. n = 18 + 5 * Len(ModuleNames)
    BY <1>2, <1>4
  <1> QED
    BY <1>1, <1>3

LEMMA GlobalPlaceAt ==
    ASSUME NEW k \in 1..9
    PROVE  /\ k \in DOMAIN Order /\ Order[k] = <<"global", GlobalOrder[k]>>
           /\ k + 9 \in DOMAIN Order /\ Order[k + 9] = <<"own", GlobalOrder[k]>>
  <1>0. Len(ModuleNames) \in Nat
    BY NameFacts
  <1>1. k \in DOMAIN Order /\ k + 9 \in DOMAIN Order
    BY <1>0, OrderDomain
  <1>2. /\ ~(k \in 10..18) /\ ~(k + 9 \in 1..9) /\ (k + 9) - 9 = k
        /\ \A j \in 1..Len(ModuleNames), x \in 1..5 :
              k # 18 + 5 * (j - 1) + x /\ k + 9 # 18 + 5 * (j - 1) + x
    BY <1>0
  <1>3. Order[k] = <<"global", GlobalOrder[k]>>
    <2>1. \/ k \in 1..9 /\ Order[k] = <<"global", GlobalOrder[k]>>
          \/ k \in 10..18 /\ Order[k] = <<"own", GlobalOrder[k - 9]>>
          \/ \E j \in 1..Len(ModuleNames), x \in 1..5 :
                /\ k = 18 + 5 * (j - 1) + x
                /\ Order[k] = <<ModuleNames[j], ModuleOrder[x]>>
      BY <1>1, OrderAt, Zenon
    <2> QED
      BY <1>2, <2>1, Zenon
  <1>4. Order[k + 9] = <<"own", GlobalOrder[k]>>
    BY <1>1, <1>2, OrderAt
  <1> QED
    BY <1>1, <1>3, <1>4

LEMMA ModulePlaceAt ==
    ASSUME NEW j \in 1..Len(ModuleNames), NEW k \in 1..5
    PROVE  /\ 18 + 5 * (j - 1) + k \in DOMAIN Order
           /\ Order[18 + 5 * (j - 1) + k] = <<ModuleNames[j], ModuleOrder[k]>>
  <1> DEFINE i == 18 + 5 * (j - 1) + k
  <1>0. Len(ModuleNames) \in Nat
    BY NameFacts
  <1>1. i \in DOMAIN Order
    BY <1>0, OrderDomain
  <1>2. ~(i \in 1..9) /\ ~(i \in 10..18)
    BY <1>0
  <1>3. \A j2 \in 1..Len(ModuleNames), k2 \in 1..5 :
            i = 18 + 5 * (j2 - 1) + k2 => j2 = j /\ k2 = k
    BY <1>0
  <1> HIDE DEF i
  <1>4. Order[i] = <<ModuleNames[j], ModuleOrder[k]>>
    <2>1. \/ i \in 1..9 /\ Order[i] = <<"global", GlobalOrder[i]>>
          \/ i \in 10..18 /\ Order[i] = <<"own", GlobalOrder[i - 9]>>
          \/ \E j2 \in 1..Len(ModuleNames), k2 \in 1..5 :
                /\ i = 18 + 5 * (j2 - 1) + k2
                /\ Order[i] = <<ModuleNames[j2], ModuleOrder[k2]>>
      BY <1>1, OrderAt, Zenon
    <2>2. PICK j2 \in 1..Len(ModuleNames), k2 \in 1..5 :
                /\ i = 18 + 5 * (j2 - 1) + k2
                /\ Order[i] = <<ModuleNames[j2], ModuleOrder[k2]>>
      BY <1>2, <2>1, Zenon
    <2>3. j2 = j /\ k2 = k
      BY <1>3, <2>2
    <2> QED
      BY <2>2, <2>3
  <1> QED
    BY <1>1, <1>4 DEF i

LEMMA GlobalPlaces ==
    ASSUME NEW s \in {"global", "own"}, NEW key \in GlobalKeys
    PROVE  <<s, key>> \in Places
  <1>1. PICK k \in 1..9 : GlobalOrder[k] = key
    BY OrderLengths
  <1>2. k \in 1..9
    OBVIOUS
  <1> QED
    BY <1>1, <1>2, GlobalPlaceAt DEF Places

LEMMA ModulePlaces ==
    ASSUME NEW m \in Names, NEW key \in ModuleKeys
    PROVE  <<m, key>> \in Places
  <1>1. PICK k \in 1..5 : ModuleOrder[k] = key
    BY OrderLengths
  <1>2. PICK j \in 1..Len(ModuleNames) : ModuleNames[j] = m
    BY NameFacts DEF Names
  <1>3. /\ 18 + 5 * (j - 1) + k \in DOMAIN Order
        /\ Order[18 + 5 * (j - 1) + k] = <<m, key>>
    BY <1>1, <1>2, ModulePlaceAt
  <1> QED
    BY <1>3 DEF Places

\* Of a module's settings, by name.
LEMMA ModuleTypes ==
    ASSUME NEW c, Typed(c), NEW m \in Names
    PROVE  c["modules"][m]["path"] \in Paths \cup {""}
  <1> DEFINE p == <<m, "path">>
  <1>1. p \in Places
    BY ModulePlaces DEF ModuleKeys
  <1>2. p[1] = m /\ p[2] = "path"
    OBVIOUS
  <1> HIDE DEF p
  <1>3. Setting("path") = "path" /\ "path" \in Files
    BY DEF Setting, Files
  <1>4. Get(c, p) \in Kept("path")
    BY <1>1, <1>2, <1>3 DEF Typed
  <1>5. Kept("path") = Paths \cup {""}
    BY <1>3, ValueKinds DEF Kept
  <1> QED
    BY <1>2, <1>3, <1>4, <1>5 DEF Get
----------------------------------------------------------------------------
\* One lemma for each step of the loading thread that assigns no setting.

LEMMA ServedKept ==
    ASSUME ServedPaths, UNCHANGED served
    PROVE  ServedPaths'
  BY DEF ServedPaths

LEMMA FailMoves ==
    ASSUME IInv, Fail, UNCHANGED <<env, operator, config, session, read, manager, tls, reloads>>,
           isValid' \in BOOLEAN, ServedPaths',
           isValid' = TRUE =>
             isValid = TRUE \/ loader.pc = "validate" \/ (loader.pc = "parse" /\ Ahead = {})
    PROVE  Moves("idle")
  <1>1. /\ loader' = [loader EXCEPT !.pc = "idle"]
        /\ proc' = IF proc = "starting" THEN "failed" ELSE proc
    BY Zenon DEF Fail, Goto
  <1>2. /\ proc \in {"starting", "running", "failed", "terminated"}
        /\ reloads \in 0..MaxReloads
    BY DEF IInv, Types
  <1>3. "idle" \in LoaderPcs /\ "idle" \notin Validated /\ "idle" \notin Past
    BY DEF LoaderPcs, Validated, Past
  <1>4. proc' # "starting" /\ (proc' = "running" => proc = "running")
    BY <1>1
  <1> QED
    BY <1>1, <1>2, <1>3, <1>4 DEF Moves

LEMMA ParseDoneInv ==
    ASSUME IInv, ParseDone
    PROVE  IInv'
  <1>1. /\ loader.pc = "parse" /\ Ahead = {}
        /\ loader' = [loader EXCEPT !.pc = "validate"]
        /\ UNCHANGED <<env, operator, served, manager, tls, session, reloads, config,
                       isValid, proc, read>>
    BY Zenon DEF ParseDone, Goto, loadFrame
  <1>2. /\ isValid = FALSE /\ proc \in {"starting", "running"}
        /\ proc = "starting" => loader.pc # "open"
        /\ reloads \in 0..MaxReloads
    BY <1>1 DEF IInv, Control, Types
  <1>3. /\ "validate" \in LoaderPcs /\ "validate" \notin Validated /\ "validate" \in Past
    BY DEF LoaderPcs, Validated, Past
  <1>4. ServedPaths'
    BY <1>1, ServedKept DEF IInv
  <1>5. Moves("validate")
    BY <1>1, <1>2, <1>3, <1>4 DEF Moves
  <1> QED
    BY <1>5, MovesInv

LEMMA ValidateInv ==
    ASSUME IInv, Validate
    PROVE  IInv'
  <1>1. /\ loader.pc = "validate"
        /\ isValid' = Validates(config, disk)
        /\ UNCHANGED <<env, operator, served, manager, tls, session, reloads, config, read>>
    BY Zenon DEF Validate, loadFrame
  <1>2. Validates(config, disk) \in BOOLEAN
    BY Zenon DEF Validates
  <1>3. isValid' \in BOOLEAN
    BY <1>1, <1>2
  <1>4. ServedPaths'
    BY <1>1, ServedKept DEF IInv
  <1>5. CASE Validates(config, disk)
    <2>1. loader' = [loader EXCEPT !.pc = AfterLoad] /\ UNCHANGED proc
      BY <1>5, Zenon DEF Validate, Goto
    <2>2. isValid' = TRUE
      BY <1>1, <1>2, <1>5, Zenon
    <2>3. proc \in {"starting", "running"} /\ reloads \in 0..MaxReloads
      BY <1>1 DEF IInv, Control, Types
    <2>4. /\ AfterLoad \in {"main", "check"}
          /\ AfterLoad = "main" => proc = "starting"
      BY DEF AfterLoad
    <2>5. /\ {"main", "check"} \subseteq LoaderPcs \ {"parse", "idle", "open", "validate"}
          /\ "validate" \in Past
      BY DEF LoaderPcs, Past
    <2>6. Moves(AfterLoad)
      BY <1>1, <1>3, <1>4, <2>1, <2>2, <2>3, <2>4, <2>5 DEF Moves
    <2> QED
      BY <2>6, MovesInv
  <1>6. CASE ~Validates(config, disk)
    <2>1. Fail
      BY <1>6, Zenon DEF Validate
    <2>2. Moves("idle")
      BY <1>1, <1>3, <1>4, <2>1, FailMoves
    <2> QED
      BY <2>2, MovesInv
  <1> QED
    BY <1>5, <1>6

LEMMA MainValidatesInv ==
    ASSUME IInv, MainValidates
    PROVE  IInv'
  <1>1. /\ loader.pc = "main"
        /\ \/ loader' = [loader EXCEPT !.pc = "construct"] /\ UNCHANGED proc
           \/ Fail
        /\ UNCHANGED <<env, operator, config, isValid, session, read, reloads, served,
                       manager, tls>>
    BY Zenon DEF MainValidates, Goto, daemonFrame
  <1>2. /\ "main" \in Validated /\ "main" \in Past /\ "construct" \in LoaderPcs
    BY DEF LoaderPcs, Validated, Past
  <1>3. /\ isValid = TRUE /\ proc = "starting"
        /\ reloads \in 0..MaxReloads /\ isValid \in BOOLEAN
    BY <1>1, <1>2 DEF IInv, Control, Types
  <1>4. ServedPaths'
    BY <1>1, ServedKept DEF IInv
  <1>5. CASE loader' = [loader EXCEPT !.pc = "construct"] /\ UNCHANGED proc
    <2>1. Moves("construct")
      BY <1>1, <1>2, <1>3, <1>4, <1>5 DEF Moves
    <2> QED
      BY <2>1, MovesInv
  <1>6. CASE Fail
    <2>1. Moves("idle")
      BY <1>1, <1>3, <1>4, <1>6, FailMoves
    <2> QED
      BY <2>1, MovesInv
  <1> QED
    BY <1>1, <1>5, <1>6

LEMMA CheckInv ==
    ASSUME IInv, Check
    PROVE  IInv'
  <1>1. /\ loader.pc = "check"
        /\ \/ loader' = [loader EXCEPT !.pc = "modules"] /\ UNCHANGED proc
           \/ Fail
        /\ UNCHANGED <<env, operator, config, isValid, session, read, reloads, served,
                       manager, tls>>
    BY Zenon DEF Check, Goto, daemonFrame
  <1>2. /\ "check" \in Validated /\ "check" \in Past /\ "modules" \in LoaderPcs
    BY DEF LoaderPcs, Validated, Past
  <1>3. /\ isValid = TRUE /\ proc \in {"starting", "running"}
        /\ reloads \in 0..MaxReloads /\ isValid \in BOOLEAN
    BY <1>1, <1>2 DEF IInv, Control, Types
  <1>4. ServedPaths'
    BY <1>1, ServedKept DEF IInv
  <1>5. CASE loader' = [loader EXCEPT !.pc = "modules"] /\ UNCHANGED proc
    <2>1. Moves("modules")
      BY <1>1, <1>2, <1>3, <1>4, <1>5 DEF Moves
    <2> QED
      BY <2>1, MovesInv
  <1>6. CASE Fail
    <2>1. Moves("idle")
      BY <1>1, <1>3, <1>4, <1>6, FailMoves
    <2> QED
      BY <2>1, MovesInv
  <1> QED
    BY <1>1, <1>5, <1>6
\* Of the global settings, by name.
LEMMA GlobalTyped ==
    ASSUME NEW c, Typed(c), NEW key \in GlobalKeys
    PROVE  c[key] \in Kept(key)
  <1> DEFINE p == <<"own", key>>
  <1>1. p \in Places
    BY GlobalPlaces
  <1>2. p[1] = "own" /\ p[2] = key
    OBVIOUS
  <1> HIDE DEF p
  <1>3. "own" \notin Names
    BY NameFacts
  <1>4. Setting(key) = key
    BY DEF Setting, GlobalKeys
  <1> QED
    BY <1>1, <1>2, <1>3, <1>4 DEF Typed, Get

LEMMA GlobalTypes ==
    ASSUME NEW c, Typed(c)
    PROVE  /\ c["auth"] \in BOOLEAN /\ c["ssl"] \in BOOLEAN
           /\ c["method"] \in Words /\ c["denied_users"] \in Seq(Words)
  <1>1. /\ "auth" \in GlobalKeys /\ "ssl" \in GlobalKeys /\ "method" \in GlobalKeys
        /\ "denied_users" \in GlobalKeys
    BY DEF GlobalKeys
  <1>2. "auth" \in Flags /\ "ssl" \in Flags /\ "denied_users" \in Lists
    BY DEF Flags, Lists
  <1>3. /\ Kept("auth") = Values("auth") /\ Kept("ssl") = Values("ssl")
        /\ Kept("method") = Values("method") /\ Kept("denied_users") = Values("denied_users")
    BY DEF Kept
  <1>4. /\ Kept("auth") = BOOLEAN /\ Kept("ssl") = BOOLEAN /\ Kept("method") = Words
        /\ Kept("denied_users") = Seq(Words)
    BY <1>2, <1>3, ValueKinds
  <1> QED
    BY <1>1, <1>4, GlobalTyped

LEMMA ConstructInv ==
    ASSUME IInv, Construct
    PROVE  IInv'
  <1>1. /\ loader.pc = "construct"
        /\ loader' = [loader EXCEPT !.pc = "check"]
        /\ UNCHANGED <<env, operator, config, isValid, session, read, reloads, proc, served, tls>>
    BY Zenon DEF Construct, Goto, daemonFrame
  <1>2. /\ "construct" \in Validated /\ "construct" \in Past /\ "check" \in LoaderPcs
    BY DEF LoaderPcs, Validated, Past
  <1>3. /\ isValid = TRUE /\ proc = "starting"
        /\ reloads \in 0..MaxReloads /\ isValid \in BOOLEAN
    BY <1>1, <1>2 DEF IInv, Control, Types
  <1>4. ServedPaths'
    BY <1>1, ServedKept DEF IInv
  <1>5. manager' \in Managers /\ (manager'.on = TRUE => manager'.denied = config["denied_users"])
    <2>1. /\ config["auth"] \in BOOLEAN
          /\ config["method"] \in Words /\ config["denied_users"] \in Seq(Words)
      BY GlobalTypes DEF IInv, Settings
    <2>2. PICK yes : yes = TRUE
      BY Zenon
    <2>3. PICK no : no = FALSE
      BY Zenon
    <2>4. CASE config["auth"] = TRUE
      <3>1. manager' = [on |-> yes, method |-> config["method"], denied |-> config["denied_users"]]
        BY <2>2, <2>4, Zenon DEF Construct
      <3>2. yes \in BOOLEAN
        BY <2>2
      <3> QED
        BY <2>1, <3>1, <3>2 DEF Managers
    <2>5. CASE config["auth"] = FALSE
      <3>1. manager' = [on |-> no, method |-> "", denied |-> <<>>]
        BY <2>3, <2>5, Zenon DEF Construct, NoManager
      <3>2. no \in BOOLEAN /\ no # TRUE
        BY <2>3
      <3>3. "" \in Words
        BY ConfigurationConstants DEF ConfigurationConstants
      <3>4. <<>> \in Seq(Words)
        OBVIOUS
      <3>5. manager' \in Managers
        BY <3>1, <3>2, <3>3, <3>4 DEF Managers
      <3>6. manager'.on = no
        BY <3>1
      <3> QED
        BY <3>2, <3>5, <3>6, Zenon
    <2> QED
      BY <2>1, <2>4, <2>5, Zenon
  <1>6. Moves("check")
    BY <1>1, <1>2, <1>3, <1>4, <1>5 DEF Moves
  <1> QED
    BY <1>6, MovesInv

LEMMA LoadModulesInv ==
    ASSUME IInv, LoadModules
    PROVE  IInv'
  <1>1. /\ loader.pc = "modules"
        /\ \/ loader' = [loader EXCEPT !.pc = IF proc = "starting" THEN "sockets" ELSE "idle"]
              /\ UNCHANGED proc
           \/ Fail
        /\ UNCHANGED <<env, operator, config, isValid, session, read, reloads, manager, tls>>
    BY Zenon DEF LoadModules, Goto, daemonFrame
  <1>2. /\ "modules" \in Validated /\ "modules" \in Past
        /\ "sockets" \in LoaderPcs /\ "idle" \in LoaderPcs
        /\ "idle" \notin Validated /\ "idle" \notin Past
    BY DEF LoaderPcs, Validated, Past
  <1>3. /\ isValid = TRUE /\ proc \in {"starting", "running"}
        /\ reloads \in 0..MaxReloads /\ isValid \in BOOLEAN
    BY <1>1, <1>2 DEF IInv, Control, Types
  <1>4. ServedPaths'
    <2> SUFFICES ASSUME NEW m \in Names, served'[m].present PROVE served'[m].path \in Paths
      BY DEF ServedPaths
    <2>1. served' = [n \in Names |-> IF Loadable(n) THEN config.modules[n] ELSE NoModule]
      BY Zenon DEF LoadModules
    <2>2. CASE Loadable(m)
      <3>1. config["modules"][m]["path"] \in Paths \cup {""}
        BY ModuleTypes DEF IInv, Settings
      <3>2. config["modules"][m]["path"] # ""
        BY <2>2 DEF Loadable
      <3>3. served'[m] = config["modules"][m]
        BY <2>1, <2>2
      <3> QED
        BY <3>1, <3>2, <3>3
    <2>3. CASE ~Loadable(m)
      <3>1. served'[m] = NoModule
        BY <2>1, <2>3
      <3>2. NoModule.present = FALSE
        BY DEF NoModule
      <3> QED
        BY <3>1, <3>2, Zenon
    <2> QED
      BY <2>2, <2>3
  <1>5. CASE proc = "starting" /\ UNCHANGED proc /\ loader' = [loader EXCEPT !.pc = "sockets"]
    <2>1. Moves("sockets")
      BY <1>1, <1>2, <1>3, <1>4, <1>5 DEF Moves
    <2> QED
      BY <2>1, MovesInv
  <1>6. CASE proc # "starting" /\ UNCHANGED proc /\ loader' = [loader EXCEPT !.pc = "idle"]
    <2>1. Moves("idle")
      BY <1>1, <1>2, <1>3, <1>4, <1>6 DEF Moves
    <2> QED
      BY <2>1, MovesInv
  <1>7. CASE Fail
    <2>1. Moves("idle")
      BY <1>1, <1>3, <1>4, <1>7, FailMoves
    <2> QED
      BY <2>1, MovesInv
  <1> QED
    BY <1>1, <1>5, <1>6, <1>7

LEMMA StartThreadsInv ==
    ASSUME IInv, StartThreads
    PROVE  IInv'
  <1>1. /\ loader.pc = "sockets"
        /\ \/ tls' = config["ssl"] /\ proc' = "running" /\ loader' = [loader EXCEPT !.pc = "idle"]
           \/ Fail /\ UNCHANGED tls
        /\ UNCHANGED <<env, operator, config, isValid, session, read, reloads, served, manager>>
    BY Zenon DEF StartThreads, Goto, daemonFrame
  <1>2. /\ "sockets" \in Validated /\ "sockets" \in Past /\ "idle" \in LoaderPcs
        /\ "idle" \notin Validated
    BY DEF LoaderPcs, Validated, Past
  <1>3. /\ isValid = TRUE /\ reloads \in 0..MaxReloads /\ isValid \in BOOLEAN
    BY <1>1, <1>2 DEF IInv, Control, Types
  <1>4. ServedPaths'
    BY <1>1, ServedKept DEF IInv
  <1>5. CASE tls' = config["ssl"] /\ proc' = "running" /\ loader' = [loader EXCEPT !.pc = "idle"]
    <2>1. Moves("idle")
      BY <1>1, <1>2, <1>3, <1>4, <1>5 DEF Moves
    <2> QED
      BY <2>1, MovesInv
  <1>6. CASE Fail /\ UNCHANGED tls
    <2>1. Moves("idle")
      BY <1>1, <1>3, <1>4, <1>6, FailMoves
    <2> QED
      BY <2>1, MovesInv
  <1> QED
    BY <1>1, <1>5, <1>6

LEMMA ReloadConfigInv ==
    ASSUME IInv, ReloadConfig
    PROVE  IInv'
  <1>1. /\ proc = "running" /\ reloads < MaxReloads /\ reloads' = reloads + 1
        /\ loader' = [loader EXCEPT !.pc = "open"]
        /\ UNCHANGED <<env, operator, config, isValid, proc, served, manager, tls, session, read>>
    BY Zenon DEF ReloadConfig, Goto
  <1>2. reloads \in 0..MaxReloads /\ isValid \in BOOLEAN
    BY DEF IInv, Types
  <1>3. reloads' \in 0..MaxReloads
    <2>1. MaxReloads \in Nat
      BY DaemonConfigConstants DEF DaemonConfigConstants
    <2> QED
      BY <1>1, <1>2, <2>1
  <1>4. "open" \in LoaderPcs /\ "open" \notin Validated
    BY DEF LoaderPcs, Validated
  <1>5. ServedPaths'
    BY <1>1, ServedKept DEF IInv
  <1>6. Moves("open")
    BY <1>1, <1>2, <1>3, <1>4, <1>5 DEF Moves
  <1> QED
    BY <1>6, MovesInv
----------------------------------------------------------------------------
\* A document is opened.

LEMMA OpenedInv ==
    ASSUME IInv, NEW d \in Docs,
           loader.pc = "open", isValid' = FALSE,
           loader' = [pc |-> "parse", doc |-> d, at |-> 0], read' = Append(read, d),
           UNCHANGED <<env, operator, served, manager, tls, session, reloads, config, proc>>
    PROVE  IInv'
  <1>0. UNCHANGED <<format, access, file, disk, edits>>
    BY Zenon DEF env, operator
  <1>1. /\ Types /\ Settings /\ ServedPaths /\ Control /\ Untouched /\ Strict /\ Denied
    BY DEF IInv
  <1>2. loader'.pc = "parse" /\ loader'.doc = d /\ loader'.at = 0
    OBVIOUS
  <1>3. Docs' = Docs
    BY <1>0 DEF Docs
  <1>4. /\ Everything' = Everything \cup {d}
        /\ read' # <<>> /\ read'[Len(read')] = d /\ Len(read') = Len(read) + 1
        /\ read # <<>> => read'[1] = read[1]
        /\ read = <<>> => read'[1] = d
    BY <1>1, EverythingGrows DEF Types
  <1>5. proc \in {"starting", "running"} /\ (proc = "starting" => read = <<>>)
        /\ (proc = "running" => read # <<>>)
    BY <1>1 DEF Control
  <1>6. Types'
    <2>1. loader' \in Loaders'
      <3>1. 0 \in 0..Len(Order)
        BY OrderLength
      <3>2. "parse" \in LoaderPcs
        BY DEF LoaderPcs
      <3> QED
        BY <1>3, <3>1, <3>2 DEF Loaders
    <2>2. read' \in Seq(Docs)
      BY <1>1, AppendProperties DEF Types
    <2> QED
      BY <1>0, <1>1, <1>3, <2>1, <2>2 DEF Types
  <1>7. Settings'
    BY <1>1, SettingsKept
  <1>8. ServedPaths'
    BY <1>1, ServedKept
  <1>9. Control'
    <2>1. /\ "parse" \notin Validated
      BY DEF Validated
    <2>2. proc = "starting" => Len(read') = 1 /\ session.user = ""
      <3>1. proc = "starting" => session.user = ""
        BY <1>1 DEF Control
      <3>2. read = <<>> => Len(read') = 1
        BY <1>4
      <3> QED
        BY <1>5, <3>1, <3>2
    <2> QED
      BY <1>2, <1>4, <1>5, <2>1, <2>2 DEF Control
  <1>10. Untouched'
    BY <1>0, <1>1, <1>4, UntouchedKept
  <1>11. Progress'
    <2>1. Through(0)'
      BY DEF Through
    <2> QED
      BY <1>2, <2>1 DEF Progress
  \* What the document mentions is all ahead.
  <1>12. ASSUME NEW p, Mentions(format, d, p)
         PROVE  \E i \in Ahead' : Order[i] = p
    <2>1. p \in Places
      BY <1>1, <1>12, MentionedIsPlace DEF Types
    <2>2. PICK i \in 1..Len(Order) : Order[i] = p
      BY <2>1, OrderLength DEF Places
    <2>3. i \in Ahead'
      BY <1>0, <1>2, <1>12, <2>2, OrderLength DEF Ahead
    <2> QED
      BY <2>2, <2>3
  <1>13. ASSUME NEW p, Mentions(format, d, p), Reached(p)'
         PROVE  proc = "running"
    <2>1. "parse" \notin Past
      BY DEF Past, Validated
    <2> QED
      BY <1>2, <1>12, <1>13, <2>1 DEF Reached
  <1>14. Strict'
    <2>1. \A e : /\ TurnsOn(e, "auth")' <=> TurnsOn(e, "auth")
                 /\ TurnsOn(e, "ssl")' <=> TurnsOn(e, "ssl")
      BY <1>0, MentionsKept
    <2>2. ASSUME NEW key \in {"auth", "ssl"}, Reached(Switch(key))',
                 \A e \in Everything' : TurnsOn(e, key)'
          PROVE  config'[key] = TRUE
      <3>1. \A e \in Everything : TurnsOn(e, key)
        BY <1>4, <2>1, <2>2
      <3>2. TurnsOn(d, key)
        BY <1>4, <2>1, <2>2
      <3>3. Mentions(format, d, Switch(key))
        BY <1>1, <3>2, SwitchFacts DEF Assigns, Types
      <3>4. Switch(key)' = Switch(key)
        BY <1>0 DEF Switch
      <3>5. proc = "running"
        BY <1>13, <2>2, <3>3, <3>4
      <3>6. config[key] = TRUE
        BY <1>1, <3>1, <3>5 DEF Strict, Reached
      <3> QED
        BY <3>6
    <2>3. ASSUME proc' = "running", \A e \in Everything' : TurnsOn(e, "ssl")'
          PROVE  tls' = TRUE
      <3>1. \A e \in Everything : TurnsOn(e, "ssl")
        BY <1>4, <2>1, <2>3
      <3> QED
        BY <1>1, <2>3, <3>1 DEF Strict
    <2> QED
      BY <2>2, <2>3 DEF Strict
  <1>15. Denied'
    <2>1. \A e : DeniedBy(e)' = DeniedBy(e)
      BY <1>0 DEF DeniedBy
    <2>2. read # <<>> => DeniedBy(read[1])' = DeniedBy(read[1])
      BY <1>0, <1>4 DEF DeniedBy
    <2>3. ASSUME Reached(DenyPlace)'
          PROVE  DeniedBy(read[1])' \subseteq Entries(config'["denied_users"])
      <3>1. CASE proc = "running"
        <4>1. Reached(DenyPlace) /\ read # <<>>
          BY <1>5, <3>1 DEF Reached
        <4> QED
          BY <1>1, <2>2, <4>1 DEF Denied
      <3>2. CASE proc = "starting"
        <4>1. ~Mentions(format, d, DenyPlace)
          BY <1>13, <2>3, <3>2 DEF DenyPlace
        <4>2. read'[1] = d
          BY <1>4, <1>5, <3>2
        <4>3. DeniedBy(read[1])' = {}
          BY <1>0, <4>1, <4>2 DEF DeniedBy, DenyPlace, Assigns
        <4> QED
          BY <4>3
      <3> QED
        BY <1>5, <3>1, <3>2
    <2>4. ASSUME manager'.on = TRUE
          PROVE  read' # <<>> /\ DeniedBy(read[1])' \subseteq Entries(manager'.denied)
      <3>1. read # <<>> /\ DeniedBy(read[1]) \subseteq Entries(manager.denied)
        BY <1>1, <2>4 DEF Denied
      <3> QED
        BY <1>4, <2>2, <3>1
    <2>5. session'.user \in Users => manager'.on = TRUE
      BY <1>1 DEF Denied
    <2> QED
      BY <2>3, <2>4, <2>5 DEF Denied
  <1>16. NoLaxWindow' /\ DeniedStaysOut'
    BY <1>0, <1>4, SessionKept
  <1> QED
    BY <1>6, <1>7, <1>8, <1>9, <1>10, <1>11, <1>14, <1>15, <1>16 DEF IInv

LEMMA OpenFileInv ==
    ASSUME IInv, OpenFile
    PROVE  IInv'
  <1> DEFINE d == IF file.kind = "good" THEN file.doc ELSE EmptyDocument
  <1>1. /\ loader.pc = "open" /\ isValid' = FALSE
        /\ \/ /\ loader' = [pc |-> "parse", doc |-> d, at |-> 0] /\ read' = Append(read, d)
              /\ UNCHANGED proc
           \/ Fail /\ UNCHANGED read
        /\ UNCHANGED <<env, operator, served, manager, tls, session, reloads, config>>
    BY Zenon DEF OpenFile, loadFrame
  <1>2. d \in Docs
    BY DEF IInv, Types, Docs
  <1> HIDE DEF d
  <1>3. CASE /\ loader' = [pc |-> "parse", doc |-> d, at |-> 0] /\ read' = Append(read, d)
             /\ UNCHANGED proc
    BY <1>1, <1>2, <1>3, OpenedInv
  <1>4. CASE Fail /\ UNCHANGED read
    <2>1. ServedPaths'
      BY <1>1, ServedKept DEF IInv
    <2>2. Moves("idle")
      BY <1>1, <1>4, <2>1, FailMoves
    <2> QED
      BY <2>2, MovesInv
  <1> QED
    BY <1>1, <1>3, <1>4
----------------------------------------------------------------------------
\* One place of the document is read.

LEMMA StepReached ==
    ASSUME Types, loader.pc = "parse", Ahead # {}, UNCHANGED <<format, proc>>,
           loader'.pc = "parse", loader'.doc = loader.doc, loader'.at = NextPlace,
           NEW q, Reached(q)'
    PROVE  Reached(q) \/ q = Order[NextPlace]
  <1>1. /\ \A j \in Ahead : NextPlace <= j
        /\ NextPlace \in 1..Len(Order)
    BY NextPlaceFacts
  <1>2. \A j \in Ahead : j \in Int /\ j <= Len(Order) /\ Mentions(format, loader.doc, Order[j])
    BY OrderLength DEF Ahead, Types, Loaders
  <1>3. \A j \in Ahead : j # NextPlace => j \in Ahead'
    <2> SUFFICES ASSUME NEW j \in Ahead, j # NextPlace PROVE j \in Ahead'
      OBVIOUS
    <2>1. j \in (NextPlace + 1)..Len(Order)
      BY <1>1, <1>2, OrderLength
    <2> QED
      BY <1>2, <2>1 DEF Ahead
  <1>4. "parse" \notin Past
    BY DEF Past, Validated
  <1> QED
    BY <1>3, <1>4 DEF Reached

\* Among the places of a switch, a format reads one.
LEMMA ReadsSwitch ==
    ASSUME format \in Formats, NEW key \in {"auth", "ssl"}, NEW p \in Places,
           Reads(format, p), Same(p, Switch(key))
    PROVE  p = Switch(key)
  <1> DEFINE s == IF format = "ini" THEN "global" ELSE "own"
  <1>1. Switch(key) = <<s, key>> /\ Switch(key)[1] = s /\ Switch(key)[2] = key
    BY DEF Switch
  <1>2. s \notin Names /\ "own" \notin Names /\ "global" \notin Names
    BY NameFacts
  <1>3. p[1] \notin Names
    BY <1>1, <1>2 DEF Same
  <1>4. p = <<p[1], p[2]>> /\ p[1] \in {"global", "own"} /\ Setting(p[2]) = p[2]
    BY <1>3, PlaceKinds, SettingKinds
  <1>5. Setting(key) = key /\ key \notin Numbers
    BY DEF Setting, Numbers
  <1>6. p[2] = key
    BY <1>1, <1>4, <1>5 DEF Same
  <1> HIDE DEF s
  <1>7. p[1] = s
    <2>1. CASE format = "ini"
      BY <1>2, <1>3, <1>4, <2>1 DEF Reads, IniReads, s
    <2>2. CASE format = "json"
      BY <1>3, <1>4, <1>5, <1>6, <2>2 DEF Reads, JsonReads, s
    <2>3. CASE format = "yaml"
      BY <1>3, <1>4, <1>5, <1>6, <2>3 DEF Reads, YamlReads, s
    <2> QED
      BY <2>1, <2>2, <2>3 DEF Formats
  <1> QED
    BY <1>1, <1>4, <1>6, <1>7

LEMMA SwitchPlace ==
    ASSUME NEW key \in {"auth", "ssl"}, NEW c
    PROVE  /\ Switch(key) \in Places /\ Switch(key)[2] = key
           /\ Get(c, Switch(key)) = c[key]
  <1> DEFINE s == IF format = "ini" THEN "global" ELSE "own"
  <1>1. Switch(key) = <<s, key>> /\ Switch(key)[1] = s /\ Switch(key)[2] = key
    BY DEF Switch
  <1>2. s \in {"global", "own"} /\ s \notin Names
    BY NameFacts
  <1>3. key \in GlobalKeys /\ Setting(key) = key
    BY DEF GlobalKeys, Setting
  <1> HIDE DEF s
  <1>4. <<s, key>> \in Places
    BY <1>2, <1>3, GlobalPlaces
  <1> QED
    BY <1>1, <1>2, <1>3, <1>4 DEF Get

LEMMA DenyPlaceFacts ==
    ASSUME NEW c
    PROVE  /\ DenyPlace \in Places /\ DenyPlace[1] = "own" /\ DenyPlace[2] = "denied_users"
           /\ Get(c, DenyPlace) = c["denied_users"]
           /\ Setting("denied_users") = "denied_users"
           /\ "denied_users" \in Lists /\ "denied_users" \notin Flags
  <1>1. DenyPlace[1] = "own" /\ DenyPlace[2] = "denied_users"
    BY DEF DenyPlace
  <1>2. "own" \notin Names
    BY NameFacts
  <1>3. "denied_users" \in GlobalKeys /\ Setting("denied_users") = "denied_users"
    BY DEF GlobalKeys, Setting
  <1>4. DenyPlace \in Places
    BY <1>3, GlobalPlaces DEF DenyPlace
  <1>5. "denied_users" \in Lists /\ "denied_users" \notin Flags
    BY DEF Lists, Flags
  <1> QED
    BY <1>1, <1>2, <1>3, <1>4, <1>5 DEF Get

LEMMA EntriesGrow ==
    ASSUME NEW S, NEW s \in Seq(S), NEW t \in Seq(S)
    PROVE  Entries(s \o t) = Entries(s) \cup Entries(t)
  <1>1. /\ s \o t \in Seq(S) /\ Len(s \o t) = Len(s) + Len(t)
        /\ \A i \in 1..Len(s) + Len(t) : (s \o t)[i] = IF i <= Len(s) THEN s[i] ELSE t[i - Len(s)]
    BY ConcatProperties
  <1>2. /\ DOMAIN s = 1..Len(s) /\ DOMAIN t = 1..Len(t) /\ DOMAIN (s \o t) = 1..Len(s) + Len(t)
        /\ Len(s) \in Nat /\ Len(t) \in Nat
    BY <1>1, LenProperties
  <1>3. ASSUME NEW x \in Entries(s \o t) PROVE x \in Entries(s) \cup Entries(t)
    <2>1. PICK i \in 1..Len(s) + Len(t) : x = (s \o t)[i]
      BY <1>2 DEF Entries
    <2>2. CASE i <= Len(s)
      BY <1>1, <1>2, <2>1, <2>2 DEF Entries
    <2>3. CASE i > Len(s)
      <3>1. i - Len(s) \in 1..Len(t)
        BY <1>2, <2>3
      <3>2. x = t[i - Len(s)]
        BY <1>1, <1>2, <2>1, <2>3
      <3> QED
        BY <1>2, <3>1, <3>2 DEF Entries
    <2> QED
      BY <1>2, <2>2, <2>3
  <1>4. ASSUME NEW x \in Entries(s) PROVE x \in Entries(s \o t)
    <2>1. PICK i \in 1..Len(s) : x = s[i]
      BY <1>2 DEF Entries
    <2>2. i \in 1..Len(s) + Len(t) /\ i <= Len(s)
      BY <1>2
    <2>3. x = (s \o t)[i]
      BY <1>1, <2>1, <2>2
    <2> QED
      BY <1>2, <2>2, <2>3 DEF Entries
  <1>5. ASSUME NEW x \in Entries(t) PROVE x \in Entries(s \o t)
    <2>1. PICK i \in 1..Len(t) : x = t[i]
      BY <1>2 DEF Entries
    <2>2. i + Len(s) \in 1..Len(s) + Len(t) /\ ~(i + Len(s) <= Len(s)) /\ (i + Len(s)) - Len(s) = i
      BY <1>2
    <2>3. x = (s \o t)[i + Len(s)]
      BY <1>1, <2>1, <2>2
    <2> QED
      BY <1>2, <2>2, <2>3 DEF Entries
  <1> QED
    BY <1>3, <1>4, <1>5
\* A place's own setting has the place's value.
LEMMA ApplyOwn ==
    ASSUME NEW c, Shaped(c), NEW p \in Places, NEW v, p[2] \notin Lists
    PROVE  Get(Apply(c, p, v), p) = Plain(p, v)
  <1>1. Same(p, p)
    BY DEF Same
  <1>2. Get(Apply(c, p, v), p) = Converted(Setting(p[2]), Get(c, p), v)
    BY <1>1, ApplyGet
  <1>3. p[2] \in GlobalKeys \cup ModuleKeys
    BY PlaceKey
  <1>4. /\ Setting(p[2]) = "bind_port" <=> p[2] = "bind_port"
        /\ Setting(p[2]) \notin Lists
    BY <1>3, SettingFacts
  <1> QED
    BY <1>2, <1>4 DEF Converted, Plain

\* Places after the one just read change what was read before only where they say so.
LEMMA ThroughStep ==
    ASSUME Types, Settings, Ahead # {}, Through(loader.at), UNCHANGED format,
           loader'.doc = loader.doc, loader'.at = NextPlace,
           IF Assigns(format, loader.doc, Order[NextPlace])
           THEN config' = Apply(config, Order[NextPlace], Assigned(loader.doc, Order[NextPlace]))
           ELSE config' = config
    PROVE  Through(loader.at)'
  <1> DEFINE n == NextPlace
             p == Order[n]
             d == loader.doc
             v == Assigned(d, p)
  <1>1. /\ n \in 1..Len(Order) /\ n > loader.at /\ p \in Places
        /\ \A j \in Ahead : n <= j
    BY NextPlaceFacts
  <1>2. Len(Order) \in Nat /\ DOMAIN Order = 1..Len(Order) /\ loader.at \in 0..Len(Order)
    BY OrderLength DEF Types, Loaders
  <1>3. Shaped(config)
    BY DEF Settings
  <1>4. \A i \in Ahead : i >= n
    BY <1>1, <1>2 DEF Ahead
  <1>5. ASSUME NEW i \in 1..n, Assigns(format, d, Order[i])
        PROVE  i \in 1..loader.at \/ i = n
    <2>1. CASE i > loader.at
      <3>1. i \in (loader.at + 1)..Len(Order)
        BY <1>1, <1>2, <2>1
      <3>2. i \in Ahead
        BY <1>5, <3>1 DEF Ahead, Assigns
      <3>3. i >= n
        BY <1>4, <3>2
      <3> QED
        BY <1>1, <3>3
    <2>2. CASE i <= loader.at
      BY <1>2, <2>2
    <2> QED
      BY <1>1, <1>2, <2>1, <2>2
  <1>6. \A i \in 1..n : Order[i] \in Places
    BY <1>1, <1>2 DEF Places
  <1> HIDE DEF n, p, d, v
  <1>7. ASSUME NEW i \in 1..n, Assigns(format, d, Order[i]), Order[i][1] \in Names
        PROVE  config'["modules"][Order[i][1]]["present"] = TRUE
    <2> DEFINE m == Order[i][1]
    <2>1. CASE ~Assigns(format, d, p)
      <3>1. i \in 1..loader.at
        BY <1>5, <1>7, <2>1 DEF p
      <3>2. config["modules"][m]["present"] = TRUE
        BY <1>7, <3>1 DEF Through, d
      <3>3. config' = config
        BY <2>1 DEF d, p, n
      <3> QED
        BY <3>2, <3>3, Zenon
    <2>2. CASE Assigns(format, d, p)
      <3>1. config' = Apply(config, p, v)
        BY <2>2 DEF d, p, n, v
      <3>2. CASE m = p[1]
        <4>1. Apply(config, p, v)["modules"][m]["present"] = TRUE
          BY <1>1, <1>3, <1>7, <3>2, ApplyPresent, Zenon DEF p
        <4> QED
          BY <3>1, <4>1, Zenon
      <3>3. CASE m # p[1]
        <4>1. Apply(config, p, v)["modules"][m]["present"] = config["modules"][m]["present"]
          BY <1>1, <1>3, <1>7, <3>3, ApplyPresent, Zenon DEF p
        <4>2. i \in 1..loader.at
          BY <1>5, <1>7, <3>3 DEF p
        <4>3. config["modules"][m]["present"] = TRUE
          BY <1>7, <4>2 DEF Through, d
        <4> QED
          BY <3>1, <4>1, <4>3, Zenon
      <3> QED
        BY <3>2, <3>3
    <2> QED
      BY <2>1, <2>2
  <1>8. ASSUME NEW i \in 1..n, Assigns(format, d, Order[i]), Order[i][2] \notin Lists
        PROVE  \/ Get(config', Order[i]) = Plain(Order[i], Assigned(d, Order[i]))
               \/ \E j \in (i + 1)..n : Assigns(format, d, Order[j]) /\ Same(Order[j], Order[i])
    <2>1. CASE i = n
      <3>1. config' = Apply(config, p, v)
        BY <1>8, <2>1 DEF d, p, n, v
      <3>2. Get(config', p) = Plain(p, v)
        BY <1>1, <1>3, <1>8, <2>1, <3>1, ApplyOwn DEF p
      <3> QED
        BY <2>1, <3>2 DEF p, v
    <2>2. CASE i \in 1..loader.at
      <3>1. \/ Get(config, Order[i]) = Plain(Order[i], Assigned(d, Order[i]))
            \/ \E j \in (i + 1)..loader.at :
                  Assigns(format, d, Order[j]) /\ Same(Order[j], Order[i])
        BY <1>8, <2>2 DEF Through, d
      <3>2. (i + 1)..loader.at \subseteq (i + 1)..n /\ n \in (i + 1)..n
        BY <1>1, <1>2, <2>2
      <3>3. CASE \E j \in (i + 1)..loader.at :
                  Assigns(format, d, Order[j]) /\ Same(Order[j], Order[i])
        BY <3>2, <3>3, Zenon
      <3>4. CASE Get(config, Order[i]) = Plain(Order[i], Assigned(d, Order[i]))
        <4>1. CASE ~Assigns(format, d, p)
          BY <3>4, <4>1 DEF d, p, n
        <4>2. CASE Assigns(format, d, p) /\ Same(p, Order[i])
          BY <3>2, <4>2, Zenon DEF p
        <4>3. CASE Assigns(format, d, p) /\ ~Same(p, Order[i])
          <5>1. config' = Apply(config, p, v)
            BY <4>3 DEF d, p, n, v
          <5>2. Get(Apply(config, p, v), Order[i]) = Get(config, Order[i])
            BY <1>1, <1>3, <1>6, <4>3, ApplyGet DEF p
          <5> QED
            BY <3>4, <5>1, <5>2
        <4> QED
          BY <4>1, <4>2, <4>3
      <3> QED
        BY <3>1, <3>3, <3>4
    <2> QED
      BY <1>5, <1>8, <2>1, <2>2
  <1>9. loader'.doc = d /\ loader'.at = n
    BY DEF d, n
  <1> QED
    <2> SUFFICES ASSUME NEW i \in 1..n, Assigns(format, d, Order[i])
                 PROVE
            /\ Order[i][1] \in Names => config'["modules"][Order[i][1]]["present"] = TRUE
            /\ Order[i][2] \notin Lists =>
                  \/ Get(config', Order[i]) = Plain(Order[i], Assigned(d, Order[i]))
                  \/ \E j \in (i + 1)..n : /\ Assigns(format, d, Order[j])
                                           /\ Same(Order[j], Order[i])
      BY <1>9 DEF Through
    <2> QED
      BY <1>7, <1>8, Zenon
\* The load in progress reads one of the documents; at start-up, the first.
LEMMA CurrentDocument ==
    ASSUME Types, Control, loader.pc = "parse"
    PROVE  /\ read # <<>> /\ loader.doc \in Everything
           /\ proc = "starting" => loader.doc = read[1]
           /\ proc \in {"starting", "running"}
  <1>1. read # <<>> /\ loader.doc = read[Len(read)] /\ proc \in {"starting", "running"}
    BY DEF Control
  <1>2. read \in Seq(Docs)
    BY DEF Types
  <1>3. Len(read) \in DOMAIN read
    BY <1>1, <1>2, EmptySeq, LenProperties
  <1>4. proc = "starting" => Len(read) = 1
    BY DEF Control
  <1> QED
    BY <1>1, <1>3, <1>4 DEF Everything

LEMMA ParseInv ==
    ASSUME IInv, Parse
    PROVE  IInv'
  <1> DEFINE p == Order[NextPlace]
             d == loader.doc
             v == Assigned(d, p)
  <1>1. /\ loader.pc = "parse" /\ Ahead # {}
        /\ loader' = [loader EXCEPT !.at = NextPlace]
        /\ config' = IF Assigns(format, d, p) THEN Apply(config, p, v) ELSE config
        /\ UNCHANGED <<env, operator, served, manager, tls, session, reloads, isValid, proc, read>>
    BY Zenon DEF Parse, loadFrame
  <1>2. UNCHANGED <<format, access, file, disk, edits>>
    BY <1>1, Zenon DEF env, operator
  <1>3. /\ Types /\ Settings /\ ServedPaths /\ Control /\ Untouched /\ Progress /\ Strict /\ Denied
    BY DEF IInv
  <1>4. /\ NextPlace \in 1..Len(Order) /\ p \in Places /\ Mentions(format, d, p)
    BY <1>1, <1>3, NextPlaceFacts
  <1>5. loader'.pc = "parse" /\ loader'.doc = d /\ loader'.at = NextPlace
    BY <1>1, <1>3 DEF Types, Loaders
  <1>6. /\ read # <<>> /\ d \in Everything
        /\ proc = "starting" => d = read[1]
        /\ proc \in {"starting", "running"}
    BY <1>1, <1>3, CurrentDocument
  <1>7. format \in Formats /\ d \in Docs /\ Docs' = Docs /\ Everything' = Everything
    BY <1>2, <1>1, <1>3 DEF Types, Loaders, Docs, Everything
  <1>8. Shaped(config) /\ Typed(config)
    BY <1>3 DEF Settings
  <1>9. Assigns(format, d, p) => v \in Values(p[2])
    BY <1>7, AssignedTyped
  <1>10. \A q : Reached(q)' => Reached(q) \/ q = p
    BY <1>1, <1>2, <1>3, <1>5, StepReached
  <1>11. Types'
    <2>1. loader' \in Loaders
      <3>1. NextPlace \in 0..Len(Order)
        BY <1>4, OrderLength
      <3>2. loader \in Loaders
        BY <1>3 DEF Types
      <3> QED
        BY <1>1, <3>1, <3>2 DEF Loaders
    <2>2. Loaders' = Loaders
      BY <1>7 DEF Loaders
    <2> QED
      BY <1>1, <1>2, <1>3, <1>7, <2>1, <2>2 DEF Types
  <1>12. Settings'
    <2>1. CASE Assigns(format, d, p)
      <3>1. Shaped(Apply(config, p, v)) /\ Typed(Apply(config, p, v))
        BY <1>4, <1>8, <1>9, <2>1, ApplyShaped, ApplyTyped
      <3>2. config' = Apply(config, p, v)
        BY <1>1, <2>1
      <3> QED
        BY <3>1, <3>2 DEF Settings
    <2>2. CASE ~Assigns(format, d, p)
      BY <1>1, <1>3, <2>2, SettingsKept
    <2> QED
      BY <2>1, <2>2
  <1>13. ServedPaths'
    BY <1>1, <1>3, ServedKept
  <1>14. Control'
    BY <1>1, <1>3, <1>5 DEF Control
  <1>15. Untouched'
    <2>1. Touched' = Touched /\ p \in Touched
      <3>1. \A e : MentionedPlaces(e)' = MentionedPlaces(e)
        BY <1>2 DEF MentionedPlaces
      <3>2. p \in MentionedPlaces(d)
        BY <1>4 DEF MentionedPlaces
      <3> QED
        BY <1>6, <1>7, <3>1, <3>2 DEF Touched
    <2>2. CASE ~Assigns(format, d, p)
      BY <1>1, <1>3, <2>1, <2>2 DEF Untouched
    <2>3. CASE Assigns(format, d, p)
      <3>0. config' = Apply(config, p, v)
        BY <1>1, <2>3
      <3>1. ASSUME NEW q \in Places, \A r \in Touched : ~Same(r, q)
            PROVE  Get(config', q) = Get(Defaults, q)
        <4>1. Get(Apply(config, p, v), q) = Get(config, q)
          BY <1>4, <1>8, <2>1, <3>1, ApplyGet
        <4>2. Get(config, q) = Get(Defaults, q)
          BY <1>3, <3>1 DEF Untouched
        <4> QED
          BY <3>0, <4>1, <4>2
      <3>2. ASSUME NEW m \in Names, \A r \in Touched : r[1] # m
            PROVE  config'["modules"][m]["present"] = FALSE
        <4>1. Apply(config, p, v)["modules"][m]["present"] = config["modules"][m]["present"]
          BY <1>4, <1>8, <2>1, <3>2, ApplyPresent, Zenon
        <4>2. config["modules"][m]["present"] = FALSE
          BY <1>3, <3>2, Zenon DEF Untouched
        <4> QED
          BY <3>0, <4>1, <4>2, Zenon
      <3> QED
        BY <2>1, <3>1, <3>2, Zenon DEF Untouched
    <2> QED
      BY <2>2, <2>3
  <1>16. Progress'
    <2>1. Through(loader.at)'
      BY <1>1, <1>2, <1>3, <1>5, ThroughStep DEF Progress
    <2>2. isValid' # TRUE
      BY <1>1, <1>3 DEF Control
    <2> QED
      BY <1>5, <2>1, <2>2 DEF Progress
  <1>17. Strict'
    <2>1. \A e : /\ TurnsOn(e, "auth")' <=> TurnsOn(e, "auth")
                 /\ TurnsOn(e, "ssl")' <=> TurnsOn(e, "ssl")
      BY <1>2, MentionsKept
    <2>2. ASSUME NEW key \in {"auth", "ssl"}, Reached(Switch(key))',
                 \A e \in Everything' : TurnsOn(e, key)'
          PROVE  config'[key] = TRUE
      <3>1. \A e \in Everything : TurnsOn(e, key)
        BY <1>7, <2>1, <2>2
      <3>2. Assigns(format, d, Switch(key)) /\ Assigned(d, Switch(key)) = TRUE
        BY <1>6, <1>7, <3>1, SwitchFacts
      <3>3. Switch(key)' = Switch(key)
        BY <1>2 DEF Switch
      <3>4. Reached(Switch(key)) \/ p = Switch(key)
        BY <1>10, <2>2, <3>3
      <3>5. /\ Switch(key) \in Places /\ Switch(key)[2] = key
            /\ \A c : Get(c, Switch(key)) = c[key]
        BY SwitchPlace
      <3>6. CASE p = Switch(key)
        <4>1. config' = Apply(config, p, v)
          BY <1>1, <3>2, <3>6
        <4>2. key \notin Lists /\ key # "bind_port"
          BY DEF Lists
        <4>3. Get(Apply(config, p, v), p) = Plain(p, v)
          BY <1>4, <1>8, <3>5, <3>6, <4>2, ApplyOwn
        <4>4. Plain(p, v) = v
          BY <3>5, <3>6, <4>2 DEF Plain
        <4>5. config'[key] = v
          BY <3>5, <3>6, <4>1, <4>3, <4>4
        <4>6. v = TRUE
          BY <3>2, <3>6, Zenon
        <4> QED
          BY <4>5, <4>6, Zenon
      <3>7. CASE p # Switch(key)
        <4>1. config[key] = TRUE
          BY <1>3, <3>1, <3>4, <3>7, Zenon DEF Strict
        <4>2. ~Same(p, Switch(key))
          BY <1>4, <1>7, <3>7, ReadsSwitch DEF Mentions
        <4>3. CASE Assigns(format, d, p)
          <5>1. Get(Apply(config, p, v), Switch(key)) = Get(config, Switch(key))
            BY <1>4, <1>8, <3>5, <4>2, ApplyGet
          <5>2. config' = Apply(config, p, v)
            BY <1>1, <4>3
          <5>3. config'[key] = config[key]
            BY <3>5, <5>1, <5>2
          <5> QED
            BY <4>1, <5>3, Zenon
        <4>4. CASE ~Assigns(format, d, p)
          <5>1. config' = config
            BY <1>1, <4>4
          <5> QED
            BY <4>1, <5>1, Zenon
        <4> QED
          BY <4>3, <4>4
      <3> QED
        BY <3>6, <3>7
    <2>3. ASSUME proc' = "running", \A e \in Everything' : TurnsOn(e, "ssl")'
          PROVE  tls' = TRUE
      <3>1. \A e \in Everything : TurnsOn(e, "ssl")
        BY <1>7, <2>1, <2>3
      <3> QED
        BY <1>1, <1>3, <2>3, <3>1 DEF Strict
    <2> QED
      BY <2>2, <2>3 DEF Strict
  <1>18. Denied'
    <2>1. \A e : DeniedBy(e)' = DeniedBy(e)
      BY <1>2 DEF DeniedBy
    <2>2. DeniedBy(read[1])' = DeniedBy(read[1])
      BY <1>1, <1>2 DEF DeniedBy
    <2>3. /\ DenyPlace \in Places /\ DenyPlace[1] = "own" /\ DenyPlace[2] = "denied_users"
          /\ \A c : Get(c, DenyPlace) = c["denied_users"]
          /\ Setting("denied_users") = "denied_users"
          /\ "denied_users" \in Lists /\ "denied_users" \notin Flags
      BY DenyPlaceFacts
    <2>4. CASE Assigns(format, d, p) /\ Same(p, DenyPlace)
      <3>1. config' = Apply(config, p, v)
        BY <1>1, <2>4
      <3>2. Setting(p[2]) = "denied_users"
        BY <2>3, <2>4 DEF Same
      <3>3. config'["denied_users"] = config["denied_users"] \o v
        <4>1. Get(Apply(config, p, v), DenyPlace) =
                  Converted(Setting(p[2]), Get(config, DenyPlace), v)
          BY <1>4, <1>8, <2>3, <2>4, ApplyGet
        <4>2. Get(Apply(config, p, v), DenyPlace) =
                  Converted("denied_users", config["denied_users"], v)
          BY <2>3, <3>2, <4>1
        <4>3. "denied_users" # "bind_port"
          OBVIOUS
        <4> QED
          BY <2>3, <3>1, <4>2, <4>3 DEF Converted
      <3>4. v \in Seq(Words) /\ config["denied_users"] \in Seq(Words)
        <4>1. p[2] \in GlobalKeys \cup ModuleKeys
          BY <1>4, PlaceKey
        <4>2. p[2] \in Lists
          BY <2>3, <3>2, <4>1, SettingFacts
        <4> QED
          BY <1>8, <1>9, <2>4, <4>2, ValueKinds, GlobalTypes
      <3>5. Entries(config'["denied_users"]) = Entries(config["denied_users"]) \cup Entries(v)
        BY <3>3, <3>4, EntriesGrow
      <3>6. ASSUME Reached(DenyPlace)
            PROVE  DeniedBy(read[1])' \subseteq Entries(config'["denied_users"])
        BY <1>3, <2>2, <3>5, <3>6 DEF Denied
      <3>7. ASSUME ~Reached(DenyPlace), p = DenyPlace
            PROVE  DeniedBy(read[1])' \subseteq Entries(config'["denied_users"])
        <4>1. d = read[1]
          BY <1>6, <3>7 DEF Reached
        <4>2. p \notin d.bad
          BY <2>3, <2>4, <3>7 DEF Assigns
        <4>3. v = d.says[DenyPlace]
          BY <3>7, <4>2 DEF Assigned
        <4>4. DeniedBy(d) = {d.says[DenyPlace][i] : i \in DOMAIN d.says[DenyPlace]}
          BY <2>4, <3>7, Zenon DEF DeniedBy, DenyPlace
        <4>5. DeniedBy(d) = Entries(v)
          BY <4>3, <4>4, Zenon DEF Entries
        <4> QED
          BY <2>2, <3>5, <4>1, <4>5
      <3>8. Reached(DenyPlace)' => Reached(DenyPlace) \/ p = DenyPlace
        BY <1>10 DEF DenyPlace
      <3>9. Reached(DenyPlace)' => DeniedBy(read[1])' \subseteq Entries(config'["denied_users"])
        BY <3>6, <3>7, <3>8
      <3> QED
        BY <1>1, <1>3, <2>2, <3>9 DEF Denied
    <2>5. CASE ~(Assigns(format, d, p) /\ Same(p, DenyPlace))
      <3>1. config'["denied_users"] = config["denied_users"]
        <4>1. CASE Assigns(format, d, p)
          <5>1. config' = Apply(config, p, v)
            BY <1>1, <4>1
          <5>2. Get(Apply(config, p, v), DenyPlace) = Get(config, DenyPlace)
            BY <1>4, <1>8, <2>3, <2>5, <4>1, ApplyGet
          <5> QED
            BY <2>3, <5>1, <5>2
        <4>2. CASE ~Assigns(format, d, p)
          BY <1>1, <4>2
        <4> QED
          BY <4>1, <4>2
      <3>2. ASSUME Reached(DenyPlace)'
            PROVE  DeniedBy(read[1])' \subseteq Entries(config'["denied_users"])
        <4>1. CASE Reached(DenyPlace)
          BY <1>3, <2>2, <3>1, <4>1 DEF Denied
        <4>2. CASE ~Reached(DenyPlace)
          <5>1. p = DenyPlace
            BY <1>10, <3>2, <4>2 DEF DenyPlace
          <5>2. ~Assigns(format, d, DenyPlace)
            BY <2>5, <5>1 DEF Same
          <5>3. d = read[1]
            BY <1>6, <4>2 DEF Reached
          <5>4. DeniedBy(d) = {}
            BY <5>2, Zenon DEF DeniedBy, DenyPlace
          <5> QED
            BY <2>2, <5>3, <5>4
        <4> QED
          BY <4>1, <4>2
      <3> QED
        BY <1>1, <1>3, <2>2, <3>2 DEF Denied
    <2> QED
      BY <2>4, <2>5
  <1>19. NoLaxWindow' /\ DeniedStaysOut'
    BY <1>1, <1>2, <1>7, SessionKept
  <1> QED
    BY <1>11, <1>12, <1>13, <1>14, <1>15, <1>16, <1>17, <1>18, <1>19 DEF IInv
\* A value that cannot be read: the module's section was entered, and no more.
LEMMA ParseThrowsInv ==
    ASSUME IInv, ParseThrows
    PROVE  IInv'
  <1> DEFINE p == Order[NextPlace]
             d == loader.doc
  <1>1. /\ loader.pc = "parse" /\ Ahead # {}
        /\ loader' = [loader EXCEPT !.pc = "idle"]
        /\ proc' \in {"failed", "terminated"} \/ (proc' = proc /\ proc # "starting")
        /\ config' = Enter(config, p[1])
        /\ UNCHANGED <<env, operator, served, manager, tls, session, reloads, isValid, read>>
    BY DEF ParseThrows, Fail, Goto, loadFrame
  <1>2. UNCHANGED <<format, access, file, disk, edits>>
    BY <1>1, Zenon DEF env, operator
  <1>3. /\ Types /\ Settings /\ ServedPaths /\ Control /\ Untouched /\ Strict /\ Denied
    BY DEF IInv
  <1>4. p \in Places /\ Mentions(format, d, p)
    BY <1>1, <1>3, NextPlaceFacts
  <1>5. loader'.pc = "idle" /\ loader'.doc = d
    BY <1>1, <1>3 DEF Types, Loaders
  <1>6. read # <<>> /\ d \in Everything
    BY <1>1, <1>3, CurrentDocument
  <1>7. Docs' = Docs /\ Everything' = Everything
    BY <1>1, <1>2 DEF Docs, Everything
  <1>8. Shaped(config) /\ Typed(config)
    BY <1>3 DEF Settings
  <1>9. Shaped(config') /\ Typed(config')
    BY <1>1, <1>8, EnterKeeps, EnterTyped
  <1>10. \A x \in GlobalKeys : config'[x] = config[x]
    BY <1>1, <1>8, EnterKeeps
  <1>11. Types'
    <2>1. loader' \in Loaders
      BY <1>1, <1>3 DEF Loaders, LoaderPcs, Types
    <2>2. Loaders' = Loaders
      BY <1>7 DEF Loaders
    <2> QED
      BY <1>1, <1>2, <1>3, <1>7, <2>1, <2>2 DEF Types
  <1>12. Settings'
    BY <1>9 DEF Settings
  <1>13. ServedPaths'
    BY <1>1, <1>3, ServedKept
  <1>14. isValid' = FALSE
    BY <1>1, <1>3 DEF Control
  <1>15. Control'
    <2>1. "idle" \notin Validated
      BY DEF Validated
    <2>2. proc' # "starting"
      BY <1>1
    <2> QED
      BY <1>1, <1>5, <1>6, <1>14, <2>1, <2>2 DEF Control
  <1>16. Untouched'
    <2>1. Touched' = Touched /\ p \in Touched
      <3>1. \A e : MentionedPlaces(e)' = MentionedPlaces(e)
        BY <1>2 DEF MentionedPlaces
      <3>2. p \in MentionedPlaces(d)
        BY <1>4 DEF MentionedPlaces
      <3> QED
        BY <1>6, <1>7, <3>1, <3>2 DEF Touched
    <2>2. ASSUME NEW q \in Places, \A r \in Touched : ~Same(r, q)
          PROVE  Get(config', q) = Get(Defaults, q)
      <3>1. Get(Enter(config, p[1]), q) = Get(config, q)
        BY <1>8, EnterGet
      <3>2. Get(config, q) = Get(Defaults, q)
        BY <1>3, <2>2 DEF Untouched
      <3> QED
        BY <1>1, <3>1, <3>2
    <2>3. ASSUME NEW m \in Names, \A r \in Touched : r[1] # m
          PROVE  config'["modules"][m]["present"] = FALSE
      <3>1. Enter(config, p[1])["modules"][m]["present"] = config["modules"][m]["present"]
        BY <1>8, <2>1, <2>3, EnterKeeps
      <3>2. config["modules"][m]["present"] = FALSE
        BY <1>3, <2>3, Zenon DEF Untouched
      <3> QED
        BY <1>1, <3>1, <3>2, Zenon
    <2> QED
      BY <2>1, <2>2, <2>3, Zenon DEF Untouched
  <1>17. Progress'
    BY <1>5, <1>14 DEF Progress
  <1>18. \A q : Reached(q)' => proc = "running" /\ proc' = "running" /\ Reached(q)
    <2>1. "idle" \notin Past
      BY DEF Past, Validated
    <2> QED
      BY <1>1, <1>5, <2>1 DEF Reached
  <1>19. Strict'
    <2>1. \A e : /\ TurnsOn(e, "auth")' <=> TurnsOn(e, "auth")
                 /\ TurnsOn(e, "ssl")' <=> TurnsOn(e, "ssl")
      BY <1>2, MentionsKept
    <2>2. ASSUME NEW key \in {"auth", "ssl"}, Reached(Switch(key))',
                 \A e \in Everything' : TurnsOn(e, key)'
          PROVE  config'[key] = TRUE
      <3>1. \A e \in Everything : TurnsOn(e, key)
        BY <1>7, <2>1, <2>2
      <3>2. proc = "running"
        BY <1>18, <2>2
      <3>3. config[key] = TRUE
        BY <1>3, <3>1, <3>2 DEF Strict, Reached
      <3>4. config'[key] = config[key]
        BY <1>10 DEF GlobalKeys
      <3> QED
        BY <3>3, <3>4, Zenon
    <2>3. ASSUME proc' = "running", \A e \in Everything' : TurnsOn(e, "ssl")'
          PROVE  tls' = TRUE
      <3>1. \A e \in Everything : TurnsOn(e, "ssl")
        BY <1>7, <2>1, <2>3
      <3> QED
        BY <1>1, <1>3, <2>3, <3>1 DEF Strict
    <2> QED
      BY <2>2, <2>3 DEF Strict
  <1>20. Denied'
    <2>1. DeniedBy(read[1])' = DeniedBy(read[1])
      BY <1>1, <1>2 DEF DeniedBy
    <2>2. config'["denied_users"] = config["denied_users"]
      BY <1>10 DEF GlobalKeys
    <2>3. Reached(DenyPlace)' => Reached(DenyPlace)
      BY <1>18 DEF DenyPlace
    <2> QED
      BY <1>1, <1>3, <2>1, <2>2, <2>3 DEF Denied
  <1>21. NoLaxWindow' /\ DeniedStaysOut'
    BY <1>1, <1>2, <1>7, SessionKept
  <1> QED
    BY <1>11, <1>12, <1>13, <1>15, <1>16, <1>17, <1>19, <1>20, <1>21 DEF IInv
----------------------------------------------------------------------------
\* Steps of others: the operator, and the session.

LEMMA OthersInv ==
    ASSUME IInv,
           UNCHANGED <<env, config, isValid, proc, loader, served, manager, tls, read, reloads>>,
           file'.kind \in FileKinds /\ file'.doc \in Docs,
           disk' \in [Paths -> {"none", "file", "dir"}],
           edits' \in 0..MaxEdits,
           session' \in Sessions,
           proc = "starting" => session' = session,
           session'.user \in Users => manager.on = TRUE,
           NoLaxWindow', DeniedStaysOut'
    PROVE  IInv'
  <1>1. UNCHANGED <<format, access>>
    BY Zenon DEF env
  <1>2. /\ Types /\ Settings /\ ServedPaths /\ Control /\ Untouched /\ Progress /\ Strict /\ Denied
    BY DEF IInv
  <1>3. Docs' = Docs /\ Everything' = Everything /\ Ahead' = Ahead
    BY <1>1 DEF Docs, Everything, Ahead
  <1>4. Types'
    <2>1. Loaders' = Loaders
      BY <1>3 DEF Loaders
    <2> QED
      BY <1>1, <1>2, <1>3, <2>1 DEF Types
  <1>5. Settings' /\ ServedPaths'
    BY <1>2, SettingsKept, ServedKept
  <1>6. Control'
    BY <1>2 DEF Control
  <1>7. Untouched'
    BY <1>1, <1>2, <1>3, UntouchedKept
  <1>8. Progress'
    BY <1>1, <1>2 DEF Progress, Through
  <1>9. \A q : Reached(q)' <=> Reached(q)
    BY <1>3 DEF Reached
  <1>10. Strict'
    <2>1. \A key \in {"auth", "ssl"} : Reached(Switch(key))' => Reached(Switch(key))
      BY <1>1, <1>9 DEF Switch
    <2> QED
      BY <1>1, <1>2, <1>3, <2>1, StrictKept DEF Strict
  <1>11. Denied'
    <2>1. DeniedBy(read[1])' = DeniedBy(read[1])
      BY <1>1 DEF DeniedBy
    <2>2. Reached(DenyPlace)' => Reached(DenyPlace)
      BY <1>9 DEF DenyPlace
    <2> QED
      BY <1>2, <2>1, <2>2 DEF Denied
  <1> QED
    BY <1>4, <1>5, <1>6, <1>7, <1>8, <1>10, <1>11 DEF IInv

LEMMA OperatorInv ==
    ASSUME IInv,
           UNCHANGED <<env, config, isValid, proc, loader, served, manager, tls, session, read,
                       reloads>>,
           file'.kind \in FileKinds /\ file'.doc \in Docs,
           disk' \in [Paths -> {"none", "file", "dir"}],
           edits < MaxEdits, edits' = edits + 1
    PROVE  IInv'
  <1>1. UNCHANGED format
    BY Zenon DEF env
  <1>2. edits' \in 0..MaxEdits
    <2>1. MaxEdits \in Nat
      BY DaemonConfigConstants DEF DaemonConfigConstants
    <2>2. edits \in 0..MaxEdits
      BY DEF IInv, Types
    <2> QED
      BY <2>1, <2>2
  <1>3. session' \in Sessions /\ (session'.user \in Users => manager.on = TRUE)
    BY DEF IInv, Types, Denied
  <1>4. NoLaxWindow' /\ DeniedStaysOut'
    BY <1>1, SessionKept DEF Everything
  <1> QED
    BY <1>2, <1>3, <1>4, OthersInv

LEMMA WriteFileInv ==
    ASSUME IInv, NEW new, WriteFile(new), new.kind \in FileKinds, new.doc \in Docs
    PROVE  IInv'
  <1>1. disk' \in [Paths -> {"none", "file", "dir"}]
    BY DEF WriteFile, IInv, Types
  <1> QED
    BY <1>1, OperatorInv DEF WriteFile

LEMMA DisturbInv ==
    ASSUME IInv, NEW path \in Paths, NEW kind \in {"none", "file", "dir"}, Disturb(path, kind)
    PROVE  IInv'
  <1>1. /\ disk' \in [Paths -> {"none", "file", "dir"}]
        /\ file'.kind \in FileKinds /\ file'.doc \in Docs
    BY DEF Disturb, IInv, Types
  <1> QED
    BY <1>1, OperatorInv DEF Disturb

LEMMA SessionInv ==
    ASSUME IInv, UNCHANGED sessionFrame, proc = "running", session' \in Sessions,
           session'.user \in Users => manager.on = TRUE, NoLaxWindow', DeniedStaysOut'
    PROVE  IInv'
  <1>1. UNCHANGED <<env, file, disk, edits, config, isValid, proc, loader, served, manager, tls,
                    read, reloads>>
    BY Zenon DEF sessionFrame, operator
  <1>2. /\ file'.kind \in FileKinds /\ file'.doc \in Docs
        /\ disk' \in [Paths -> {"none", "file", "dir"}] /\ edits' \in 0..MaxEdits
    BY <1>1 DEF IInv, Types
  <1> QED
    BY <1>1, <1>2, OthersInv

\* In a running daemon, whoever is served without TLS or let in unnamed was so by some
\* document's leave.
LEMMA Switches ==
    ASSUME IInv, proc = "running"
    PROVE  /\ ~(config["auth"] = TRUE) => \E d \in Everything : ~TurnsOn(d, "auth")
           /\ ~(config["ssl"] = TRUE /\ tls = TRUE) => \E d \in Everything : ~TurnsOn(d, "ssl")
  <1>1. Strict
    BY DEF IInv
  <1>2. Reached(Switch("auth")) /\ Reached(Switch("ssl"))
    BY DEF Reached
  <1> QED
    BY <1>1, <1>2 DEF Strict

LEMMA AcceptInv ==
    ASSUME IInv, NEW client, Accept(client)
    PROVE  IInv'
  <1>1. /\ proc = "running" /\ UNCHANGED sessionFrame
        /\ session' = [open |-> TRUE, tls |-> config["ssl"] /\ tls, user |-> ""]
    BY Zenon DEF Accept
  <1>2. UNCHANGED <<format, read>>
    BY <1>1, Zenon DEF sessionFrame, env
  <1>3. PICK yes : yes = TRUE
    BY Zenon
  <1>4. PICK secure \in BOOLEAN : secure = (config["ssl"] /\ tls)
    BY Zenon
  <1>5. session' = [open |-> yes, tls |-> secure, user |-> ""]
    BY <1>1, <1>3, <1>4, Zenon
  <1>6. session'.tls = secure /\ session'.user = "" /\ session' \in Sessions
    BY <1>3, <1>5 DEF Sessions
  <1>7. "" \notin Users
    BY DaemonConfigConstants DEF DaemonConfigConstants
  <1>8. \A e : TurnsOn(e, "ssl")' <=> TurnsOn(e, "ssl")
    BY <1>2, MentionsKept
  <1>9. Everything' = Everything
    BY <1>2 DEF Everything
  <1>10. NoLaxWindow'
    <2>1. session'.user # "anonymous"
      BY <1>6
    <2>2. ASSUME ~session'.tls PROVE \E e \in Everything' : ~TurnsOn(e, "ssl")'
      <3>1. ~(config["ssl"] /\ tls)
        BY <1>4, <1>6, <2>2
      <3>2. ~(config["ssl"] = TRUE /\ tls = TRUE)
        BY <3>1, Zenon
      <3>3. \E e \in Everything : ~TurnsOn(e, "ssl")
        BY <1>1, <3>2, Switches
      <3> QED
        BY <1>8, <1>9, <3>3
    <2> QED
      BY <2>1, <2>2 DEF NoLaxWindow
  <1>11. DeniedStaysOut'
    BY <1>6, <1>7 DEF DeniedStaysOut
  <1> QED
    BY <1>1, <1>6, <1>7, <1>10, <1>11, SessionInv

LEMMA EndSessionInv ==
    ASSUME IInv, EndSession
    PROVE  IInv'
  <1>1. /\ proc = "running" /\ UNCHANGED sessionFrame
        /\ session' = NoSession
    BY Zenon DEF EndSession
  <1>2. PICK no : no = FALSE
    BY Zenon
  <1>3. session' = [open |-> no, tls |-> no, user |-> ""]
    BY <1>1, <1>2, Zenon DEF NoSession
  <1>4. no \in BOOLEAN
    BY <1>2
  <1>5. session'.open = no /\ session'.user = "" /\ session' \in Sessions
    BY <1>3, <1>4 DEF Sessions
  <1>6. "" \notin Users
    BY DaemonConfigConstants DEF DaemonConfigConstants
  <1>7. NoLaxWindow'
    BY <1>2, <1>5 DEF NoLaxWindow
  <1>8. DeniedStaysOut'
    BY <1>5, <1>6 DEF DeniedStaysOut
  <1> QED
    BY <1>1, <1>5, <1>6, <1>7, <1>8, SessionInv

LEMMA AuthMessageInv ==
    ASSUME IInv, NEW user \in Users, AuthMessage(user)
    PROVE  IInv'
  <1> DEFINE u == IF ~config["auth"] THEN "anonymous"
                  ELSE IF Authenticates(user) THEN user ELSE session.user
  <1>1. /\ proc = "running" /\ UNCHANGED sessionFrame
        /\ session' = [session EXCEPT !.user = u]
    BY Zenon DEF AuthMessage
  <1>2. UNCHANGED <<format, read>>
    BY <1>1, Zenon DEF sessionFrame, env
  <1>3. Types /\ Denied /\ NoLaxWindow /\ DeniedStaysOut /\ session \in Sessions
    BY DEF IInv, Types
  <1>4. u \in Users \cup {"", "anonymous"}
    BY <1>3 DEF Sessions
  <1>5. \/ ~config["auth"] /\ u = "anonymous"
        \/ Authenticates(user) /\ u = user
        \/ u = session.user
    BY Zenon
  <1> HIDE DEF u
  <1>6. /\ session' \in Sessions /\ session'.user = u
        /\ session'.open = session.open /\ session'.tls = session.tls
    BY <1>1, <1>3, <1>4 DEF Sessions
  <1>7. "anonymous" \notin Users
    BY DaemonConfigConstants DEF DaemonConfigConstants
  <1>8. \A e : /\ TurnsOn(e, "auth")' <=> TurnsOn(e, "auth")
               /\ TurnsOn(e, "ssl")' <=> TurnsOn(e, "ssl")
    BY <1>2, MentionsKept
  <1>9. Everything' = Everything
    BY <1>2 DEF Everything
  <1>10. NoLaxWindow'
    <2>1. ASSUME u = "anonymous"
          PROVE  \E e \in Everything : ~TurnsOn(e, "auth")
      <3>1. CASE ~config["auth"]
        <4>1. ~(config["auth"] = TRUE)
          BY <3>1, Zenon
        <4> QED
          BY <1>1, <4>1, Switches
      <3>2. CASE u = session.user
        BY <1>3, <2>1, <3>2 DEF NoLaxWindow
      <3> QED
        BY <1>5, <1>7, <2>1, <3>1, <3>2
    <2> QED
      BY <1>3, <1>6, <1>8, <1>9, <2>1 DEF NoLaxWindow
  <1>11. DeniedBy(read[1])' = DeniedBy(read[1])
    BY <1>2 DEF DeniedBy
  <1>12. ASSUME u \in Users
         PROVE  manager.on = TRUE /\ u \notin DeniedBy(read[1])
    <2>1. CASE u = session.user
      BY <1>3, <1>12, <2>1 DEF Denied, DeniedStaysOut
    <2>2. CASE Authenticates(user) /\ u = user
      <3>0. manager.on \in BOOLEAN
        BY <1>3 DEF Types, Managers
      <3>1. manager.on /\ ~IsDenied(user)
        BY <2>2, Zenon DEF Authenticates
      <3>2. manager.on = TRUE
        BY <3>0, <3>1
      <3>3. user \notin Entries(manager.denied)
        BY <3>1 DEF IsDenied, Entries
      <3>4. DeniedBy(read[1]) \subseteq Entries(manager.denied)
        BY <1>3, <3>2 DEF Denied
      <3> QED
        BY <2>2, <3>2, <3>3, <3>4
    <2> QED
      BY <1>5, <1>7, <1>12, <2>1, <2>2
  <1>13. DeniedStaysOut'
    BY <1>6, <1>11, <1>12 DEF DeniedStaysOut
  <1> QED
    BY <1>1, <1>6, <1>10, <1>12, <1>13, SessionInv

LEMMA StutterInv ==
    ASSUME IInv, UNCHANGED vars
    PROVE  IInv'
  <1>1. UNCHANGED <<env, file, disk, edits, config, isValid, proc, loader, served, manager, tls,
                    session, read, reloads>>
    BY Zenon DEF vars, operator
  <1>2. UNCHANGED format
    BY <1>1, Zenon DEF env
  <1>3. /\ file'.kind \in FileKinds /\ file'.doc \in Docs
        /\ disk' \in [Paths -> {"none", "file", "dir"}] /\ edits' \in 0..MaxEdits
        /\ session' \in Sessions /\ (session'.user \in Users => manager.on = TRUE)
    BY <1>1 DEF IInv, Types, Denied
  <1>4. NoLaxWindow' /\ DeniedStaysOut'
    BY <1>1, <1>2, SessionKept DEF Everything
  <1> QED
    BY <1>1, <1>3, <1>4, OthersInv

LEMMA NextInv ==
    ASSUME IInv, [Next]_vars
    PROVE  IInv'
  <1>1. ASSUME NEW d \in Documents[format], WriteFile(File("good", d)) PROVE IInv'
    <2>1. File("good", d).kind = "good" /\ File("good", d).doc = d
      BY DEF File
    <2>2. "good" \in FileKinds /\ d \in Docs
      BY DEF FileKinds, Docs
    <2> QED
      BY <1>1, <2>1, <2>2, WriteFileInv
  <1>2. ASSUME NEW k \in {"missing", "garbled"}, WriteFile(File(k, EmptyDocument)) PROVE IInv'
    <2>1. File(k, EmptyDocument).kind = k /\ File(k, EmptyDocument).doc = EmptyDocument
      BY DEF File
    <2>2. k \in FileKinds /\ EmptyDocument \in Docs
      BY DEF FileKinds, Docs
    <2> QED
      BY <1>2, <2>1, <2>2, WriteFileInv
  <1>3. ASSUME NEW p \in Paths, NEW k \in {"none", "file", "dir"}, Disturb(p, k) PROVE IInv'
    BY <1>3, DisturbInv
  <1>4. CASE OpenFile
    BY <1>4, OpenFileInv
  <1>5. CASE Parse
    BY <1>5, ParseInv
  <1>6. CASE ParseThrows
    BY <1>6, ParseThrowsInv
  <1>7. CASE ParseDone
    BY <1>7, ParseDoneInv
  <1>8. CASE Validate
    BY <1>8, ValidateInv
  <1>9. CASE MainValidates
    BY <1>9, MainValidatesInv
  <1>10. CASE Construct
    BY <1>10, ConstructInv
  <1>11. CASE Check
    BY <1>11, CheckInv
  <1>12. CASE LoadModules
    BY <1>12, LoadModulesInv
  <1>13. CASE StartThreads
    BY <1>13, StartThreadsInv
  <1>14. CASE ReloadConfig
    BY <1>14, ReloadConfigInv
  <1>15. ASSUME NEW a \in Addresses, Accept(a) PROVE IInv'
    BY <1>15, AcceptInv
  <1>16. CASE EndSession
    BY <1>16, EndSessionInv
  <1>17. ASSUME NEW u \in Users, AuthMessage(u) PROVE IInv'
    BY <1>17, AuthMessageInv
  <1>18. CASE UNCHANGED vars
    BY <1>18, StutterInv
  <1> QED
    BY <1>1, <1>2, <1>3, <1>4, <1>5, <1>6, <1>7, <1>8, <1>9, <1>10, <1>11, <1>12, <1>13,
       <1>14, <1>15, <1>16, <1>17, <1>18, Zenon DEF Next
----------------------------------------------------------------------------
\* The invariant and what follows from it.

\* The settings, what the load has been through and the copies of the settings fit
\* together, from start-up on and through every reload.
THEOREM DaemonConfigInvariant == Spec => []IInv
  <1>1. Init => IInv
    BY InitInv
  <1>2. IInv /\ [Next]_vars => IInv'
    BY NextInv
  <1> QED
    BY <1>1, <1>2, PTL DEF Spec

LEMMA InvTypes ==
    ASSUME IInv
    PROVE  TypeOK
  <1>1. Types /\ Settings /\ ServedPaths
    BY DEF IInv
  <1>2. config.bind_port \in 0..(PortModulus - 1)
    <2>1. "bind_port" \in GlobalKeys
      BY DEF GlobalKeys
    <2>2. config["bind_port"] \in Kept("bind_port")
      BY <1>1, <2>1, GlobalTyped DEF Settings
    <2> QED
      BY <2>2 DEF Kept
  <1>3. DOMAIN config.modules = Names
    <2>1. config["modules"] = [m \in Names |-> config["modules"][m]]
      BY <1>1, Zenon DEF Settings, Shaped
    <2> HIDE DEF Settings
    <2>2. DOMAIN [m \in Names |-> config["modules"][m]] = Names
      OBVIOUS
    <2> QED
      BY <2>1, <2>2, Zenon
  <1>4. loader.pc \in LoaderPcs /\ loader.at \in 0..Len(Order)
    BY <1>1 DEF Types, Loaders
  <1> QED
    BY <1>1, <1>2, <1>3, <1>4 DEF TypeOK, Types, ServedPaths, Managers, Sessions, Docs

\* Types: a port fits into 16 bits whatever a document says, and a module that is served
\* has a path.
THEOREM DaemonConfigTypeCorrect == Spec => []TypeOK
  <1>1. IInv => TypeOK
    BY InvTypes
  <1> QED
    BY <1>1, DaemonConfigInvariant, PTL

\* No moment of a reload is looser than every document: nobody becomes anonymous where
\* all documents read turn authentication on, nobody is served without TLS where all turn
\* it on.
THEOREM NoLaxWindowOpens == Spec => []NoLaxWindow
  <1>1. IInv => NoLaxWindow
    BY DEF IInv
  <1> QED
    BY <1>1, DaemonConfigInvariant, PTL

\* Whom the document of the start denies stays out, through every reload.
THEOREM DeniedDoesStayOut == Spec => []DeniedStaysOut
  <1>1. IInv => DeniedStaysOut
    BY DEF IInv
  <1> QED
    BY <1>1, DaemonConfigInvariant, PTL

\* Only LoadModules replaces the modules.
LEMMA ServedStep ==
    ASSUME [Next]_vars, served' # served
    PROVE  LoadModules
  <1>1. ~UNCHANGED vars
    BY Zenon DEF vars
  <1>2. ~OpenFile /\ ~Parse /\ ~ParseThrows /\ ~ParseDone /\ ~Validate
    BY Zenon DEF OpenFile, Parse, ParseThrows, ParseDone, Validate, loadFrame
  <1>3. ~MainValidates /\ ~Construct /\ ~Check /\ ~StartThreads /\ ~ReloadConfig
    BY Zenon DEF MainValidates, Construct, Check, StartThreads, ReloadConfig
  <1>4. ~EndSession /\ (\A a : ~Accept(a)) /\ (\A u : ~AuthMessage(u))
    BY Zenon DEF EndSession, Accept, AuthMessage, sessionFrame
  <1>5. (\A f : ~WriteFile(f)) /\ (\A p, k : ~Disturb(p, k))
    BY Zenon DEF WriteFile, Disturb
  <1> QED
    BY <1>1, <1>2, <1>3, <1>4, <1>5, Zenon DEF Next

\* Modules are replaced only from a configuration that was loaded to its end and found
\* valid.
THEOREM OnlyValidDoesReplace == Spec => OnlyValidReplaces
  <1>1. ASSUME IInv, [Next]_vars
        PROVE  [served' # served => isValid]_vars
    <2> SUFFICES ASSUME served' # served PROVE isValid
      OBVIOUS
    <2>1. loader.pc = "modules"
      BY <1>1, ServedStep, Zenon DEF LoadModules
    <2>2. "modules" \in Validated
      BY DEF Validated
    <2> QED
      BY <1>1, <2>1, <2>2 DEF IInv, Control
  <1> QED
    BY <1>1, DaemonConfigInvariant, PTL DEF Spec, OnlyValidReplaces
----------------------------------------------------------------------------
\* A reload is as good as a restart.

LEMMA GreatestNumber ==
    ASSUME NEW N \in Nat, NEW T, T \subseteq 1..N, T # {}
    PROVE  \E n \in T : \A m \in T : m <= n
  <1> DEFINE U == {N - t : t \in T}
  <1>0. \A t \in T : t \in Nat /\ t <= N /\ N - t \in Nat
    OBVIOUS
  <1>1. U \subseteq Nat /\ U # {}
    BY <1>0
  <1>2. PICK u \in U : \A w \in U : u <= w
    BY <1>1, LeastNumber
  <1>3. PICK n \in T : u = N - n
    OBVIOUS
  <1>4. ASSUME NEW m \in T PROVE m <= n
    <2>1. N - n <= N - m
      BY <1>2, <1>3
    <2> QED
      BY <2>1
  <1> QED
    BY <1>4

LEMMA SameGet ==
    ASSUME NEW c, NEW p, NEW q, Same(p, q)
    PROVE  Get(c, p) = Get(c, q)
  BY DEF Same, Get

\* A setting that the file assigns somewhere is as the last of these places has it; one
\* that it decides and does not assign was never mentioned, and is as it was in the
\* beginning.
LEMMA DecidedUntouched ==
    ASSUME NEW S, Decides(S), \A p \in S : ~Assigns(format, loader.doc, p)
    PROVE  \A p \in Touched : p \in Places /\ p \notin S
  BY DEF Decides, Touched, AssignedPlaces, MentionedPlaces

LEMMA Unassigned ==
    ASSUME IInv, NEW q \in Places, NEW S, Decides(S),
           \A p \in S : ~Assigns(format, loader.doc, p),
           \A p \in Places : Same(p, q) => p \in S
    PROVE  Get(config, q) = Get(Defaults, q)
  <1>1. \A p \in Touched : ~Same(p, q)
    BY DecidedUntouched
  <1> QED
    BY <1>1 DEF IInv, Untouched

LEMMA LastAssigned ==
    ASSUME IInv, isValid = TRUE, NEW q \in Places, q[2] \notin Lists,
           NEW p0 \in Places, Same(p0, q), Assigns(format, loader.doc, p0)
    PROVE  \E i \in 1..Len(Order) :
              /\ Assigns(format, loader.doc, Order[i]) /\ Same(Order[i], q)
              /\ Get(config, q) = Plain(Order[i], Assigned(loader.doc, Order[i]))
              /\ \A j \in 1..Len(Order) :
                    Assigns(format, loader.doc, Order[j]) /\ Same(Order[j], q) => j <= i
  <1> DEFINE T == {i \in 1..Len(Order) : /\ Assigns(format, loader.doc, Order[i])
                                         /\ Same(Order[i], q)}
  <1>1. Len(Order) \in Nat /\ DOMAIN Order = 1..Len(Order)
    BY OrderLength
  <1>2. T # {}
    BY <1>1 DEF Places
  <1>3. PICK i \in T : \A j \in T : j <= i
    BY <1>1, <1>2, GreatestNumber
  <1>4. /\ i \in 1..Len(Order) /\ Assigns(format, loader.doc, Order[i]) /\ Same(Order[i], q)
        /\ Order[i] \in Places
    BY <1>1, <1>3 DEF Places
  <1>5. \A j \in 1..Len(Order) :
            Assigns(format, loader.doc, Order[j]) /\ Same(Order[j], q) => j <= i
    BY <1>3
  <1>6. Order[i][2] \notin Lists
    <2>1. q[2] \in GlobalKeys \cup ModuleKeys /\ Order[i][2] \in GlobalKeys \cup ModuleKeys
      BY <1>4, PlaceKey
    <2>2. Setting(Order[i][2]) = Setting(q[2])
      BY <1>4 DEF Same
    <2> QED
      BY <2>1, <2>2, SettingFacts
  <1>7. Through(Len(Order))
    BY DEF IInv, Progress
  <1>8. ASSUME NEW j \in (i + 1)..Len(Order), Assigns(format, loader.doc, Order[j]),
               Same(Order[j], Order[i])
        PROVE  FALSE
    <2>1. j \in 1..Len(Order) /\ ~(j <= i)
      BY <1>1, <1>4
    <2>2. Same(Order[j], q)
      BY <1>4, <1>8 DEF Same
    <2> QED
      BY <1>5, <1>8, <2>1, <2>2
  <1>9. Get(config, Order[i]) = Plain(Order[i], Assigned(loader.doc, Order[i]))
    BY <1>4, <1>6, <1>7, <1>8, Zenon DEF Through
  <1>10. Get(config, q) = Get(config, Order[i])
    BY <1>4, SameGet
  <1> QED
    BY <1>4, <1>5, <1>9, <1>10, Zenon

LEMMA GlobalMeaningIs ==
    ASSUME NEW f, NEW d, NEW key
    PROVE  GlobalMeaning(f, d, key) =
              IF Assigns(f, d, <<"own", key>>) THEN Assigned(d, <<"own", key>>)
              ELSE IF Assigns(f, d, <<"global", key>>) THEN Assigned(d, <<"global", key>>)
              ELSE Defaults[key]
  <1> DEFINE g == <<"global", key>>
             o == <<"own", key>>
  <1>1. GlobalMeaning(f, d, key) = Value(f, d, <<g, o>>, Defaults[key])
    BY Zenon DEF GlobalMeaning
  <1> HIDE DEF g, o
  <1>2. Value(f, d, <<g, o>>, Defaults[key]) =
            IF Assigns(f, d, o) THEN Assigned(d, o)
            ELSE IF Assigns(f, d, g) THEN Assigned(d, g) ELSE Defaults[key]
    BY ValueOfTwo
  <1> QED
    BY <1>1, <1>2, Zenon DEF g, o

\* A global setting.
LEMMA GlobalRestart ==
    ASSUME IInv, isValid = TRUE, NEW key \in GlobalKeys, key # "denied_users",
           Decides({<<"global", key>>, <<"own", key>>})
    PROVE  config[key] = IF key = "bind_port"
                         THEN GlobalMeaning(format, loader.doc, key) % PortModulus
                         ELSE GlobalMeaning(format, loader.doc, key)
  <1> DEFINE g == <<"global", key>>
             o == <<"own", key>>
             d == loader.doc
             M == GlobalMeaning(format, d, key)
  <1>1. g \in Places /\ o \in Places
    BY GlobalPlaces
  <1>2. g[1] = "global" /\ g[2] = key /\ o[1] = "own" /\ o[2] = key /\ g # o
    OBVIOUS
  <1>3. M = IF Assigns(format, d, o) THEN Assigned(d, o)
            ELSE IF Assigns(format, d, g) THEN Assigned(d, g) ELSE Defaults[key]
    BY GlobalMeaningIs, Zenon
  <1>4. "own" \notin Names /\ "global" \notin Names
    BY NameFacts
  <1>5. key \notin Lists /\ Setting(key) = key
    BY DEF GlobalKeys, Lists, Setting
  <1>0. Decides({g, o})
    OBVIOUS
  <1> HIDE DEF g, o, d, M
  <1>6. \A c : Get(c, o) = c[key]
    BY <1>2, <1>4, <1>5 DEF Get
  <1>7. ASSUME NEW p \in Places, Same(p, o) PROVE p = g \/ p = o
    <2>1. p[1] \notin Names /\ Setting(p[2]) = key
      BY <1>2, <1>4, <1>5, <1>7 DEF Same
    <2>2. p = <<p[1], p[2]>> /\ p[1] \in {"global", "own"} /\ p[2] = key
      BY <2>1, PlaceKinds, SettingKinds
    <2> QED
      BY <2>2 DEF g, o
  <1>8. Same(g, o) /\ Same(o, o)
    BY <1>2, <1>4 DEF Same
  <1>9. PICK k \in 1..9 : GlobalOrder[k] = key
    BY OrderLengths
  <1>10. k + 9 \in 1..Len(Order) /\ Order[k + 9] = o
    BY <1>9, GlobalPlaceAt, OrderLength DEF o
  <1>11. CASE ~Assigns(format, d, o) /\ ~Assigns(format, d, g)
    <2>1. /\ \A p \in {g, o} : ~Assigns(format, loader.doc, p)
          /\ \A p \in Places : Same(p, o) => p \in {g, o}
      BY <1>7, <1>11 DEF d
    <2>2. config[key] = Defaults[key]
      BY <1>0, <1>1, <1>6, <2>1, Unassigned
    <2>3. M = Defaults[key]
      BY <1>3, <1>11, Zenon
    <2>4. CASE key = "bind_port"
      <3>1. Defaults["bind_port"] = 1
        BY DEF Defaults
      <3>2. 1 % PortModulus = 1
        <4>1. PortModulus \in Nat /\ PortModulus > 1
          BY NameFacts
        <4> QED
          BY <4>1
      <3> QED
        BY <2>2, <2>3, <2>4, <3>1, <3>2, Zenon DEF M, d
    <2>5. CASE key # "bind_port"
      BY <2>2, <2>3, <2>5, Zenon DEF M, d
    <2> QED
      BY <2>4, <2>5
  <1>12. CASE Assigns(format, d, o) \/ Assigns(format, d, g)
    <2>1. PICK i \in 1..Len(Order) :
              /\ Assigns(format, d, Order[i]) /\ Same(Order[i], o)
              /\ Get(config, o) = Plain(Order[i], Assigned(d, Order[i]))
              /\ \A j \in 1..Len(Order) :
                    Assigns(format, d, Order[j]) /\ Same(Order[j], o) => j <= i
      <3>1. CASE Assigns(format, d, o)
        BY <1>1, <1>2, <1>5, <1>8, <3>1, LastAssigned DEF d
      <3>2. CASE Assigns(format, d, g)
        BY <1>1, <1>2, <1>5, <1>8, <3>2, LastAssigned DEF d
      <3> QED
        BY <1>12, <3>1, <3>2
    <2>2. i \in DOMAIN Order /\ Order[i] \in Places
      BY OrderLength DEF Places
    <2>3. Order[i] = g \/ Order[i] = o
      BY <1>7, <2>1, <2>2
    <2>4. Assigns(format, d, o) => Order[i] = o
      <3> SUFFICES ASSUME Assigns(format, d, o) PROVE Order[i] = o
        OBVIOUS
      <3>1. k + 9 <= i
        BY <1>8, <1>10, <2>1
      <3>2. ~(i \in 1..9)
        BY <3>1
      <3>3. Order[i][1] # "global"
        <4>1. \/ i \in 1..9 /\ Order[i] = <<"global", GlobalOrder[i]>>
              \/ i \in 10..18 /\ Order[i] = <<"own", GlobalOrder[i - 9]>>
              \/ \E j \in 1..Len(ModuleNames), x \in 1..5 :
                    /\ i = 18 + 5 * (j - 1) + x
                    /\ Order[i] = <<ModuleNames[j], ModuleOrder[x]>>
          BY <2>2, OrderAt, Zenon
        <4>2. CASE Order[i] = <<"own", GlobalOrder[i - 9]>>
          BY <4>2
        <4>3. ASSUME NEW j \in 1..Len(ModuleNames), NEW x \in 1..5,
                     Order[i] = <<ModuleNames[j], ModuleOrder[x]>>
              PROVE  Order[i][1] # "global"
          <5>1. ModuleNames[j] \in Names
            BY NameFacts
          <5>2. Order[i][1] = ModuleNames[j]
            BY <4>3, Pair
          <5> QED
            BY <1>4, <5>1, <5>2
        <4> QED
          BY <3>2, <4>1, <4>2, <4>3, Zenon
      <3> QED
        BY <1>2, <2>3, <3>3
    <2>5. M = Assigned(d, Order[i])
      <3>1. CASE Assigns(format, d, o)
        BY <1>3, <2>4, <3>1, Zenon
      <3>2. CASE ~Assigns(format, d, o)
        <4>1. Order[i] = g
          BY <2>1, <2>3, <3>2
        <4> QED
          BY <1>3, <2>1, <3>2, <4>1, Zenon
      <3> QED
        BY <3>1, <3>2
    <2>6. Order[i][2] = key
      BY <1>2, <2>3
    <2>7. config[key] = IF key = "bind_port" THEN M % PortModulus ELSE M
      BY <1>6, <2>1, <2>5, <2>6 DEF Plain
    <2> QED
      BY <2>7 DEF M, d
  <1> QED
    BY <1>11, <1>12
\* A module's path, or its read_only: one place.
LEMMA FieldRestart ==
    ASSUME IInv, isValid = TRUE, NEW m \in Names, NEW field \in {"path", "read_only"},
           Decides({<<m, field>>})
    PROVE  config["modules"][m][field] =
              Value(format, loader.doc, <<<<m, field>>>>, NoModule[field])
  <1> DEFINE q == <<m, field>>
             d == loader.doc
  <1>1. q \in Places
    BY ModulePlaces DEF ModuleKeys
  <1>2. q[1] = m /\ q[2] = field
    OBVIOUS
  <1>3. field \notin Lists /\ field # "bind_port" /\ Setting(field) = field
    BY DEF Lists, Setting
  <1>0. Decides({q})
    OBVIOUS
  <1> HIDE DEF q, d
  <1>4. \A c : Get(c, q) = c["modules"][m][field]
    BY <1>2, <1>3 DEF Get
  <1>5. ASSUME NEW p \in Places, Same(p, q) PROVE p = q
    <2>1. p[1] = m /\ Setting(p[2]) = field
      BY <1>2, <1>3, <1>5 DEF Same
    <2>2. p = <<p[1], p[2]>>
      BY PlaceKinds
    <2>3. p[2] = field
      BY <2>1 DEF Setting
    <2> QED
      BY <2>1, <2>2, <2>3 DEF q
  <1>6. Same(q, q)
    BY DEF Same
  <1>7. Value(format, d, <<q>>, NoModule[field]) =
            IF Assigns(format, d, q) THEN Assigned(d, q) ELSE NoModule[field]
    BY ValueOfOne
  <1>8. Get(config, q) = IF Assigns(format, d, q) THEN Assigned(d, q) ELSE NoModule[field]
    <2>1. CASE ~Assigns(format, d, q)
      <3>1. /\ \A p \in {q} : ~Assigns(format, loader.doc, p)
            /\ \A p \in Places : Same(p, q) => p \in {q}
        BY <1>5, <2>1 DEF d
      <3>2. Get(config, q) = Get(Defaults, q)
        BY <1>0, <1>1, <3>1, Unassigned
      <3>3. Defaults["modules"][m] = NoModule
        BY DEF Defaults
      <3> QED
        BY <1>4, <2>1, <3>2, <3>3, Zenon
    <2>2. CASE Assigns(format, d, q)
      <3>1. PICK i \in 1..Len(Order) :
              /\ Assigns(format, d, Order[i]) /\ Same(Order[i], q)
              /\ Get(config, q) = Plain(Order[i], Assigned(d, Order[i]))
        BY <1>1, <1>2, <1>3, <1>6, <2>2, LastAssigned DEF d
      <3>2. Order[i] \in Places
        BY OrderLength DEF Places
      <3>3. Order[i] = q
        BY <1>5, <3>1, <3>2
      <3>4. Plain(q, Assigned(d, q)) = Assigned(d, q)
        BY <1>2, <1>3 DEF Plain
      <3> QED
        BY <2>2, <3>1, <3>3, <3>4
    <2> QED
      BY <2>1, <2>2
  <1> QED
    BY <1>4, <1>7, <1>8, Zenon DEF q, d

\* A module's allow_delete: two places, of which the second comes right after the first.
LEMMA DeleteRestart ==
    ASSUME IInv, isValid = TRUE, NEW m \in Names,
           Decides({<<m, "delete">>, <<m, "allow_delete">>})
    PROVE  config["modules"][m]["allow_delete"] =
              Value(format, loader.doc, <<<<m, "delete">>, <<m, "allow_delete">>>>,
                    NoModule["allow_delete"])
  <1> DEFINE g == <<m, "delete">>
             o == <<m, "allow_delete">>
             d == loader.doc
             none == NoModule["allow_delete"]
  <1>1. g \in Places /\ o \in Places
    BY ModulePlaces DEF ModuleKeys
  <1>2. g[1] = m /\ g[2] = "delete" /\ o[1] = m /\ o[2] = "allow_delete"
    OBVIOUS
  <1>3. /\ "allow_delete" \notin Lists /\ "allow_delete" # "bind_port" /\ "delete" # "bind_port"
        /\ Setting("allow_delete") = "allow_delete" /\ Setting("delete") = "allow_delete"
    BY DEF Lists, Setting
  <1>0. Decides({g, o})
    OBVIOUS
  <1> HIDE DEF g, o, d, none
  <1>4. \A c : Get(c, o) = c["modules"][m]["allow_delete"]
    BY <1>2, <1>3 DEF Get
  <1>5. ASSUME NEW p \in Places, Same(p, o) PROVE p = g \/ p = o
    <2>1. p[1] = m /\ Setting(p[2]) = "allow_delete"
      BY <1>2, <1>3, <1>5 DEF Same
    <2>2. p = <<p[1], p[2]>>
      BY PlaceKinds
    <2>3. p[2] = "delete" \/ p[2] = "allow_delete"
      BY <2>1 DEF Setting
    <2> QED
      BY <2>1, <2>2, <2>3 DEF g, o
  <1>6. Same(g, o) /\ Same(o, o)
    BY <1>2, <1>3 DEF Same
  <1>7. Value(format, d, <<g, o>>, none) =
            IF Assigns(format, d, o) THEN Assigned(d, o)
            ELSE IF Assigns(format, d, g) THEN Assigned(d, g) ELSE none
    BY ValueOfTwo
  <1>8. PICK j \in 1..Len(ModuleNames) : ModuleNames[j] = m
    BY NameFacts DEF Names
  <1>9. 18 + 5 * (j - 1) + 4 \in 1..Len(Order) /\ Order[18 + 5 * (j - 1) + 4] = o
    <2>1. 4 \in 1..5 /\ ModuleOrder[4] = "allow_delete"
      BY OrderLengths
    <2> QED
      BY <1>8, <2>1, ModulePlaceAt, OrderLength DEF o
  <1>10. CASE ~Assigns(format, d, o) /\ ~Assigns(format, d, g)
    <2>1. /\ \A p \in {g, o} : ~Assigns(format, loader.doc, p)
          /\ \A p \in Places : Same(p, o) => p \in {g, o}
      BY <1>5, <1>10 DEF d
    <2>2. Get(config, o) = Get(Defaults, o)
      BY <1>0, <1>1, <2>1, Unassigned
    <2>3. Defaults["modules"][m] = NoModule
      BY DEF Defaults
    <2>4. config["modules"][m]["allow_delete"] = none
      BY <1>4, <2>2, <2>3, Zenon DEF none
    <2> QED
      BY <1>7, <1>10, <2>4, Zenon DEF g, o, d, none
  <1>11. CASE Assigns(format, d, o) \/ Assigns(format, d, g)
    <2>1. PICK i \in 1..Len(Order) :
              /\ Assigns(format, d, Order[i]) /\ Same(Order[i], o)
              /\ Get(config, o) = Plain(Order[i], Assigned(d, Order[i]))
              /\ \A x \in 1..Len(Order) :
                    Assigns(format, d, Order[x]) /\ Same(Order[x], o) => x <= i
      <3>1. CASE Assigns(format, d, o)
        BY <1>1, <1>2, <1>3, <1>6, <3>1, LastAssigned DEF d
      <3>2. CASE Assigns(format, d, g)
        BY <1>1, <1>2, <1>3, <1>6, <3>2, LastAssigned DEF d
      <3> QED
        BY <1>11, <3>1, <3>2
    <2>2. i \in DOMAIN Order /\ Order[i] \in Places
      BY OrderLength DEF Places
    <2>3. Order[i] = g \/ Order[i] = o
      BY <1>5, <2>1, <2>2
    <2>4. Assigns(format, d, o) => Order[i] = o
      <3> SUFFICES ASSUME Assigns(format, d, o), Order[i] = g PROVE FALSE
        BY <2>3
      <3>1. 18 + 5 * (j - 1) + 4 <= i
        BY <1>6, <1>9, <2>1
      <3>2. \/ i \in 1..9 /\ Order[i] = <<"global", GlobalOrder[i]>>
            \/ i \in 10..18 /\ Order[i] = <<"own", GlobalOrder[i - 9]>>
            \/ \E y \in 1..Len(ModuleNames), x \in 1..5 :
                  /\ i = 18 + 5 * (y - 1) + x
                  /\ Order[i] = <<ModuleNames[y], ModuleOrder[x]>>
        BY <2>2, OrderAt, Zenon
      <3>3. ~(i \in 1..9) /\ ~(i \in 10..18)
        BY <3>1
      <3>4. PICK y \in 1..Len(ModuleNames), x \in 1..5 :
                  /\ i = 18 + 5 * (y - 1) + x
                  /\ Order[i] = <<ModuleNames[y], ModuleOrder[x]>>
        BY <3>2, <3>3, Zenon
      <3>5. ModuleNames[y] = m /\ ModuleOrder[x] = "delete"
        BY <1>2, <3>4, Pair
      <3>6. y = j
        BY <1>8, <3>5, NameFacts
      <3>7. x = 3
        BY <3>5, OrderLengths
      <3>8. Len(ModuleNames) \in Nat
        BY NameFacts
      <3> QED
        BY <3>1, <3>4, <3>6, <3>7, <3>8
    <2>5. Order[i] = IF Assigns(format, d, o) THEN o ELSE g
      BY <2>1, <2>3, <2>4
    <2>6. Plain(Order[i], Assigned(d, Order[i])) = Assigned(d, Order[i])
      BY <1>2, <1>3, <2>3 DEF Plain
    <2>7. config["modules"][m]["allow_delete"] = Assigned(d, Order[i])
      BY <1>4, <2>1, <2>6, Zenon
    <2>8. Value(format, d, <<g, o>>, none) = Assigned(d, Order[i])
      <3>1. CASE Assigns(format, d, o)
        BY <1>7, <2>4, <3>1, Zenon
      <3>2. CASE ~Assigns(format, d, o)
        <4>1. Order[i] = g
          BY <2>5, <3>2
        <4> QED
          BY <1>7, <1>11, <3>2, <4>1, Zenon
      <3> QED
        BY <3>1, <3>2
    <2> QED
      BY <2>7, <2>8, Zenon DEF g, o, d, none
  <1> QED
    BY <1>10, <1>11

\* A module is there if the file has something to say of it.
LEMMA PresentRestart ==
    ASSUME IInv, isValid = TRUE, NEW m \in Names, Decides({<<m, key>> : key \in ModuleKeys})
    PROVE  config["modules"][m]["present"] =
              (\E key \in ModuleKeys : Assigns(format, loader.doc, <<m, key>>))
  <1>1. ASSUME NEW key \in ModuleKeys, Assigns(format, loader.doc, <<m, key>>)
        PROVE  config["modules"][m]["present"] = TRUE
    <2> DEFINE q == <<m, key>>
    <2>1. q \in Places
      BY ModulePlaces
    <2>2. q[1] = m
      OBVIOUS
    <2> HIDE DEF q
    <2>3. PICK i \in 1..Len(Order) : Order[i] = q
      BY <2>1, OrderLength DEF Places
    <2>4. Through(Len(Order))
      BY DEF IInv, Progress
    <2> QED
      BY <1>1, <2>2, <2>3, <2>4, Zenon DEF Through, q
  <1>2. ASSUME \A key \in ModuleKeys : ~Assigns(format, loader.doc, <<m, key>>)
        PROVE  config["modules"][m]["present"] = FALSE
    <2>1. ASSUME NEW p \in Touched, p[1] = m PROVE FALSE
      <3> DEFINE S == {<<m, key>> : key \in ModuleKeys}
      <3>1. \A q \in S : ~Assigns(format, loader.doc, q)
        BY <1>2
      <3>2. Decides(S)
        OBVIOUS
      <3> HIDE DEF S
      <3>3. p \in Places /\ p \notin S
        BY <2>1, <3>1, <3>2, DecidedUntouched
      <3>4. p = <<p[1], p[2]>> /\ p[2] \in ModuleKeys
        BY <2>1, <3>3, PlaceKinds, NameFacts
      <3> QED
        BY <2>1, <3>3, <3>4 DEF S
    <2> QED
      BY <2>1, Zenon DEF IInv, Untouched
  <1>3. CASE \E key \in ModuleKeys : Assigns(format, loader.doc, <<m, key>>)
    BY <1>1, <1>3, Zenon
  <1>4. CASE ~(\E key \in ModuleKeys : Assigns(format, loader.doc, <<m, key>>))
    BY <1>2, <1>4, Zenon
  <1> QED
    BY <1>3, <1>4

\* The places of each of a module's settings.
LEMMA PlacesOfFields ==
    ASSUME NEW m
    PROVE  /\ PlacesOf(m, "present") = {<<m, key>> : key \in ModuleKeys}
           /\ PlacesOf(m, "path") = {<<m, "path">>}
           /\ PlacesOf(m, "read_only") = {<<m, "read_only">>}
           /\ PlacesOf(m, "allow_delete") = {<<m, "delete">>, <<m, "allow_delete">>}
  <1>1. /\ DOMAIN ModuleOrder = 1..5
        /\ ModuleOrder[1] = "path" /\ ModuleOrder[2] = "read_only" /\ ModuleOrder[3] = "delete"
        /\ ModuleOrder[4] = "allow_delete" /\ ModuleOrder[5] = "exclude"
    BY DEF ModuleOrder
  <1>2. \A field : PlacesOf(m, field) =
            {<<m, key>> : key \in {k \in ModuleKeys : field = "present" \/ Setting(k) = field}}
    <2>1. \A k : k \in ModuleKeys <=> \E j \in DOMAIN ModuleOrder : k = ModuleOrder[j]
      BY <1>1 DEF ModuleKeys
    <2> SUFFICES ASSUME NEW field, NEW x
                 PROVE  x \in PlacesOf(m, field) <=>
                        x \in {<<m, key>> : key \in {k \in ModuleKeys :
                                            field = "present" \/ Setting(k) = field}}
      BY Zenon
    <2> QED
      BY <2>1, Zenon DEF PlacesOf
  <1>3. /\ Setting("path") = "path" /\ Setting("read_only") = "read_only"
        /\ Setting("delete") = "allow_delete" /\ Setting("allow_delete") = "allow_delete"
        /\ Setting("exclude") = "exclude"
    BY DEF Setting
  <1>4. PlacesOf(m, "present") = {<<m, key>> : key \in ModuleKeys}
    <2>1. {k \in ModuleKeys : "present" = "present" \/ Setting(k) = "present"} = ModuleKeys
      OBVIOUS
    <2> QED
      BY <1>2, <2>1
  <1>5. {k \in ModuleKeys : "path" = "present" \/ Setting(k) = "path"} = {"path"}
    BY <1>3 DEF ModuleKeys
  <1>6. {k \in ModuleKeys : "read_only" = "present" \/ Setting(k) = "read_only"} = {"read_only"}
    BY <1>3 DEF ModuleKeys
  <1>7. {k \in ModuleKeys : "allow_delete" = "present" \/ Setting(k) = "allow_delete"} =
            {"delete", "allow_delete"}
    BY <1>3 DEF ModuleKeys
  <1> QED
    BY <1>2, <1>4, <1>5, <1>6, <1>7

LEMMA InvSettings ==
    ASSUME IInv, isValid = TRUE
    PROVE  SettingsOfFile
  <1>2. {GlobalOrder[i] : i \in DOMAIN GlobalOrder} = GlobalKeys
    BY OrderLengths
  <1>3. {ModuleOrder[i] : i \in DOMAIN ModuleOrder} = ModuleKeys
    BY OrderLengths
  <1>5. ASSUME NEW key \in GlobalKeys \ {"denied_users"},
               Decides({<<"global", key>>, <<"own", key>>})
        PROVE  config[key] = IF key = "bind_port"
                             THEN GlobalMeaning(format, loader.doc, key) % PortModulus
                             ELSE GlobalMeaning(format, loader.doc, key)
    BY <1>5, GlobalRestart
  <1>6. ASSUME NEW m \in Names
        PROVE  LET meaning == ModuleMeaning(format, loader.doc, m)
               IN  \A field \in DOMAIN meaning :
                      Decides(PlacesOf(m, field)) => config.modules[m][field] = meaning[field]
    <2> DEFINE meaning == ModuleMeaning(format, loader.doc, m)
    <2>0. /\ PlacesOf(m, "present") = {<<m, key>> : key \in ModuleKeys}
          /\ PlacesOf(m, "path") = {<<m, "path">>}
          /\ PlacesOf(m, "read_only") = {<<m, "read_only">>}
          /\ PlacesOf(m, "allow_delete") = {<<m, "delete">>, <<m, "allow_delete">>}
      BY PlacesOfFields
    <2>1. /\ NoModule["path"] = "" /\ NoModule["read_only"] = FALSE
          /\ NoModule["allow_delete"] = FALSE
      BY DEF NoModule
    <2>2. /\ DOMAIN meaning = {"present", "path", "read_only", "allow_delete"}
          /\ meaning["present"] =
                (\E key \in {ModuleOrder[i] : i \in DOMAIN ModuleOrder} :
                    Assigns(format, loader.doc, <<m, key>>))
          /\ meaning["path"] = Value(format, loader.doc, <<<<m, "path">>>>, "")
          /\ meaning["read_only"] = Value(format, loader.doc, <<<<m, "read_only">>>>, FALSE)
          /\ meaning["allow_delete"] =
                Value(format, loader.doc, <<<<m, "delete">>, <<m, "allow_delete">>>>, FALSE)
      BY Zenon DEF ModuleMeaning
    <2> HIDE DEF meaning
    <2>3. ASSUME Decides(PlacesOf(m, "present"))
          PROVE  config["modules"][m]["present"] = meaning["present"]
      <3>1. config["modules"][m]["present"] =
                (\E key \in ModuleKeys : Assigns(format, loader.doc, <<m, key>>))
        BY <2>0, <2>3, PresentRestart
      <3> QED
        BY <1>3, <2>2, <3>1, Zenon
    <2>4. ASSUME Decides(PlacesOf(m, "path"))
          PROVE  config["modules"][m]["path"] = meaning["path"]
      <3>1. config["modules"][m]["path"] =
                Value(format, loader.doc, <<<<m, "path">>>>, NoModule["path"])
        BY <2>0, <2>4, FieldRestart
      <3> QED
        BY <2>1, <2>2, <3>1, Zenon
    <2>5. ASSUME Decides(PlacesOf(m, "read_only"))
          PROVE  config["modules"][m]["read_only"] = meaning["read_only"]
      <3>1. config["modules"][m]["read_only"] =
                Value(format, loader.doc, <<<<m, "read_only">>>>, NoModule["read_only"])
        BY <2>0, <2>5, FieldRestart
      <3> QED
        BY <2>1, <2>2, <3>1, Zenon
    <2>6. ASSUME Decides(PlacesOf(m, "allow_delete"))
          PROVE  config["modules"][m]["allow_delete"] = meaning["allow_delete"]
      <3>1. config["modules"][m]["allow_delete"] =
                Value(format, loader.doc, <<<<m, "delete">>, <<m, "allow_delete">>>>,
                      NoModule["allow_delete"])
        BY <2>0, <2>6, DeleteRestart
      <3> QED
        BY <2>1, <2>2, <3>1, Zenon
    <2>7. \A field \in DOMAIN meaning :
              Decides(PlacesOf(m, field)) => config["modules"][m][field] = meaning[field]
      BY <2>2, <2>3, <2>4, <2>5, <2>6, Zenon
    <2> QED
      BY <2>7 DEF meaning
  <1> QED
    BY <1>2, <1>5, <1>6, Zenon DEF SettingsOfFile

----------------------------------------------------------------------------
\* The lists.  Their entries come from the documents read, and a load that is past a
\* list's place has appended what its document says there.

Said(p) == UNION {Entries(Added(format, d, p)) : d \in Everything}
Appended(p) ==
    \/ loader.pc = "validate"
    \/ isValid = TRUE
    \/ loader.pc = "parse" /\ \A i \in Ahead : Order[i] # p

ListInv ==
    \A p \in ListPlaces :
        /\ Entries(Get(config, p)) \subseteq Said(p)
        /\ Assigns(format, loader.doc, p) /\ Appended(p) =>
              EndsWith(Get(config, p), Assigned(loader.doc, p))

LEMMA ListPlaceFacts ==
    ASSUME NEW p \in ListPlaces
    PROVE  /\ p \in Places /\ p[2] \in Lists /\ Setting(p[2]) = p[2]
           /\ \A c : Get(c, p) = ListAt(c, p)
           /\ Values(p[2]) = Seq(Words)
           /\ \A q \in Places : Same(q, p) => q = p \/ q = <<"global", "denied_users">>
  <1>1. CASE p = <<"own", "denied_users">>
    <2>1. p[1] = "own" /\ p[2] = "denied_users" /\ "own" \notin Names
      BY <1>1, NameFacts
    <2>2. "denied_users" \in Lists /\ Setting("denied_users") = "denied_users"
      BY DEF Lists, Setting
    <2>3. p \in Places
      BY <1>1, GlobalPlaces DEF GlobalKeys
    <2>4. \A c : Get(c, p) = ListAt(c, p)
      BY <2>1, <2>2 DEF Get, ListAt
    <2>5. ASSUME NEW q \in Places, Same(q, p)
          PROVE  q = p \/ q = <<"global", "denied_users">>
      <3>1. q[1] \notin Names /\ Setting(q[2]) = "denied_users"
        BY <2>1, <2>2, <2>5 DEF Same
      <3>2. q = <<q[1], q[2]>> /\ q[1] \in {"global", "own"}
        BY <3>1, PlaceKinds
      <3>3. q[2] = "denied_users"
        BY <3>1 DEF Setting
      <3> QED
        BY <1>1, <3>2, <3>3
    <2>6. Values("denied_users") = Seq(Words)
      BY <2>2, ValueKinds
    <2> QED
      BY <2>1, <2>2, <2>3, <2>4, <2>5, <2>6
  <1>2. ASSUME NEW m \in Names, p = <<m, "exclude">>
        PROVE  /\ p \in Places /\ p[2] \in Lists /\ Setting(p[2]) = p[2]
               /\ \A c : Get(c, p) = ListAt(c, p)
               /\ Values(p[2]) = Seq(Words)
               /\ \A q \in Places : Same(q, p) => q = p \/ q = <<"global", "denied_users">>
    <2>1. p[1] = m /\ p[2] = "exclude"
      BY <1>2, Pair
    <2>2. "exclude" \in Lists /\ Setting("exclude") = "exclude"
      BY DEF Lists, Setting
    <2>3. p \in Places
      BY <1>2, ModulePlaces DEF ModuleKeys
    <2>4. \A c : Get(c, p) = ListAt(c, p)
      BY <2>1, <2>2 DEF Get, ListAt
    <2>5. ASSUME NEW q \in Places, Same(q, p) PROVE q = p
      <3>1. q[1] = m /\ Setting(q[2]) = "exclude"
        BY <2>1, <2>2, <2>5 DEF Same
      <3>2. q = <<q[1], q[2]>>
        BY PlaceKinds
      <3>3. q[2] = "exclude"
        BY <3>1 DEF Setting
      <3> QED
        BY <1>2, <3>1, <3>2, <3>3
    <2>6. Values("exclude") = Seq(Words)
      BY <2>2, ValueKinds
    <2> QED
      BY <2>1, <2>2, <2>3, <2>4, <2>5, <2>6
  <1> QED
    BY <1>1, <1>2 DEF ListPlaces

\* Every list has one place that some format reads.
LEMMA OnePlace ==
    ASSUME format \in Formats, NEW p \in ListPlaces, NEW d, NEW q \in Places,
           Assigns(format, d, q), Same(q, p)
    PROVE  q = p
  <1>1. Reads(format, q)
    BY DEF Assigns, Mentions
  <1>2. ASSUME q = <<"global", "denied_users">> PROVE FALSE
    <2>1. q[1] = "global" /\ q[2] = "denied_users" /\ "global" \notin Names
      BY <1>2, NameFacts
    <2>2. "denied_users" \notin Numbers
      BY DEF Numbers
    <2>3. ~IniReads("global", "denied_users")
      BY <2>1 DEF IniReads
    <2>4. ~JsonReads("global", "denied_users")
      BY <2>1, <2>2 DEF JsonReads
    <2>5. ~YamlReads("global", "denied_users")
      BY <2>1, <2>2 DEF YamlReads
    <2>6. format = "ini" \/ format = "json" \/ format = "yaml"
      BY DEF Formats
    <2> QED
      BY <1>1, <2>1, <2>3, <2>4, <2>5, <2>6 DEF Reads
  <1> QED
    BY <1>2, ListPlaceFacts

LEMMA ListTyped ==
    ASSUME Settings, NEW p \in ListPlaces
    PROVE  Get(config, p) \in Seq(Words)
  <1>1. p \in Places /\ p[2] \in Lists /\ Setting(p[2]) = p[2] /\ Values(p[2]) = Seq(Words)
    BY ListPlaceFacts
  <1>2. p[2] # "bind_port"
    BY <1>1 DEF Lists
  <1> QED
    BY <1>1, <1>2 DEF Settings, Typed, Kept

LEMMA AppendEnds ==
    ASSUME NEW S, NEW s \in Seq(S), NEW t \in Seq(S)
    PROVE  EndsWith(s \o t, t)
  <1>1. /\ Len(s \o t) = Len(s) + Len(t) /\ Len(s) \in Nat /\ Len(t) \in Nat
        /\ \A i \in 1..Len(s) + Len(t) : (s \o t)[i] = IF i <= Len(s) THEN s[i] ELSE t[i - Len(s)]
    BY ConcatProperties, LenProperties
  <1>2. ASSUME NEW i \in 1..Len(t)
        PROVE  (s \o t)[(Len(s \o t) - Len(t)) + i] = t[i]
    <2>1. /\ (Len(s \o t) - Len(t)) + i = Len(s) + i
          /\ Len(s) + i \in 1..Len(s) + Len(t)
          /\ ~(Len(s) + i <= Len(s)) /\ (Len(s) + i) - Len(s) = i
      BY <1>1
    <2> QED
      BY <1>1, <2>1
  <1>3. Len(t) <= Len(s \o t)
    BY <1>1
  <1> QED
    BY <1>2, <1>3 DEF EndsWith

LEMMA ListInit ==
    ASSUME Init
    PROVE  ListInv
  <1> SUFFICES ASSUME NEW p \in ListPlaces
               PROVE  Entries(Get(config, p)) = {} /\ ~Appended(p)
    BY DEF ListInv
  <1>1. loader.pc = "open" /\ isValid = FALSE /\ config = Defaults
    BY DEF Init
  <1>2. Get(config, p) = ListAt(Defaults, p)
    BY <1>1, ListPlaceFacts
  <1>3. \A m \in Names : Defaults["modules"][m] = NoModule
    BY DEF Defaults
  <1>4. Defaults["denied_users"] = <<>> /\ NoModule["exclude"] = <<>>
    BY DEF Defaults, NoModule
  <1>5. ListAt(Defaults, p) = <<>>
    BY <1>3, <1>4, Zenon DEF ListAt
  <1>6. Entries(<<>>) = {}
    BY DEF Entries
  <1>7. ~Appended(p)
    BY <1>1 DEF Appended
  <1> QED
    BY <1>2, <1>5, <1>6, <1>7

\* A step that leaves settings and documents alone and is not past a place before the load is.
LEMMA ListKept ==
    ASSUME ListInv, UNCHANGED <<config, format, read>>, loader'.doc = loader.doc,
           \A p \in ListPlaces : Appended(p)' => Appended(p)
    PROVE  ListInv'
  <1>1. Everything' = Everything
    BY DEF Everything
  <1>2. \A p : Said(p)' = Said(p)
    BY <1>1 DEF Said
  <1> SUFFICES ASSUME NEW p \in ListPlaces
               PROVE  /\ Entries(Get(config, p)) \subseteq Said(p)
                      /\ Assigns(format, loader.doc, p) /\ Appended(p)' =>
                            EndsWith(Get(config, p), Assigned(loader.doc, p))
    BY <1>2 DEF ListInv
  <1> QED
    BY DEF ListInv

LEMMA ListOpenFile ==
    ASSUME IInv, ListInv, OpenFile
    PROVE  ListInv'
  <1>1. isValid' = FALSE /\ UNCHANGED config /\ UNCHANGED format
    BY DEF OpenFile, loadFrame, env
  <1>2. CASE file.kind = "good" \/ (file.kind = "garbled" /\ format = "ini")
    <2> DEFINE contents == IF file.kind = "good" THEN file.doc ELSE EmptyDocument
    <2>1. /\ loader' = [pc |-> "parse", doc |-> contents, at |-> 0]
          /\ read' = Append(read, contents)
      BY <1>2, Zenon DEF OpenFile
    <2>2. contents \in Docs /\ read \in Seq(Docs) /\ Docs' = Docs
      BY <1>1, DocsKept DEF IInv, Types, Docs
    <2>3. Everything' = Everything \cup {contents}
      BY <2>1, <2>2, EverythingGrows
    <2> HIDE DEF contents
    <2>4. \A p : Said(p) \subseteq Said(p)'
      BY <1>1, <2>3 DEF Said
    <2>5. loader'.pc = "parse" /\ loader'.at = 0 /\ loader'.doc = contents
      BY <2>1
    <2>6. ASSUME NEW p \in ListPlaces, Assigns(format, contents, p) PROVE ~Appended(p)'
      <3>1. p \in Places
        BY ListPlaceFacts
      <3>2. PICK i \in 1..Len(Order) : Order[i] = p
        BY <3>1, OrderLength DEF Places
      <3>3. i \in (0 + 1)..Len(Order) /\ Mentions(format, contents, Order[i])
        BY <2>6, <3>2, OrderLength DEF Assigns
      <3>4. i \in Ahead'
        BY <1>1, <2>5, <3>3 DEF Ahead
      <3> QED
        BY <1>1, <2>5, <3>2, <3>4 DEF Appended
    <2> SUFFICES ASSUME NEW p \in ListPlaces
                 PROVE  /\ Entries(Get(config, p)) \subseteq Said(p)'
                        /\ ~(Assigns(format, contents, p) /\ Appended(p)')
      BY <1>1, <2>5 DEF ListInv
    <2> QED
      BY <2>4, <2>6 DEF ListInv
  <1>3. CASE ~(file.kind = "good" \/ (file.kind = "garbled" /\ format = "ini"))
    <2>1. loader' = [loader EXCEPT !.pc = "idle"] /\ UNCHANGED read
      BY <1>3, Zenon DEF OpenFile, Fail, Goto
    <2>2. loader'.pc = "idle" /\ loader'.doc = loader.doc
      BY <2>1 DEF IInv, Types, Loaders
    <2>3. \A p \in ListPlaces : ~Appended(p)'
      BY <1>1, <2>2 DEF Appended
    <2> QED
      BY <1>1, <2>1, <2>2, <2>3, ListKept
  <1> QED
    BY <1>2, <1>3

LEMMA ListParse ==
    ASSUME IInv, ListInv, Parse
    PROVE  ListInv'
  <1> DEFINE q == Order[NextPlace]
             d == loader.doc
             v == Assigned(d, q)
  <1>1. /\ loader.pc = "parse" /\ Ahead # {}
        /\ loader' = [loader EXCEPT !.at = NextPlace]
        /\ config' = IF Assigns(format, d, q) THEN Apply(config, q, v) ELSE config
        /\ UNCHANGED <<env, isValid, read>>
    BY Zenon DEF Parse, loadFrame
  <1>2. Types /\ Settings /\ Control /\ UNCHANGED format
    BY <1>1, Zenon DEF IInv, env
  <1>3. /\ NextPlace \in 1..Len(Order) /\ NextPlace > loader.at /\ q \in Places
        /\ \A j \in Ahead : NextPlace <= j
    BY <1>1, <1>2, NextPlaceFacts
  <1>4. loader'.pc = "parse" /\ loader'.doc = d /\ loader'.at = NextPlace
    BY <1>1, <1>2 DEF Types, Loaders
  <1>5. d \in Everything /\ isValid = FALSE
    BY <1>1, <1>2, CurrentDocument DEF Control
  <1>6. format \in Formats /\ d \in Docs /\ Everything' = Everything
    BY <1>1, <1>2 DEF Types, Loaders, Everything
  <1>7. Shaped(config)
    BY <1>2 DEF Settings
  <1>8. \A p : Said(p)' = Said(p)
    BY <1>2, <1>6 DEF Said
  <1>9. ASSUME NEW p \in ListPlaces, Appended(p)', p # q PROVE Appended(p)
    <2>1. \A i \in Ahead' : Order[i] # p
      BY <1>1, <1>4, <1>5, <1>9 DEF Appended
    <2>2. ASSUME NEW i \in Ahead, Order[i] = p PROVE FALSE
      <3>1. i \in (loader.at + 1)..Len(Order) /\ Mentions(format, d, Order[i]) /\ NextPlace <= i
        BY <1>3, <2>2 DEF Ahead
      <3>2. i # NextPlace
        BY <1>9, <2>2
      <3>3. i \in (NextPlace + 1)..Len(Order)
        BY <1>3, <3>1, <3>2, OrderLength
      <3>4. i \in Ahead'
        BY <1>2, <1>4, <3>1, <3>3 DEF Ahead
      <3> QED
        BY <2>1, <2>2, <3>4
    <2> QED
      BY <1>1, <2>2 DEF Appended
  <1> HIDE DEF q, d, v
  <1>10. ASSUME NEW p \in ListPlaces, Assigns(format, d, q), p = q
         PROVE  /\ Entries(Get(config', p)) \subseteq Said(p)
                /\ EndsWith(Get(config', p), Assigned(d, p))
    <2>1. p \in Places /\ p[2] \in Lists /\ Setting(p[2]) = p[2] /\ Values(p[2]) = Seq(Words)
      BY ListPlaceFacts
    <2>2. v \in Seq(Words)
      BY <1>6, <1>10, <2>1, AssignedTyped DEF v
    <2>3. Get(config, p) \in Seq(Words)
      BY <1>2, ListTyped
    <2>4. Same(q, p)
      BY <1>10 DEF Same
    <2>5. Get(config', p) = Converted(p[2], Get(config, p), v)
      BY <1>1, <1>7, <1>10, <2>1, <2>4, ApplyGet DEF q, d, v
    <2>6. p[2] # "bind_port"
      BY <2>1 DEF Lists
    <2>7. Get(config', p) = Get(config, p) \o v
      BY <2>1, <2>5, <2>6 DEF Converted
    <2>8. Entries(Get(config', p)) = Entries(Get(config, p)) \cup Entries(v)
      BY <2>2, <2>3, <2>7, EntriesGrow
    <2>9. Added(format, d, p) = v
      BY <1>10 DEF Added, v
    <2>10. Entries(v) \subseteq Said(p)
      BY <1>5, <2>9 DEF Said, d
    <2>11. Entries(Get(config, p)) \subseteq Said(p)
      BY DEF ListInv
    <2>12. EndsWith(Get(config', p), v)
      BY <2>2, <2>3, <2>7, AppendEnds
    <2> QED
      BY <1>10, <2>8, <2>10, <2>11, <2>12 DEF v
  <1>11. ASSUME NEW p \in ListPlaces, ~Assigns(format, d, q) \/ p # q
         PROVE  Get(config', p) = Get(config, p)
    <2>1. CASE ~Assigns(format, d, q)
      BY <1>1, <2>1 DEF d, q
    <2>2. CASE Assigns(format, d, q) /\ p # q
      <3>1. p \in Places
        BY ListPlaceFacts
      <3>2. ~Same(q, p)
        BY <1>3, <1>6, <2>2, OnePlace DEF q
      <3> QED
        BY <1>1, <1>3, <1>7, <2>2, <3>1, <3>2, ApplyGet DEF q, d, v
    <2> QED
      BY <1>11, <2>1, <2>2
  <1> SUFFICES ASSUME NEW p \in ListPlaces
               PROVE  /\ Entries(Get(config', p)) \subseteq Said(p)
                      /\ Assigns(format, d, p) /\ Appended(p)' =>
                            EndsWith(Get(config', p), Assigned(d, p))
    BY <1>2, <1>4, <1>8 DEF ListInv
  <1>12. CASE Assigns(format, d, q) /\ p = q
    BY <1>10, <1>12
  <1>13. CASE ~(Assigns(format, d, q) /\ p = q)
    <2>1. Get(config', p) = Get(config, p)
      BY <1>11, <1>13
    <2>2. Assigns(format, d, p) /\ Appended(p)' => Appended(p)
      BY <1>9, <1>13 DEF q
    <2> QED
      BY <2>1, <2>2 DEF ListInv, d
  <1> QED
    BY <1>12, <1>13

LEMMA ListParseThrows ==
    ASSUME IInv, ListInv, ParseThrows
    PROVE  ListInv'
  <1>1. /\ loader.pc = "parse" /\ loader' = [loader EXCEPT !.pc = "idle"]
        /\ config' = Enter(config, Order[NextPlace][1])
        /\ UNCHANGED <<env, isValid, read>>
    BY Zenon DEF ParseThrows, Fail, Goto, loadFrame
  <1>2. Types /\ Settings /\ Control /\ UNCHANGED format
    BY <1>1, Zenon DEF IInv, env
  <1>3. loader'.pc = "idle" /\ isValid' = FALSE
    BY <1>1, <1>2 DEF Types, Loaders, Control
  <1>4. \A p \in ListPlaces : ~Appended(p)'
    BY <1>3 DEF Appended
  <1>5. \A p \in ListPlaces : Get(config', p) = Get(config, p)
    BY <1>1, <1>2, EnterGet, ListPlaceFacts DEF Settings
  <1>6. \A p : Said(p)' = Said(p)
    BY <1>1, <1>2 DEF Said, Everything
  <1> SUFFICES ASSUME NEW p \in ListPlaces
               PROVE  Entries(Get(config', p)) \subseteq Said(p)
    BY <1>4, <1>6 DEF ListInv
  <1> QED
    BY <1>5 DEF ListInv

\* The steps that only take the load from one place in the code to another.
LEMMA ListGoto ==
    ASSUME IInv, ListInv, UNCHANGED <<config, format, read>>, NEW pc2,
           loader' = [loader EXCEPT !.pc = pc2],
           \/ isValid' = isValid /\ pc2 \notin {"parse", "validate"}
           \/ loader.pc = "validate"
           \/ loader.pc = "parse" /\ Ahead = {}
    PROVE  ListInv'
  <1>1. loader'.pc = pc2 /\ loader'.doc = loader.doc
    BY DEF IInv, Types, Loaders
  <1>2. \A p \in ListPlaces : Appended(p)' => Appended(p)
    BY <1>1 DEF Appended
  <1> QED
    BY <1>1, <1>2, ListKept

LEMMA ListStill ==
    ASSUME ListInv, UNCHANGED <<config, format, read, loader, isValid>>
    PROVE  ListInv'
  <1>1. \A p \in ListPlaces : Appended(p)' => Appended(p)
    BY DEF Appended, Ahead
  <1> QED
    BY <1>1, ListKept

LEMMA ListNext ==
    ASSUME IInv, ListInv, [Next]_vars
    PROVE  ListInv'
  <1>1. ASSUME NEW new, WriteFile(new) PROVE ListInv'
    BY <1>1, ListStill DEF WriteFile, env
  <1>2. ASSUME NEW p, NEW k, Disturb(p, k) PROVE ListInv'
    BY <1>2, ListStill DEF Disturb, env
  <1>3. CASE OpenFile
    BY <1>3, ListOpenFile
  <1>4. CASE Parse
    BY <1>4, ListParse
  <1>5. CASE ParseThrows
    BY <1>5, ListParseThrows
  <1>6. CASE ParseDone
    BY <1>6, ListGoto DEF ParseDone, Goto, loadFrame, env
  <1>7. CASE Validate
    BY <1>7, ListGoto DEF Validate, Goto, Fail, loadFrame, env
  <1>8. CASE MainValidates
    BY <1>8, ListGoto DEF MainValidates, Goto, Fail, daemonFrame, env
  <1>9. CASE Construct
    BY <1>9, ListGoto DEF Construct, Goto, daemonFrame, env
  <1>10. CASE Check
    BY <1>10, ListGoto DEF Check, Goto, Fail, daemonFrame, env
  <1>11. CASE LoadModules
    BY <1>11, ListGoto DEF LoadModules, Goto, Fail, daemonFrame, env
  <1>12. CASE StartThreads
    BY <1>12, ListGoto DEF StartThreads, Goto, Fail, daemonFrame, env
  <1>13. CASE ReloadConfig
    BY <1>13, ListGoto DEF ReloadConfig, Goto, env
  <1>14. ASSUME NEW a, Accept(a) PROVE ListInv'
    BY <1>14, ListStill DEF Accept, sessionFrame, env
  <1>15. CASE EndSession
    BY <1>15, ListStill DEF EndSession, sessionFrame, env
  <1>16. ASSUME NEW u, AuthMessage(u) PROVE ListInv'
    BY <1>16, ListStill DEF AuthMessage, sessionFrame, env
  <1>17. CASE UNCHANGED vars
    BY <1>17, ListStill DEF vars, env
  <1> QED
    BY <1>1, <1>2, <1>3, <1>4, <1>5, <1>6, <1>7, <1>8, <1>9, <1>10, <1>11, <1>12, <1>13,
       <1>14, <1>15, <1>16, <1>17, Zenon DEF Next

LEMMA InvLists ==
    ASSUME IInv, ListInv, isValid = TRUE
    PROVE  ListsOfFile
  <1> SUFFICES ASSUME NEW p \in ListPlaces
               PROVE  LET list == ListAt(config, p) IN
                      /\ EndsWith(list, Added(format, loader.doc, p))
                      /\ \A i \in DOMAIN list : \E d \in Everything :
                            \E j \in DOMAIN Added(format, d, p) : list[i] = Added(format, d, p)[j]
    BY Zenon DEF ListsOfFile
  <1> DEFINE list == ListAt(config, p)
  <1>1. list = Get(config, p) /\ list \in Seq(Words)
    BY ListPlaceFacts, ListTyped DEF IInv
  <1> HIDE DEF list
  <1>2. EndsWith(list, Added(format, loader.doc, p))
    <2>1. CASE Assigns(format, loader.doc, p)
      BY <1>1, <2>1 DEF ListInv, Appended, Added
    <2>2. CASE ~Assigns(format, loader.doc, p)
      <3>1. Added(format, loader.doc, p) = <<>>
        BY <2>2 DEF Added
      <3>2. Len(list) \in Nat /\ Len(<<>>) = 0
        BY <1>1, LenProperties
      <3> QED
        BY <3>1, <3>2 DEF EndsWith
    <2> QED
      BY <2>1, <2>2
  <1>3. ASSUME NEW i \in DOMAIN list
        PROVE  \E d \in Everything :
                  \E j \in DOMAIN Added(format, d, p) : list[i] = Added(format, d, p)[j]
    <2>1. list[i] \in Said(p)
      BY <1>1 DEF ListInv, Entries
    <2> QED
      BY <2>1 DEF Said, Entries
  <1> QED
    BY <1>2, <1>3 DEF list

\* A load that goes through repairs what it mentions, for any documents, number of reloads
\* and order of loads that fail or succeed: every setting that the file decides is what the
\* file alone means; the lists end with what the file adds, and have no entry that none of
\* the documents gave them.
THEOREM ReloadDoesRestart == Spec => []ReloadIsRestart
  <1>1. Init => ListInv
    BY ListInit
  <1>2. IInv /\ ListInv /\ [Next]_vars => ListInv'
    BY ListNext
  <1>3. IInv /\ ListInv => ReloadIsRestart
    <2> SUFFICES ASSUME IInv, ListInv, isValid PROVE SettingsOfFile /\ ListsOfFile
      BY DEF ReloadIsRestart
    <2>1. isValid = TRUE
      BY DEF IInv, Types
    <2> QED
      BY <2>1, InvSettings, InvLists
  <1> QED
    BY <1>1, <1>2, <1>3, DaemonConfigInvariant, PTL DEF Spec
----------------------------------------------------------------------------
\* The masks of the access lists.  What the mask of a prefix leaves of an address is a
\* quotient by a power of two; the bits of the prefix determine that quotient, by
\* induction from the highest bit, where it is zero.

\* A set of n elements has 2^n subsets.
LEMMA PowerIsNat ==
    ASSUME NEW n \in Nat
    PROVE  2^n \in Nat /\ Cardinality(SUBSET (1..n)) = 2^n /\ IsFiniteSet(SUBSET (1..n))
  <1>1. IsFiniteSet(1..n) /\ Cardinality(1..n) = n
    BY FS_Interval
  <1>2. IsFiniteSet(SUBSET (1..n)) /\ Cardinality(SUBSET (1..n)) = 2^n
    BY <1>1, FS_SUBSET
  <1> QED
    BY <1>2, FS_CardinalityType

LEMMA PowerOfZero == 2^0 = 1
  OBVIOUS

\* The subsets of 1..(n + 1) are those of 1..n, with and without n + 1.
LEMMA PowerDoubles ==
    ASSUME NEW n \in Nat
    PROVE  2^(n + 1) = 2 * 2^n
  <1> DEFINE S == SUBSET (1..n)
             T == {t \in SUBSET (1..(n + 1)) : n + 1 \in t}
             add == [s \in S |-> s \cup {n + 1}]
  <1>1. S \cup T = SUBSET (1..(n + 1)) /\ S \cap T = {}
    <2>1. 1..(n + 1) = (1..n) \cup {n + 1} /\ n + 1 \notin 1..n
      OBVIOUS
    <2> QED
      BY <2>1
  <1>2. add \in Bijection(S, T)
    <2>0. 1..(n + 1) = (1..n) \cup {n + 1} /\ n + 1 \notin 1..n
      OBVIOUS
    <2>1. add \in [S -> T]
      BY <2>0
    <2>2. \A s, t \in S : add[s] = add[t] => s = t
      BY <2>0
    <2>3. ASSUME NEW t \in T PROVE \E s \in S : add[s] = t
      <3>1. t \ {n + 1} \in S /\ (t \ {n + 1}) \cup {n + 1} = t
        BY <2>0
      <3> QED
        BY <3>1
    <2> HIDE DEF add, S, T
    <2> QED
      BY <2>1, <2>2, <2>3 DEF Bijection, Injection, Surjection, IsInjective
  <1>3. ExistsBijection(S, T)
    BY <1>2 DEF ExistsBijection
  <1>4. /\ IsFiniteSet(S) /\ Cardinality(S) = 2^n
        /\ Cardinality(SUBSET (1..(n + 1))) = 2^(n + 1) /\ 2^n \in Nat
    BY PowerIsNat, n + 1 \in Nat
  <1> HIDE DEF S, T
  <1>5. IsFiniteSet(T) /\ Cardinality(T) = Cardinality(S)
    BY <1>3, <1>4, FS_Bijection
  <1>6. Cardinality(S \cup T) = Cardinality(S) + Cardinality(T) - Cardinality(S \cap T)
    BY <1>4, <1>5, FS_Union
  <1>7. Cardinality(S \cap T) = 0
    BY <1>1, FS_EmptySet
  <1> DEFINE a == 2^n
             b == 2^(n + 1)
  <1>8. a \in Nat /\ b = a + a - 0
    BY <1>1, <1>4, <1>5, <1>6, <1>7
  <1> HIDE DEF a, b
  <1>9. b = 2 * a
    BY <1>8
  <1> QED
    BY <1>9 DEF a, b

\* A power of two as an opaque number: the provers do not know exponentiation.
Power(n) == 2^n

LEMMA Powers ==
    /\ Power(0) = 1
    /\ \A n \in Nat : Power(n) \in Nat
    /\ \A n \in Nat : Power(n + 1) = 2 * Power(n)
  <1>1. Power(0) = 1
    BY PowerOfZero DEF Power
  <1>2. ASSUME NEW n \in Nat PROVE Power(n) \in Nat
    BY PowerIsNat DEF Power
  <1>3. ASSUME NEW n \in Nat PROVE Power(n + 1) = 2 * Power(n)
    BY PowerDoubles DEF Power
  <1> QED
    BY <1>1, <1>2, <1>3

LEMMA PowerPositive == \A n \in Nat : Power(n) > 0
  <1> DEFINE T == {n \in Nat : ~(Power(n) > 0)}
  <1>1. SUFFICES ASSUME T # {} PROVE FALSE
    BY Zenon
  <1>2. PICK n \in T : \A m \in T : n <= m
    BY <1>1, LeastNumber
  <1>3. n # 0
    BY <1>2, Powers
  <1>4. n - 1 \in Nat /\ n - 1 \notin T /\ (n - 1) + 1 = n
    BY <1>2, <1>3
  <1>5. Power(n - 1) > 0 /\ Power(n - 1) \in Nat /\ Power(n) = 2 * Power(n - 1)
    BY <1>4, Powers
  <1> QED
    BY <1>2, <1>5

LEMMA Division ==
    ASSUME NEW x \in Nat, NEW m \in Nat, m > 0
    PROVE  /\ x \div m \in Nat /\ x % m \in Nat /\ x % m < m
           /\ x = m * (x \div m) + (x % m)
  OBVIOUS

LEMMA Multiples ==
    ASSUME NEW m \in Nat, m > 0, NEW q \in Int, NEW p \in Int, q < p
    PROVE  m * q + m <= m * p
  <1> DEFINE d == p - q - 1
  <1>1. d \in Nat /\ p = q + 1 + d
    OBVIOUS
  <1> HIDE DEF d
  <1>2. m * d \in Nat
    BY <1>1
  <1>3. m * p = m * q + m + m * d
    BY <1>1
  <1> QED
    BY <1>2, <1>3

\* Only the quotient leaves a remainder below m.
LEMMA Quotient ==
    ASSUME NEW x \in Nat, NEW m \in Nat, m > 0, NEW q \in Nat, NEW r \in Nat,
           r < m, x = m * q + r
    PROVE  x \div m = q
  <1> DEFINE p == x \div m
             s == x % m
  <1>1. p \in Nat /\ s \in Nat /\ s < m /\ x = m * p + s
    BY Division
  <1> HIDE DEF p, s
  <1>2. m * p \in Nat /\ m * q \in Nat
    BY <1>1
  <1>3. ~(p < q)
    <2> SUFFICES ASSUME p < q PROVE FALSE
      OBVIOUS
    <2>1. m * p + m <= m * q
      BY <1>1, Multiples
    <2> QED
      BY <1>1, <1>2, <2>1
  <1>4. ~(q < p)
    <2> SUFFICES ASSUME q < p PROVE FALSE
      OBVIOUS
    <2>1. m * q + m <= m * p
      BY <1>1, Multiples
    <2> QED
      BY <1>1, <1>2, <2>1
  <1>5. p = q
    BY <1>1, <1>3, <1>4
  <1> QED
    BY <1>5 DEF p

\* Clearing what is below m keeps the quotient by m, and nothing else.
LEMMA ClearedIsQuotient ==
    ASSUME NEW x \in Nat, NEW y \in Nat, NEW m \in Nat, m > 0
    PROVE  x - (x % m) = y - (y % m) <=> x \div m = y \div m
  <1> DEFINE p == x \div m
             r == x % m
             q == y \div m
             s == y % m
  <1>1. p \in Nat /\ r \in Nat /\ x = m * p + r /\ q \in Nat /\ s \in Nat /\ y = m * q + s
    BY Division
  <1> HIDE DEF p, q, r, s
  <1>2. x - r = m * p /\ y - s = m * q /\ m * p \in Nat /\ m * q \in Nat
    BY <1>1
  <1>3. p < q => m * p + m <= m * q
    BY <1>1, Multiples
  <1>4. q < p => m * q + m <= m * p
    BY <1>1, Multiples
  <1>5. x - r = y - s <=> p = q
    BY <1>1, <1>2, <1>3, <1>4
  <1> QED
    BY <1>5 DEF p, q, r, s

\* A quotient is its last bit and the quotient by the next power.
LEMMA LastBit ==
    ASSUME NEW x \in Nat, NEW k \in Nat
    PROVE  /\ x \div Power(k + 1) \in Nat
           /\ (x \div Power(k)) % 2 \in {0, 1}
           /\ x \div Power(k) = 2 * (x \div Power(k + 1)) + ((x \div Power(k)) % 2)
  <1> DEFINE m == Power(k)
             q == x \div m
             r == x % m
             p == q \div 2
             b == q % 2
  <1>1. m \in Nat /\ m > 0 /\ Power(k + 1) = 2 * m
    BY Powers, PowerPositive
  <1> HIDE DEF m
  <1>2. q \in Nat /\ r \in Nat /\ r < m /\ x = m * q + r
    BY <1>1, Division
  <1> HIDE DEF q, r
  <1>3. p \in Nat /\ b \in {0, 1} /\ q = 2 * p + b
    BY <1>2
  <1> HIDE DEF p, b
  <1>4. /\ x = (2 * m) * p + (m * b + r) /\ m * b + r \in Nat /\ m * b + r < 2 * m
        /\ 2 * m \in Nat /\ 2 * m > 0
    <2>1. CASE b = 0
      BY <1>1, <1>2, <1>3, <2>1
    <2>2. CASE b = 1
      BY <1>1, <1>2, <1>3, <2>2
    <2> QED
      BY <1>3, <2>1, <2>2
  <1>5. x \div (2 * m) = p
    BY <1>3, <1>4, Quotient
  <1>6. /\ x \div Power(k + 1) \in Nat /\ b \in {0, 1}
        /\ q = 2 * (x \div Power(k + 1)) + b
    BY <1>1, <1>3, <1>5
  <1> QED
    BY <1>6 DEF b, q, m

\* The quotient by a power of two is what the bits from there up say.
LEMMA QuotientIsBits ==
    ASSUME NEW x \in Addresses, NEW y \in Addresses, NEW k \in 0..Bits
    PROVE  x \div Power(k) = y \div Power(k)
             <=> \A i \in k..(Bits - 1) : Bit(x, i) = Bit(y, i)
  <1> DEFINE Agree(j) == x \div Power(j) = y \div Power(j)
             Alike(j) == \A i \in j..(Bits - 1) : Bit(x, i) = Bit(y, i)
             T == {d \in 0..Bits : ~(Agree(Bits - d) <=> Alike(Bits - d))}
  <1>1. Bits \in Nat /\ x \in Nat /\ y \in Nat /\ x < Power(Bits) /\ y < Power(Bits)
    <2>1. Bits \in Nat
      BY NetworkAccessConstants DEF NetworkAccessConstants
    <2>2. Power(Bits) \in Nat
      BY <2>1, Powers
    <2>3. x \in 0..(Power(Bits) - 1) /\ y \in 0..(Power(Bits) - 1)
      BY DEF Addresses, Power
    <2> QED
      BY <2>1, <2>2, <2>3
  <1>2. Agree(Bits)
    <2>1. Power(Bits) \in Nat /\ Power(Bits) > 0
      BY <1>1, Powers, PowerPositive
    <2>2. x = Power(Bits) * 0 + x /\ y = Power(Bits) * 0 + y
      BY <1>1, <2>1
    <2>3. x \div Power(Bits) = 0 /\ y \div Power(Bits) = 0
      BY <1>1, <2>1, <2>2, Quotient
    <2> QED
      BY <2>3
  <1>3. ASSUME NEW j \in 0..(Bits - 1), Agree(j + 1) <=> Alike(j + 1)
        PROVE  Agree(j) <=> Alike(j)
    <2> DEFINE p == x \div Power(j + 1)
               q == y \div Power(j + 1)
               b == Bit(x, j)
               c == Bit(y, j)
    <2>1. j \in Nat /\ j..(Bits - 1) = {j} \cup ((j + 1)..(Bits - 1))
      BY <1>1
    <2>2. /\ p \in Nat /\ b \in {0, 1} /\ x \div Power(j) = 2 * p + b
          /\ q \in Nat /\ c \in {0, 1} /\ y \div Power(j) = 2 * q + c
      BY <1>1, <2>1, LastBit DEF Bit, Power
    <2>3. Alike(j) <=> b = c /\ Alike(j + 1)
      BY <2>1
    <2>4. Alike(j + 1) <=> p = q
      BY <1>3
    <2> HIDE DEF p, q, b, c
    <2>5. Agree(j) <=> p = q /\ b = c
      BY <2>2
    <2> HIDE DEF Agree, Alike
    <2> QED
      BY <2>3, <2>4, <2>5
  <1>4. T = {}
    <2> SUFFICES ASSUME T # {} PROVE FALSE
      OBVIOUS
    <2> HIDE DEF Agree, Alike
    <2>0. T \subseteq Nat
      BY <1>1
    <2> HIDE DEF T
    <2>1. PICK d \in T : \A e \in T : d <= e
      BY <2>0, LeastNumber
    <2> USE DEF T
    <2>2. d # 0
      <3>1. Alike(Bits)
        BY <1>1 DEF Alike
      <3> QED
        BY <1>1, <1>2, <2>1, <3>1
    <2>3. /\ d - 1 \in 0..Bits /\ d - 1 \notin T
          /\ Bits - (d - 1) = (Bits - d) + 1 /\ Bits - d \in 0..(Bits - 1)
      BY <1>1, <2>1, <2>2
    <2>4. Agree((Bits - d) + 1) <=> Alike((Bits - d) + 1)
      BY <2>3
    <2>5. Agree(Bits - d) <=> Alike(Bits - d)
      BY <1>3, <2>3, <2>4
    <2> QED
      BY <2>1, <2>5
  <1>5. Bits - k \in 0..Bits /\ Bits - (Bits - k) = k
    BY <1>1
  <1> HIDE DEF Agree, Alike
  <1>6. Agree(k) <=> Alike(k)
    BY <1>4, <1>5
  <1> QED
    BY <1>6 DEF Agree, Alike

LEMMA MaskIsBits ==
    ASSUME NEW x \in Addresses, NEW y \in Addresses, NEW len \in 0..Bits
    PROVE  IpInCidr(x, y, len)
             <=> \A i \in (Bits - len)..(Bits - 1) : Bit(x, i) = Bit(y, i)
  <1>1. Bits \in Nat /\ Bits - len \in 0..Bits
    BY NetworkAccessConstants DEF NetworkAccessConstants
  <1>2. x \in Nat /\ y \in Nat
    BY DEF Addresses
  <1> DEFINE m == Power(Bits - len)
  <1>3. m \in Nat /\ m > 0
    BY <1>1, Powers, PowerPositive
  <1>4. Masked(x, len) = x - (x % m) /\ Masked(y, len) = y - (y % m)
    BY DEF Masked, Power
  <1> HIDE DEF m
  <1>5. Masked(x, len) = Masked(y, len) <=> x \div m = y \div m
    BY <1>2, <1>3, <1>4, ClearedIsQuotient
  <1>6. x \div m = y \div m <=> \A i \in (Bits - len)..(Bits - 1) : Bit(x, i) = Bit(y, i)
    BY <1>1, QuotientIsBits DEF m
  <1>7. len = 0 => \A i \in (Bits - len)..(Bits - 1) : Bit(x, i) = Bit(y, i)
    BY <1>1
  <1> QED
    BY <1>5, <1>6, <1>7 DEF IpInCidr

LEMMA RulesDoMatchBits == RulesMatchBits
  <1> SUFFICES ASSUME NEW rule \in Rule, NEW a \in Addresses \cup {NotIpv4}
               PROVE  IpMatchesRule(a, rule) <=> a \in Covered(rule)
    BY DEF RulesMatchBits
  <1>0. Bits \in Nat /\ NotIpv4 \notin Addresses
    BY NetworkAccessConstants DEF NetworkAccessConstants, Addresses
  <1>1. /\ rule.net \in Addresses \cup {NotIpv4} /\ rule.slash \in BOOLEAN
        /\ rule.prefix \in -1..(Bits + 1)
    BY DEF Rule
  <1>2. ParseCidr(rule)
          <=> ~(rule.net = NotIpv4 \/ (rule.slash /\ (rule.prefix < 0 \/ rule.prefix > Bits)))
    BY <1>0, <1>1 DEF ParseCidr, ParseIpv4
  <1>3. CASE ~ParseCidr(rule)
    BY <1>2, <1>3 DEF Covered, IpMatchesRule
  <1>4. CASE ParseCidr(rule)
    <2>1. rule.net \in Addresses /\ PrefixLen(rule) \in 0..Bits
      BY <1>0, <1>1, <1>4 DEF ParseCidr, ParseIpv4, PrefixLen
    <2>2. Covered(rule) = {c \in Addresses :
            \A i \in (Bits - PrefixLen(rule))..(Bits - 1) : Bit(c, i) = Bit(rule.net, i)}
      BY <1>2, <1>4 DEF Covered
    <2>3. CASE a = NotIpv4
      BY <1>0, <2>2, <2>3 DEF IpMatchesRule, ParseIpv4
    <2>4. CASE a \in Addresses
      <3>1. IpInCidr(a, rule.net, PrefixLen(rule)) <=> a \in Covered(rule)
        BY <2>1, <2>2, <2>4, MaskIsBits
      <3> QED
        BY <1>0, <1>4, <2>4, <3>1 DEF IpMatchesRule, ParseIpv4
    <2> QED
      BY <2>3, <2>4
  <1> QED
    BY <1>3, <1>4

\* A list of two parts covers what its parts match.
LEMMA ListsMatchBits ==
    ASSUME NEW hosts \in Seq(Rule), NEW networks \in Seq(Rule), NEW a \in Addresses
    PROVE  /\ a \in CoveredBy(hosts \o networks)
                <=> MatchesAny(a, hosts) \/ MatchesAny(a, networks)
           /\ hosts \o networks = <<>> <=> hosts = <<>> /\ networks = <<>>
  <1> DEFINE both == hosts \o networks
  <1>1. /\ Len(hosts) \in Nat /\ Len(networks) \in Nat
        /\ DOMAIN hosts = 1..Len(hosts) /\ DOMAIN networks = 1..Len(networks)
        /\ DOMAIN both = 1..(Len(hosts) + Len(networks))
        /\ \A i \in DOMAIN hosts : hosts[i] \in Rule /\ both[i] = hosts[i]
        /\ \A i \in DOMAIN networks :
              networks[i] \in Rule /\ both[Len(hosts) + i] = networks[i]
    OBVIOUS
  <1>2. both = <<>> <=> hosts = <<>> /\ networks = <<>>
    OBVIOUS
  <1> HIDE DEF both
  <1>3. \A rule \in Rule : IpMatchesRule(a, rule) <=> a \in Covered(rule)
    BY RulesDoMatchBits DEF RulesMatchBits
  <1>4. a \in CoveredBy(both) <=> \E i \in DOMAIN both : a \in Covered(both[i])
    BY DEF CoveredBy
  <1>5. ASSUME NEW i \in DOMAIN both
        PROVE  \/ i \in DOMAIN hosts
               \/ \E j \in DOMAIN networks : i = Len(hosts) + j
    <2>1. CASE i <= Len(hosts)
      BY <1>1, <2>1
    <2>2. CASE i > Len(hosts)
      <3>1. i - Len(hosts) \in DOMAIN networks /\ i = Len(hosts) + (i - Len(hosts))
        BY <1>1, <2>2
      <3> QED
        BY <3>1
    <2> QED
      BY <1>1, <2>1, <2>2
  <1>6. \A i \in DOMAIN hosts : i \in DOMAIN both
    BY <1>1
  <1>7. \A i \in DOMAIN networks : Len(hosts) + i \in DOMAIN both
    BY <1>1
  <1>8. MatchesAny(a, hosts) \/ MatchesAny(a, networks) => a \in CoveredBy(both)
    BY <1>1, <1>3, <1>4, <1>6, <1>7 DEF MatchesAny
  <1>9. a \in CoveredBy(both) => MatchesAny(a, hosts) \/ MatchesAny(a, networks)
    BY <1>1, <1>3, <1>4, <1>5 DEF MatchesAny
  <1> QED
    BY <1>2, <1>8, <1>9 DEF both

LEMMA AllowedIsAdmissible ==
    ASSUME NEW lists \in AccessLists
    PROVE  {a \in Addresses : IsAllowed(a, lists)} = Admissible(lists)
  <1>1. /\ lists.denied_hosts \in Seq(Rule) /\ lists.denied_networks \in Seq(Rule)
        /\ lists.allowed_hosts \in Seq(Rule) /\ lists.allowed_networks \in Seq(Rule)
    BY DEF AccessLists
  <1>2. ASSUME NEW a \in Addresses
        PROVE  IsAllowed(a, lists) <=> a \in Admissible(lists)
    <2>1. a \in CoveredBy(lists.denied_hosts \o lists.denied_networks)
            <=> MatchesAny(a, lists.denied_hosts) \/ MatchesAny(a, lists.denied_networks)
      BY <1>1, ListsMatchBits
    <2>2. a \in CoveredBy(lists.allowed_hosts \o lists.allowed_networks)
            <=> MatchesAny(a, lists.allowed_hosts) \/ MatchesAny(a, lists.allowed_networks)
      BY <1>1, ListsMatchBits
    <2>3. lists.allowed_hosts \o lists.allowed_networks = <<>>
            <=> lists.allowed_hosts = <<>> /\ lists.allowed_networks = <<>>
      BY <1>1, ListsMatchBits
    <2>4. ~MatchesAny(a, <<>>)
      BY DEF MatchesAny
    <2> QED
      BY <2>1, <2>2, <2>3, <2>4 DEF IsAllowed, Admissible
  <1>3. Admissible(lists) \subseteq Addresses
    <2>1. \A rules : CoveredBy(rules) \subseteq Addresses
      BY DEF CoveredBy, Covered
    <2> QED
      BY <2>1 DEF Admissible
  <1> QED
    BY <1>2, <1>3

\* The masks of is_allowed admit, of all addresses and for any lists, those that the lists
\* name bit by bit: for addresses of any width, 32 bits among them.
THEOREM AccessDoesMatchBits == Spec => []AccessMatchesBits
  <1>1. IInv => AccessMatchesBits
    <2> SUFFICES ASSUME IInv PROVE AccessMatchesBits
      OBVIOUS
    <2>1. access \in {s.access : s \in Starts}
      BY DEF IInv, Types
    <2>2. access \in AccessLists
      BY <2>1, DaemonConfigConstants, Zenon DEF DaemonConfigConstants
    <2> QED
      BY <2>2, AllowedIsAdmissible, RulesDoMatchBits DEF AccessMatchesBits
  <1> QED
    BY <1>1, DaemonConfigInvariant, PTL
=============================================================================
