-------------------------- MODULE MCDaemonConfig --------------------------
(* Model-checking instance of DaemonConfig: two modules, ports of two bits, *)
(* addresses of three bits.                                                 *)
EXTENDS DaemonConfig, TLC

MCModules == <<"m1", "m2">>
MCPaths == {"d1", "d2", "pw", "cert"}
MCKind == [p \in MCPaths |-> IF p \in {"d1", "d2"} THEN "dir" ELSE "file"]

Doc(says, bad) == [says |-> says, bad |-> bad]

\* Where a format has its settings.
At(f, key) == <<IF f = "ini" THEN "global" ELSE "own", key>>

Minimal == <<"m1", "path">> :> "d1"

Plain(f) ==
    At(f, "auth") :> TRUE @@ At(f, "method") :> "password"
    @@ At(f, "password_file") :> "pw" @@ Minimal

Keyed(f) ==
    At(f, "ssl") :> TRUE @@ At(f, "cert") :> "cert" @@ At(f, "auth") :> TRUE
    @@ At(f, "method") :> "public_key" @@ Minimal

\* Everything that another document mentions, with other paths, and a port in two sections.
Full(f) ==
    <<"global", "bind_port">> :> 2 @@ <<"own", "bind_port">> :> 3
    @@ <<"global", "max_connections">> :> 2 @@ <<"m2", "exclude">> :> <<"x">>
    @@ At(f, "denied_users") :> <<"u1">> @@ At(f, "auto_reload") :> TRUE
    @@ <<"m1", "delete">> :> TRUE @@ <<"m1", "allow_delete">> :> FALSE
    @@ <<"m2", "read_only">> :> TRUE @@ <<"m2", "path">> :> "d1"
    @@ <<"m1", "path">> :> "d2"
    @@ Keyed(f) @@ Plain(f)

\* 65536 in the place of a port, or no connections at all.
Invalid(f) ==
    IF f = "json" THEN <<"global", "max_connections">> :> 0 @@ Minimal
    ELSE At(f, "bind_port") :> PortModulus @@ Minimal

\* The last one has a flag of a module that is no flag.
MCDocuments ==
    [f \in Formats |->
        {Doc(Plain(f), {}), Doc(Keyed(f), {}), Doc(Full(f), {}),
         Doc(Minimal, {}),
         Doc(Invalid(f), {}),
         Doc(Minimal, {<<"m2", "read_only">>})}]

Net(a, len) == [net |-> a, slash |-> TRUE, prefix |-> len]
Host(a) == [net |-> a, slash |-> FALSE, prefix |-> -1]

Lists4(dh, dn, ah, an) ==
    [enabled |-> TRUE, denied_hosts |-> dh, denied_networks |-> dn,
     allowed_hosts |-> ah, allowed_networks |-> an]

\* The default lists name the local host and some networks; others say nothing, deny a
\* part of what they allow, or are malformed.
Default == Lists4(<<>>, <<>>, <<Host(1), Host(NotIpv4)>>, <<Net(3, 1)>>)
MCAccess ==
    {Default,
     Lists4(<<>>, <<>>, <<>>, <<>>),
     Lists4(<<Host(2)>>, <<>>, <<>>, <<Net(2, 1)>>),
     Lists4(<<>>, <<Net(1, 0)>>, <<Host(1)>>, <<>>),
     Lists4(<<>>, <<Net(1, 3)>>, <<Host(NotIpv4)>>, <<Net(0, -1)>>),
     [Lists4(<<>>, <<Net(0, 0)>>, <<>>, <<>>) EXCEPT !.enabled = FALSE]}

MCStarts ==
    UNION {{[format |-> f, doc |-> d, access |-> Default] : d \in MCDocuments[f]}
            : f \in Formats}
    \cup {[format |-> "ini", doc |-> Doc(Minimal, {}), access |-> a] : a \in MCAccess}
=============================================================================
