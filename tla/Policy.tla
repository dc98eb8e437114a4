------------------------------- MODULE Policy -------------------------------
(***************************************************************************)
(* How the configuration classifies a path (src/config/policy.rs).         *)
(*                                                                         *)
(* An absolute path is the sequence of its components.  Globs are matched  *)
(* against texts: a path below the project root is written relative to it, *)
(* any other path is written in full.  A list of the configuration is the  *)
(* set of the texts that one of its globs matches.                         *)
(***************************************************************************)
EXTENDS Naturals, Sequences

CONSTANTS
    Names,       \* the components of paths
    Root,        \* the project root
    Cwd,         \* the working directory, a set of at most one path
    Whitelist, Blacklist, DisableLog   \* the lists of the configuration

Paths == Seq(Names)
Relative(p) == [absolute |-> FALSE, names |-> p]
Absolute(p) == [absolute |-> TRUE, names |-> p]

Below(p, q) == Len(q) =< Len(p) /\ \A i \in 1..Len(q) : p[i] = q[i]

\* rel: the root is stripped where it can be.
rel(p) ==
    IF Below(p, Root) THEN Relative([i \in 1..(Len(p) - Len(Root)) |-> p[i + Len(Root)]])
    ELSE Absolute(p)

\* The implicit globs .sandbox and .sandbox/**, unless the user has .sandbox
\* on the whitelist.
ImplicitBlacklist ==
    IF Relative(<<".sandbox">>) \in Whitelist THEN {}
    ELSE {t \in [absolute : {FALSE}, names : Paths] :
             Len(t.names) > 0 /\ t.names[1] = ".sandbox"}

blacklist == Blacklist \cup ImplicitBlacklist

root_is_whitelisted ==
    Relative(<<".">>) \notin Blacklist /\ Relative(<<>>) \notin Blacklist

cwd_is_whitelisted == \E c \in Cwd : Absolute(c) \notin Blacklist

ImplicitlyWhitelisted(p) ==
    \/ ~rel(p).absolute /\ root_is_whitelisted
    \/ cwd_is_whitelisted /\ \E c \in Cwd : Below(p, c)

classify(p) ==
    IF rel(p) \in blacklist THEN "FuseOnly"
    ELSE IF rel(p) \in Whitelist \/ ImplicitlyWhitelisted(p) THEN "Passthrough"
    ELSE "CopyOnWrite"

\* The access is written to the log.
should_log(p) ==
    /\ rel(p) \notin blacklist /\ rel(p) \notin Whitelist
    /\ ~(~rel(p).absolute /\ root_is_whitelisted)
    /\ ~(cwd_is_whitelisted /\ \E c \in Cwd : Below(p, c))
    /\ rel(p) \notin DisableLog
=============================================================================
