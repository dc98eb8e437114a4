---------------------------- MODULE MCNamespace ----------------------------
(***************************************************************************)
(* Two names, each a file or a directory with one name in it, which may be *)
(* a directory of one name again, over hosts that have something under the *)
(* first, the second or both.                                              *)
(***************************************************************************)
EXTENDS Namespace

MCPaths == {<<"d">>, <<"d", "x">>, <<"d", "x", "x">>, <<"e">>, <<"e", "x">>, <<"e", "x", "x">>}

HostWith(dirs, files) ==
    [p \in MCPaths |-> IF p \in dirs THEN "Dir" ELSE IF p \in files THEN "File" ELSE "None"]

MCHosts ==
    {HostWith({}, {}),
     HostWith({<<"d">>}, {<<"d", "x">>}),
     HostWith({<<"d">>}, {<<"d", "x">>, <<"e">>}),
     HostWith({<<"d">>, <<"d", "x">>}, {<<"d", "x", "x">>}),
     HostWith({<<"d">>, <<"d", "x">>}, {<<"e">>}),
     HostWith({<<"d">>, <<"e">>, <<"e", "x">>}, {<<"e", "x", "x">>})}
=============================================================================
