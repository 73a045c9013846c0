---------------------------- MODULE MCFileServer ----------------------------
(***************************************************************************)
(* Instance: two clients, of two users, over a small tree with a folder     *)
(* only one of them may write in, one only one of them may see, and a home. *)
(***************************************************************************)
EXTENDS FileServer

MCPaths == {<<>>, <<"pub">>, <<"pub", "a">>, <<"pub", "a", "x">>, <<"pub", "a", "y">>,
            <<"pub", "b">>, <<"pub", "b", "x">>, <<"home">>, <<"home", "alice">>}
MCUserOf == ("c1" :> "alice") @@ ("c2" :> "bob")

MCTextOf == ("c1" :> "one") @@ ("c2" :> "two")

None == [p \in MCPaths |-> NoRules]
AliceWrites == [read |-> {"*"}, write |-> {"alice"}]
AliceReads == [read |-> {"alice"}, write |-> {}]
BobWrites == [read |-> {"@users"}, write |-> {"bob"}]

\* What is on the disk, and the folders with rules.
DiskOf(files, folders, rules) ==
  [tree |-> [p \in MCPaths |-> CASE p \in folders \union {<<>>, <<"pub">>} -> "folder"
                                 [] p \in files -> "old"
                                 [] OTHER -> "absent"],
   rules |-> rules @@ None]

MCDisks ==
  { DiskOf({<<"pub", "a", "x">>, <<"pub", "b">>}, {<<"pub", "a">>, <<"pub", "a", "y">>},
           (<<"pub", "a", "y">> :> AliceWrites)),
    DiskOf({<<"pub", "a", "x">>, <<"pub", "b", "x">>}, {<<"pub", "a">>, <<"pub", "b">>, <<"home">>, <<"home", "alice">>},
           (<<"pub", "a">> :> AliceReads) @@ (<<"pub">> :> BobWrites)) }

\* For MCFileFindings: homes, and a folder to copy them to.
HomePaths == {<<>>, <<"home">>, <<"home", "alice">>, <<"home", "bob">>,
              <<"new">>, <<"new", "alice">>, <<"new", "bob">>}
HomeDisks == {[tree |-> [p \in HomePaths |-> IF p = <<>> THEN "folder" ELSE "absent"],
               rules |-> [p \in HomePaths |-> NoRules]]}
=============================================================================
