---------------------------- MODULE MCRpcSystem ----------------------------
(* Two Files windows on one or two folders.                                *)
EXTENDS RpcSystem

CONSTANTS w1, w2, a, b

MCWindows  == {w1, w2}
MCOrder    == <<w1, w2>>
MCDirs     == {a, b}
MCOneDir   == {a}
MCRequests == {List(d) : d \in Dirs} \cup {Rm(d) : d \in Dirs}
MCMerged   == {List(d) : d \in Dirs}
MCPatience == [r \in MCRequests |-> 1]
MCCallIds  == 1..MaxCalls
=============================================================================
