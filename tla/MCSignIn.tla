------------------------------ MODULE MCSignIn ------------------------------
(* Two pages of one browser, at one address or at two. *)
EXTENDS SignIn

CONSTANTS t1, t2, here

MCAddressOf == [t \in Tabs |-> here]

=============================================================================
