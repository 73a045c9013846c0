----------------------------- MODULE MCTransport -----------------------------
(* Two windows, one merged query and one write.                            *)
EXTENDS Transport

CONSTANTS w1, w2, list, save

MCWindows  == {w1, w2}
MCRequests == {list, save}
MCMerged   == {list}
MCPatience == [r \in MCRequests |-> IF r = save THEN 2 ELSE 1]
=============================================================================
