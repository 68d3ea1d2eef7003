------------------------------ MODULE MCPairing ------------------------------
(* Pairing with two Workers, one in the Hub's directory.  The bounds: two   *)
(* tokens with a fault or one more start but no restore; one Worker with a  *)
(* restore; and both with one token.                                        *)
EXTENDS Pairing
CONSTANTS w1, w2, n1, k1, k2, local
MCBounds ==
    {[workers |-> {w1, w2}, tokens |-> 2, starts |-> 2, restores |-> 0, faults |-> 1],
     [workers |-> {w1, w2}, tokens |-> 2, starts |-> 3, restores |-> 0, faults |-> 0],
     [workers |-> {w1}, tokens |-> 2, starts |-> 2, restores |-> 1, faults |-> 1],
     [workers |-> {w1, w2}, tokens |-> 1, starts |-> 2, restores |-> 1, faults |-> 2]}
=============================================================================
