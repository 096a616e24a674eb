------------------------------- MODULE MCJwks -------------------------------
(* Logins over two rotations: the first keeps the key id, the second not.   *)
EXTENDS Jwks

CONSTANTS kidA, kidB

MCKid == [k \in Keys |-> IF k = 2 THEN kidB ELSE kidA]
=============================================================================
