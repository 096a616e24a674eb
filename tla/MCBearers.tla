------------------------------ MODULE MCBearers ------------------------------
(* Two accounts: one with two logins and two regenerations, the other with  *)
(* a login; an MCP request with the bearer of any.                          *)
EXTENDS Bearers

CONSTANTS a1, a2, l3

MCAccount == [m \in Makers |-> IF m = l3 THEN a2 ELSE a1]
=============================================================================
