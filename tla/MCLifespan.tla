---------------------------- MODULE MCLifespan ----------------------------
\* Two requests on two users' rows, the cleanup loop, one start and one stop.
EXTENDS Lifespan, TLC
CONSTANTS x1, x2, u1, u2

OwnerOf == (x1 :> u1) @@ (x2 :> u2)
===========================================================================
