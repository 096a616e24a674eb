------------------------------ MODULE MCImages ------------------------------
(* One transcription, two deletes of it and one session presented twice.    *)
EXTENDS Images

CONSTANTS t1, s1

MCBinds == [s \in Sessions |-> t1]
MCSessionOf == [p \in Posts |-> s1]
MCTarget == [d \in Deletes |-> t1]
=============================================================================
