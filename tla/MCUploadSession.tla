--------------------------- MODULE MCUploadSession ---------------------------
(* One session, two POSTs and two starts that compete for it and for the     *)
(* lock, the sweep, and a crash.                                             *)
EXTENDS UploadSession
=============================================================================
