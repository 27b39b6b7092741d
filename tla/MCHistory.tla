------------------------------ MODULE MCHistory ------------------------------
(* The small instances of MCDatabase with the history of their commands. *)
EXTENDS MCDatabase, CommandHistory
=============================================================================
