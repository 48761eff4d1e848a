------------------------------ MODULE MCDatalog ------------------------------
(* Instances of Datalog: its constants are numbers, given in the .cfg files. *)
EXTENDS Datalog
=============================================================================
