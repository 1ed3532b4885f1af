---------------------------- MODULE MCJobHistory ----------------------------
(* JobHistory on the instances of MCJobController. *)
EXTENDS JobHistory, MCJobController
=============================================================================
