---------------------------- MODULE MCConmonSync ----------------------------
(* TLC instances of ConmonSync: the command lines of each run. *)
EXTENDS ConmonSync

LocalMeters == {"local"}
=============================================================================
