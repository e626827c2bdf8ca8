--------------------------- MODULE MCConmonConsole ---------------------------
(* TLC instances of ConmonConsole: the input files of the run. *)
EXTENDS ConmonConsole

SmallFiles == {<< >>, <<"request", "print">>, <<"quit", "request">>}
=============================================================================
