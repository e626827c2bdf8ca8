----------------------------- MODULE BrowsingTest -----------------------------
(***************************************************************************)
(* examples/browsing/dante_browsing_test.c: it browses for devices and     *)
(* prints what it finds, and reads lines that ask for devices to be        *)
(* confirmed again.  Its loop selects stdin and the sockets of the browse, *)
(* and also processes the browse when a resolve is to time out.            *)
(*                                                                         *)
(* External: the browsing library, which calls back while it processes and *)
(* while a browse is started; and stdin, with the lines that stdio has     *)
(* read ahead.  The handler of SIGINT is never set.                        *)
(***************************************************************************)
EXTENDS Naturals

CONSTANTS
  Socks,    \* the sockets the browse may have
  Stdin,    \* descriptor 0
  MaxTyped  \* bound on the lines that are typed

VARIABLES
  pc,       \* where the program is; in "process" it is inside db_browse_process
  browse, env, \* the handles of main that are not NULL
  result,   \* result, as far as it is success
  sockets,  \* test.sockets
  sockets_changed,
  curr_sockets,
  next_resolve_timeout, \* "none", or whether its time has come
  browsed,  \* at the library: the sockets of the browse
  typed,    \* lines in the kernel that have not been read
  ahead,    \* lines that stdio has read ahead
  ntyped,   \* how many lines have been typed, for the bound
  closed    \* stdin has been closed

handles == <<browse, env, result>>
loop    == <<sockets, sockets_changed, curr_sockets, next_resolve_timeout>>
input   == <<typed, ahead, ntyped, closed>>
vars    == <<pc, handles, loop, browsed, input>>

TypeOK ==
  /\ pc \in {"setup", "start", "sockets", "select", "timeout", "process", "changed", "stdin",
             "cleanup", "done"}
  /\ browse \in BOOLEAN /\ env \in BOOLEAN /\ result \in BOOLEAN
  /\ sockets \subseteq Socks \cup {Stdin} /\ sockets_changed \in BOOLEAN
  /\ curr_sockets \subseteq Socks \cup {Stdin}
  /\ next_resolve_timeout \in {"none", "later", "due"}
  /\ browsed \subseteq Socks
  /\ typed \in 0 .. MaxTyped /\ ahead \in 0 .. MaxTyped /\ ntyped \in 0 .. MaxTyped
  /\ closed \in BOOLEAN

Init ==
  /\ pc = "setup" /\ browse = FALSE /\ env = FALSE /\ result = TRUE
  /\ sockets = {} /\ sockets_changed = FALSE /\ curr_sockets = {}
  /\ next_resolve_timeout = "none" /\ browsed = {}
  /\ typed = 0 /\ ahead = 0 /\ ntyped = 0 /\ closed = FALSE

-----------------------------------------------------------------------------
(* main. *)

\* The options, of which any may be wrong, the environment and the browse.
SetUp ==
  /\ pc = "setup"
  /\ \/ pc' = "done" /\ UNCHANGED handles
     \/ pc' = "cleanup" /\ env' \in BOOLEAN /\ result' = FALSE /\ UNCHANGED browse
     \/ pc' = "start" /\ env' = TRUE /\ browse' = TRUE /\ UNCHANGED result
  /\ UNCHANGED <<loop, browsed, input>>

\* db_browse_start_config opens sockets, and may call back already.
Start ==
  /\ pc = "start"
  /\ \/ pc' = "sockets" /\ browsed' \in SUBSET Socks /\ sockets_changed' \in BOOLEAN
        /\ UNCHANGED result
     \/ pc' = "cleanup" /\ result' = FALSE /\ UNCHANGED <<browsed, sockets_changed>>
  /\ UNCHANGED <<browse, env, sockets, curr_sockets, next_resolve_timeout, input>>

\* The browse and the environment are released, if there are any.
Cleanup ==
  /\ pc = "cleanup" /\ pc' = "done"
  /\ browse' = FALSE /\ env' = FALSE /\ browsed' = {}
  /\ UNCHANGED <<result, loop, input>>

-----------------------------------------------------------------------------
(* db_browse_test_main_loop. *)

\* A bug in the update of the sockets: stdin is left out.
GetSocketsOnly(next) ==
  \/ pc' = next /\ sockets' = browsed /\ UNCHANGED result
  \/ pc' = "cleanup" /\ result' = FALSE /\ sockets' = {}

\* The sockets are cleared and listed, and stdin is added; or there is an error.
GetSockets(next) ==
  \/ pc' = next /\ sockets' = browsed \cup {Stdin} /\ UNCHANGED result
  \/ pc' = "cleanup" /\ result' = FALSE /\ sockets' = {}

Begin ==
  /\ pc = "sockets"
  /\ GetSockets("select") /\ curr_sockets' = {}
  /\ UNCHANGED <<browse, env, sockets_changed, next_resolve_timeout, browsed, input>>

\* A closed stdin is readable, and what stdio has read ahead does not make it so.
StdinReadable == typed > 0 \/ closed

\* select() returns what is readable or, with nothing, when select_timeout is over: that is
\* set once, and where select() counts it down it is over at once from then on.
Select ==
  /\ pc = "select"
  /\ \/ pc' = "cleanup" /\ result' = FALSE /\ UNCHANGED curr_sockets
     \/ /\ pc' = "timeout" /\ UNCHANGED result
        /\ curr_sockets' \in SUBSET sockets
        /\ Stdin \in curr_sockets' <=> Stdin \in sockets /\ StdinReadable
  /\ UNCHANGED <<browse, env, sockets, sockets_changed, next_resolve_timeout, browsed, input>>

\* A bug in the loop: the time-out of a resolve is not looked at.
NeedsSocketsOnly ==
  /\ pc = "timeout"
  /\ pc' = IF curr_sockets # {} THEN "process" ELSE "stdin"
  /\ UNCHANGED <<handles, loop, browsed, input>>

\* processing_needed
Needs ==
  /\ pc = "timeout"
  /\ pc' = IF curr_sockets # {} \/ next_resolve_timeout = "due" THEN "process" ELSE "stdin"
  /\ UNCHANGED <<handles, loop, browsed, input>>

\* db_browse_process returns when the next resolve is to time out, or an error.
ProcessReturns ==
  /\ pc = "process"
  /\ \/ pc' = "changed" /\ next_resolve_timeout' \in {"none", "later"} /\ UNCHANGED result
     \/ pc' = "cleanup" /\ result' = FALSE /\ UNCHANGED next_resolve_timeout
  /\ UNCHANGED <<browse, env, sockets, sockets_changed, curr_sockets, browsed, input>>

\* What is printed when the network has changed is left out.
Changed ==
  /\ pc = "changed"
  /\ sockets_changed' = FALSE
  /\ IF sockets_changed
       THEN GetSockets("stdin")
       ELSE pc' = "stdin" /\ UNCHANGED <<sockets, result>>
  /\ UNCHANGED <<browse, env, curr_sockets, next_resolve_timeout, browsed, input>>

\* A bug in the loop: the end of stdin is taken for an interruption.
NextLineUnended ==
  /\ pc = "stdin"
  /\ pc' = "select" /\ curr_sockets' = {}
  /\ IF Stdin \notin curr_sockets THEN UNCHANGED <<typed, ahead>>
     ELSE IF typed + ahead > 0 THEN typed' = 0 /\ ahead' = typed + ahead - 1
     ELSE UNCHANGED <<typed, ahead>>
  /\ UNCHANGED <<handles, sockets, sockets_changed, next_resolve_timeout, browsed, ntyped, closed>>

\* fgets, if stdin was readable: it reads all that the kernel has and returns one line, of
\* which db_browse_test_process_line makes a success, or the end of stdin, or an error.
NextLine ==
  /\ pc = "stdin" /\ curr_sockets' = {}
  /\ \/ Stdin \notin curr_sockets /\ pc' = "select" /\ UNCHANGED <<typed, ahead, result>>
     \/ /\ Stdin \in curr_sockets /\ typed + ahead > 0
        /\ pc' = "select" /\ typed' = 0 /\ ahead' = typed + ahead - 1 /\ UNCHANGED result
     \/ /\ Stdin \in curr_sockets
        /\ pc' = "cleanup" /\ result' = (typed + ahead = 0) /\ UNCHANGED <<typed, ahead>>
  /\ UNCHANGED <<browse, env, sockets, sockets_changed, next_resolve_timeout, browsed, ntyped,
                 closed>>

Main ==
  \/ SetUp \/ Start \/ Cleanup \/ Begin \/ Needs \/ ProcessReturns \/ Changed \/ NextLine
  \/ Select

-----------------------------------------------------------------------------
(* The library, time, and the operator. *)

\* db_test_sockets_changed
SocketsChange ==
  /\ pc = "process"
  /\ browsed' \in SUBSET Socks /\ sockets_changed' = TRUE
  /\ UNCHANGED <<pc, handles, sockets, curr_sockets, next_resolve_timeout, input>>

Tick ==
  /\ pc # "done"
  /\ next_resolve_timeout = "later" /\ next_resolve_timeout' = "due"
  /\ UNCHANGED <<pc, handles, sockets, sockets_changed, curr_sockets, browsed, input>>

Type ==
  /\ pc # "done"
  /\ ~closed
  /\ \/ ntyped < MaxTyped /\ ntyped' = ntyped + 1 /\ typed' = typed + 1 /\ UNCHANGED closed
     \/ closed' = TRUE /\ UNCHANGED <<typed, ntyped>>
  /\ UNCHANGED <<pc, handles, loop, browsed, ahead>>

Finished == pc = "done" /\ UNCHANGED vars

Next == Main \/ SocketsChange \/ Tick \/ Type \/ Finished

Spec == Init /\ [][Next]_vars

\* The program is one thread: select() has a time-out, and processing returns.
FairSpec == Spec /\ WF_vars(Main)

-----------------------------------------------------------------------------
(* Properties. *)

\* The loop selects stdin and the sockets that the browse has, although the library changes
\* them whenever it processes, and may have changed them before the loop began.
SocketsSelected == pc = "select" => sockets = browsed \cup {Stdin}

\* A resolve that is to time out is processed, whether or not anything can be read.
ResolvesServed == next_resolve_timeout = "due" ~> next_resolve_timeout # "due" \/ pc = "done"

\* The end of stdin ends the program, however many lines stdio has read ahead, and nothing
\* is left of the browse.
StdinEnds == closed /\ pc = "select" ~> pc = "done" /\ ~browse /\ ~env

=============================================================================
