------------------------------ MODULE CmmClient ------------------------------
(***************************************************************************)
(* examples/conmon_manager/cmm_client_test.c: it connects to the ConMon    *)
(* manager, waits until it knows the options and the state of the system,  *)
(* and then listens to it, or sets its interface and waits until that has  *)
(* been applied.  Four loops wait in the same way, each for something that *)
(* the client learns while it processes.                                   *)
(*                                                                         *)
(* External: the manager, which applies one configuration at a time, from  *)
(* any of its clients, and the library, which hands on the state that the  *)
(* manager reports.  The manager reports the state that a request has made *)
(* before it completes the request: the program relies on it.              *)
(***************************************************************************)

\* What main waits for, in turn.
Waits == {"connection", "options and state", "request", "pending", "events"}

\* Whose configuration is to be applied.
Owners == {"nobody", "mine", "other"}

VARIABLES
  mode,     \* what the command line asks for
  pc,       \* where the program is: at the head of a loop, in select() or in the library
  wait,     \* what the loop waits for
  running,
  told,     \* what has been printed of the configuration
  connected,\* at the library
  options,  \* at the library: does it know them, and is the interface among them
  state,    \* at the library: the pending configuration, if the state is known
  request,  \* the request for the configuration
  behind,   \* the manager has not reported the state that the request has made
  cut,      \* the connection has been lost with the request in flight
  pending,  \* at the manager
  fate,     \* history: what the manager has done with the program's configuration
  meddled   \* history: another client's configuration was there when the manager refused the
            \* request, or has come since the manager handled it

manager == <<pending, fate, meddled>>
library == <<connected, options, state, request, behind, cut>>
vars    == <<mode, pc, wait, running, told, library, manager>>

TypeOK ==
  /\ mode \in {"none", "-l", "-i"}
  /\ pc \in {"setup", "head", "select", "process", "configure", "cleanup", "done"}
  /\ wait \in Waits /\ running \in BOOLEAN
  /\ told \in {"nothing", "applied", "no changes"}
  /\ connected \in BOOLEAN /\ options \in {"unknown", "with", "without"}
  /\ state \in {"unknown"} \cup Owners
  /\ request \in {"none", "sent", "handled", "completed"}
  /\ behind \in BOOLEAN /\ cut \in BOOLEAN
  /\ pending \in Owners
  /\ fate \in {"none", "taken", "applied", "replaced"} /\ meddled \in BOOLEAN

Init ==
  /\ mode \in {"none", "-l", "-i"}
  /\ pc = "setup" /\ wait = "connection" /\ running = TRUE /\ told = "nothing"
  /\ connected = FALSE /\ options = "unknown" /\ state = "unknown"
  /\ request = "none" /\ behind = FALSE /\ cut = FALSE
  /\ pending \in {"nobody", "other"} /\ fate = "none" /\ meddled = FALSE

-----------------------------------------------------------------------------
(* main. *)

\* Wrong arguments and a missing environment end the program, any other error cleans up.
SetUp ==
  /\ pc = "setup" /\ pc' \in {"head", "cleanup", "done"}
  /\ UNCHANGED <<mode, wait, running, told, library, manager>>

\* cmm_client_has_active_request
Active == request \in {"sent", "handled"}

\* A bug in cmm_test_set_interface: the request is not waited for.
AwaitedAtOnce ==
  \/ wait = "connection" /\ connected
  \/ wait = "options and state" /\ options # "unknown" /\ state # "unknown"
  \/ wait = "request"
  \/ wait = "pending" /\ state = "nobody"

\* What ends each loop; the one that listens has no end.
Awaited ==
  \/ wait = "connection" /\ connected
  \/ wait = "options and state" /\ options # "unknown" /\ state # "unknown"
  \/ wait = "request" /\ ~Active
  \/ wait = "pending" /\ state = "nobody"

\* A bug in the wait for the configuration: nobody looks at running there.
TurnUnstoppable ==
  /\ pc = "head" /\ ~Awaited
  /\ pc' = IF running \/ wait = "pending" THEN "select" ELSE "cleanup"
  /\ UNCHANGED <<mode, wait, running, told, library, manager>>

\* One turn of a loop, unless the program is to end.
Turn ==
  /\ pc = "head" /\ ~Awaited
  /\ pc' = IF running THEN "select" ELSE "cleanup"
  /\ UNCHANGED <<mode, wait, running, told, library, manager>>

\* cmm_client_test_run: select(), for a second at most.  Nobody looks at its errors.
Select ==
  /\ pc = "select" /\ pc' \in {"process", "head"}
  /\ UNCHANGED <<mode, wait, running, told, library, manager>>

\* cmm_client_process returns.  Nor at its errors.
ProcessReturns ==
  /\ pc = "process" /\ pc' = "head"
  /\ UNCHANGED <<mode, wait, running, told, library, manager>>

\* A loop has ended: what comes next.
Proceed ==
  /\ pc = "head" /\ Awaited
  /\ \/ /\ wait = "connection" /\ wait' = "options and state" /\ UNCHANGED <<pc, told>>
     \/ /\ wait = "options and state" /\ UNCHANGED told
        /\ \/ mode = "none" /\ pc' = "cleanup" /\ UNCHANGED wait
           \/ mode = "-i" /\ pc' = "configure" /\ UNCHANGED wait
           \/ mode = "-l" /\ wait' = "events" /\ UNCHANGED pc
     \/ /\ wait = "request" /\ state # "nobody" /\ wait' = "pending" /\ UNCHANGED <<pc, told>>
     \/ /\ wait = "request" /\ state = "nobody" /\ told' = "no changes"
        /\ pc' = "cleanup" /\ UNCHANGED wait
     \/ /\ wait = "pending" /\ told' = "applied" /\ pc' = "cleanup" /\ UNCHANGED wait
  /\ UNCHANGED <<mode, running, library, manager>>

\* cmm_test_set_interface: the interface may be unknown, and the library refuse the request.
Configure ==
  /\ pc = "configure"
  /\ \/ options = "with" /\ pc' = "head" /\ wait' = "request" /\ request' = "sent"
     \/ pc' = "cleanup" /\ UNCHANGED <<wait, request>>
  /\ UNCHANGED <<mode, running, told, connected, options, state, behind, cut, manager>>

\* The client is disconnected and deleted.  Whatever has happened, main returns 0.
Cleanup ==
  /\ pc = "cleanup" /\ pc' = "done" /\ connected' = FALSE
  /\ UNCHANGED <<mode, wait, running, told, options, state, request, behind, cut, manager>>

\* SIGINT, once its handler is set.
Interrupt ==
  /\ pc \notin {"setup", "done"} /\ running /\ running' = FALSE
  /\ UNCHANGED <<mode, pc, wait, told, library, manager>>

Finished == pc = "done" /\ UNCHANGED vars

Main == SetUp \/ Turn \/ Select \/ ProcessReturns \/ Proceed \/ Configure \/ Cleanup

-----------------------------------------------------------------------------
(* The events of cmm_client_test_event, which only prints them. *)

Processing == pc = "process" /\ UNCHANGED <<mode, pc, wait, running, told, manager>>

\* When the connection is lost, a request in flight completes with it.
ConnectionChanged ==
  /\ Processing /\ connected' = ~connected
  /\ IF connected /\ Active
       THEN request' = "completed" /\ cut' = TRUE
       ELSE UNCHANGED <<request, cut>>
  /\ UNCHANGED <<options, state, behind>>

OptionsChanged ==
  /\ Processing /\ connected /\ options' \in {"with", "without"}
  /\ UNCHANGED <<connected, state, request, behind, cut>>

StateChanged ==
  /\ Processing /\ connected /\ state' = pending /\ behind' = FALSE
  /\ UNCHANGED <<connected, options, request, cut>>

\* Its result, which nobody looks at, may be an error.
RequestCompleted ==
  /\ Processing /\ connected /\ request = "handled" /\ ~behind /\ request' = "completed"
  /\ UNCHANGED <<connected, options, state, behind, cut>>

Events == ConnectionChanged \/ OptionsChanged \/ StateChanged \/ RequestCompleted

-----------------------------------------------------------------------------
(* The manager. *)

around == <<mode, pc, wait, running, told, connected, options, state, cut>>

\* It takes the configuration of the request, or it has nothing to change, or refuses.
Handles ==
  /\ request = "sent" /\ request' = "handled"
  /\ \/ pending' = "mine" /\ fate' = "taken" /\ behind' = TRUE /\ meddled' = FALSE
     \/ meddled' = ("other" \in {pending, state}) /\ UNCHANGED <<pending, fate, behind>>
  /\ UNCHANGED around

Applies ==
  /\ pending # "nobody" /\ pending' = "nobody"
  /\ fate' = IF pending = "mine" THEN "applied" ELSE fate
  /\ UNCHANGED <<around, request, behind, meddled>>

\* Another client of the manager sets a configuration of its own.
OtherConfigures ==
  /\ pending # "other" /\ pending' = "other" /\ meddled' = TRUE
  /\ fate' = IF pending = "mine" THEN "replaced" ELSE fate
  /\ UNCHANGED <<around, request, behind>>

Manager == Handles \/ Applies \/ OtherConfigures

Next == Main \/ Interrupt \/ Events \/ Manager \/ Finished

Spec == Init /\ [][Next]_vars

\* The program is one thread; select() has a time-out, and processing returns.
FairSpec == Spec /\ WF_vars(Main)

-----------------------------------------------------------------------------
(* Properties. *)

\* Whatever the program says of its configuration, the request has been completed and the
\* configuration is no longer pending, however late the client learns of it; and "applied" is
\* said of a configuration that was applied.  But the program sees only that something was
\* pending, not whose: with another client's configuration in the way "applied" (336) is said
\* of one that was refused or replaced, too.  Unless the connection was lost on the way.
SaidWhenSettled ==
  told # "nothing" /\ ~cut =>
    /\ request = "completed" /\ pending # "mine"
    /\ told = "applied" /\ ~meddled => fate = "applied"

\* SIGINT ends each of the loops, whatever the manager does or fails to do.
Stops == ~running ~> pc = "done"

=============================================================================
