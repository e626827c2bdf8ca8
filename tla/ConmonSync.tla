----------------------------- MODULE ConmonSync -----------------------------
(***************************************************************************)
(* The two ConMon programs that talk to their server synchronously:        *)
(* examples/conmon/conmon_audinate_controller.c, which sends one message   *)
(* and exits, and conmon_metering_listener.c, which sets its client up and *)
(* then prints what it hears.  Both send a request and sleep until its     *)
(* response or a time-out, whichever comes first, and handle_response      *)
(* takes any response for the one that is waited for.  The ConMon library  *)
(* is external: it calls back only from conmon_client_process.             *)
(***************************************************************************)
EXTENDS Naturals, Sequences

CONSTANTS
  CommandLines, \* the command lines the programs may be started with
  WaitTicks,    \* comms_timeout, in turns of the loop that waits
  Socks         \* the sockets the client may have

\* Controller commands, one for each way of sending; upgrade3 is one whose handler calls
\* functions of the library that may fail.  Of the listener, with and without -d.
Controls  == {"access", "master", "clocking", "upgrade3"}
Listeners == {"-d", "local"}

ASSUME SyncAssumption ==
  CommandLines \subseteq Controls \cup Listeners /\ WaitTicks \in Nat

\* The requests that main sends, each when the one before has succeeded.
Requests(line) ==
  CASE line = "access" -> <<"connect", "local">>
    [] line = "master" -> <<"connect", "broadcast">>
    [] line \in {"clocking", "upgrade3"} -> <<"connect", "control">>
    [] line = "-d" -> <<"connect", "register rx", "subscribe">>
    [] line = "local" -> <<"connect", "register tx">>

Steps   == 1 .. 3
Results == {"SUCCESS", "ERROR", "TIMEDOUT", "INVALIDPARAMETER"}

\* Before main's loop SIGINT has its default action; the controller never handles it.
Setup == {"start", "setup", "request", "wait", "process"}

VARIABLES
  line,            \* argv
  pc,              \* where the program is; "process" is inside conmon_client_process
  held,            \* what main has to clean up: env, config, client
  result,          \* of main
  step,            \* the request being made, an index of Requests(line)
  communicating,
  last_result,
  left,            \* the turns left until wait_for_response times out
  replied,         \* at the library: the result that each request has been answered with
  inflight,        \* at the library: the requests that have not been answered
  sockets,         \* at the library: the client's sockets
  client_sockets,  \* the sockets the listener selects
  g_sockets_changed,
  running

wait   == <<step, communicating, last_result, left>>
server == <<replied, inflight, sockets>>
loop   == <<client_sockets, g_sockets_changed, running>>
vars   == <<line, pc, held, result, wait, server, loop>>

TypeOK ==
  /\ line \in CommandLines
  /\ pc \in Setup \cup {"next", "loop", "listen", "cleanup", "exit", "killed"}
  /\ held \subseteq {"env", "config", "client"}
  /\ result \in Results
  /\ step \in Steps
  /\ communicating \in BOOLEAN
  /\ last_result \in Results
  /\ left \in 0 .. WaitTicks
  /\ replied \in [Steps -> Results \cup {"none"}]
  /\ inflight \subseteq Steps
  /\ sockets \subseteq Socks /\ client_sockets \subseteq Socks
  /\ g_sockets_changed \in BOOLEAN /\ running \in BOOLEAN

Init ==
  /\ line \in CommandLines
  /\ pc = "start" /\ held = {} /\ result = "SUCCESS"
  /\ step = 1 /\ communicating = FALSE /\ last_result = "SUCCESS" /\ left = 0
  /\ replied = [s \in Steps |-> "none"] /\ inflight = {} /\ sockets = {}
  /\ client_sockets = {} /\ g_sockets_changed = FALSE /\ running = TRUE

-----------------------------------------------------------------------------
(* Set-up. *)

\* The command line is right, or the program prints its usage and exits; but only an invalid
\* parameter does that.  Any other error of a handler is overwritten later, and what it has
\* built so far is sent.
ParseArgs ==
  /\ pc = "start"
  /\ \/ pc' = "setup" /\ UNCHANGED result
     \/ pc' = "exit" /\ result' = "INVALIDPARAMETER"
     \/ line = "upgrade3" /\ pc' = "setup" /\ result' = "ERROR"
  /\ UNCHANGED <<line, held, wait, server, loop>>

\* The environment, the listener's configuration and the client: each may fail.
SetUp ==
  /\ pc = "setup"
  /\ \E new \in {{}, {"env"}, {"env", "config"}, {"env", "config", "client"}} :
       /\ held' = IF line \in Listeners THEN new ELSE new \ {"config"}
       /\ IF "client" \in new
            THEN pc' = "request" /\ result' = "SUCCESS" /\ sockets' \in SUBSET Socks \ {{}}
            ELSE pc' = "cleanup" /\ result' = "ERROR" /\ UNCHANGED sockets
  /\ UNCHANGED <<line, wait, replied, inflight, loop>>

\* A bug in wait_for_response: it compares with <= and takes another turn.
RequestForOneMore ==
  /\ pc = "request"
  /\ pc' = "wait" /\ result' = "SUCCESS"
  /\ inflight' = inflight \cup {step}
  /\ communicating' = TRUE /\ left' = WaitTicks + 1
  /\ UNCHANGED <<line, held, step, last_result, replied, sockets, loop>>

\* The library takes a request, or refuses it.  wait_for_response then starts.
Request ==
  /\ pc = "request"
  /\ \/ /\ pc' = "wait" /\ result' = "SUCCESS"
        /\ inflight' = inflight \cup {step}
        /\ communicating' = TRUE /\ left' = WaitTicks
     \/ /\ pc' = "cleanup" /\ result' = "ERROR"
        /\ UNCHANGED <<inflight, communicating, left>>
  /\ UNCHANGED <<line, held, step, last_result, replied, sockets, loop>>

\* A bug in wait_for_response: the last result is returned although it is an older one's.
WaitReturningLast ==
  /\ pc = "wait"
  /\ IF communicating /\ left > 0
       THEN pc' = "process" /\ UNCHANGED result
       ELSE pc' = "next" /\ result' = last_result
  /\ UNCHANGED <<line, held, wait, server, loop>>

\* A bug in wait_for_response: it waits for a response, however long.
WaitForEver ==
  /\ pc = "wait"
  /\ IF communicating
       THEN pc' = "process" /\ UNCHANGED result
       ELSE pc' = "next" /\ result' = last_result
  /\ UNCHANGED <<line, held, wait, server, loop>>

\* wait_for_response at the head of its loop.
WaitForResponse ==
  /\ pc = "wait"
  /\ IF communicating /\ left > 0
       THEN pc' = "process" /\ UNCHANGED result
       ELSE pc' = "next" /\ result' = IF communicating THEN "TIMEDOUT" ELSE last_result
  /\ UNCHANGED <<line, held, wait, server, loop>>

\* It has slept and processed: at least one turn's time is over.
ProcessReturns ==
  /\ pc = "process"
  /\ pc' = "wait"
  /\ left' \in IF left > 0 THEN 0 .. left - 1 ELSE {0}
  /\ UNCHANGED <<line, held, result, step, communicating, last_result, server, loop>>

\* A bug in main: it goes on after a request that timed out.
NextAnyway ==
  /\ pc = "next"
  /\ IF step < Len(Requests(line)) THEN pc' = "request" /\ step' = step + 1
     ELSE pc' = "cleanup" /\ UNCHANGED step
  /\ UNCHANGED <<line, held, result, communicating, last_result, left, server, loop>>

\* main looks at the result: the next request, or the end, or the listener's loop.  The
\* listener takes SIGINT from there on, and gets its sockets, if it can.
NextRequest ==
  /\ pc = "next"
  /\ IF result = "SUCCESS" /\ step < Len(Requests(line))
       THEN pc' = "request" /\ step' = step + 1 /\ UNCHANGED <<result, client_sockets>>
     ELSE IF result = "SUCCESS" /\ line \in Listeners
       THEN /\ pc' = "loop" /\ UNCHANGED step
            /\ \/ client_sockets' = sockets /\ result' = "SUCCESS"
               \/ client_sockets' = {} /\ result' = "ERROR"
     ELSE pc' = "cleanup" /\ UNCHANGED <<step, result, client_sockets>>
  /\ UNCHANGED <<line, held, communicating, last_result, left, server, g_sockets_changed,
                 running>>

Cleanup ==
  /\ pc = "cleanup"
  /\ pc' = "exit" /\ held' = {} /\ inflight' = {} /\ sockets' = {}
  /\ UNCHANGED <<line, result, wait, replied, loop>>

-----------------------------------------------------------------------------
(* The listener's loop. *)

\* select() for a second at most, on what the listener has; its failure is not looked at.
Select ==
  /\ pc = "loop"
  /\ IF ~running THEN pc' = "cleanup"
     ELSE \/ pc' = "listen" /\ client_sockets \cap sockets # {}
          \/ UNCHANGED pc
  /\ UNCHANGED <<line, held, result, wait, server, loop>>

\* conmon_client_process_sockets returns, and the sockets are updated if needed.
Listened ==
  /\ pc = "listen" /\ pc' = "loop"
  /\ g_sockets_changed' = FALSE
  /\ client_sockets' = IF g_sockets_changed THEN sockets ELSE client_sockets
  /\ UNCHANGED <<line, held, result, wait, server, running>>

-----------------------------------------------------------------------------
(* Callbacks and signals. *)

Processing == pc \in {"process", "listen"}

\* handle_response: whichever request it is for.
HandleResponse(s, res) ==
  /\ Processing /\ s \in inflight
  /\ inflight' = inflight \ {s} /\ replied' = [replied EXCEPT ![s] = res]
  /\ communicating' = FALSE /\ last_result' = res
  /\ UNCHANGED <<line, pc, held, result, step, left, sockets, loop>>

\* handle_sockets_changed is registered by nobody: main sets two other callbacks.
Registered == FALSE

SocketsChange ==
  /\ Processing
  /\ sockets' \in SUBSET Socks \ {{}, sockets}
  /\ g_sockets_changed' = (Registered \/ g_sockets_changed)
  /\ UNCHANGED <<line, pc, held, result, wait, replied, inflight, client_sockets, running>>

Interrupt ==
  /\ \/ pc \in Setup \cup {"next", "cleanup"} /\ pc' = "killed" /\ UNCHANGED running
     \/ pc \in {"loop", "listen"} /\ running' = FALSE /\ running /\ UNCHANGED pc
  /\ UNCHANGED <<line, held, result, wait, server, client_sockets, g_sockets_changed>>

Finished == pc \in {"exit", "killed"} /\ UNCHANGED vars

Main == \/ ParseArgs \/ SetUp \/ Request \/ WaitForResponse \/ ProcessReturns \/ NextRequest
        \/ Cleanup \/ Select \/ Listened

Next ==
  \/ Main \/ SocketsChange \/ Interrupt \/ Finished
  \/ \E s \in Steps, res \in {"SUCCESS", "ERROR"} : HandleResponse(s, res)

Spec == Init /\ [][Next]_vars

\* One thread that never stops; the server and the operator may.
FairSpec == Spec /\ WF_vars(Main)

-----------------------------------------------------------------------------
(* Properties. *)

\* handle_response does not check "request id codes to ensure correct matching", and need not:
\* a wait that does not time out ends with the response to its own request.
OwnResponse == pc = "next" /\ result # "TIMEDOUT" => replied[step] = result

\* What a program returns is true: success only after every request has succeeded, a time-out
\* only when the last has not been answered; and nothing is left behind.
ExitSound ==
  pc = "exit" =>
    /\ held = {}
    /\ result = "SUCCESS" => \A s \in 1 .. Len(Requests(line)) : replied[s] = "SUCCESS"
    /\ result = "TIMEDOUT" => replied[step] = "none"

\* No server keeps a program waiting: it exits, or reaches the listener's loop.
SetUpEnds == <>(pc \in {"loop", "exit", "killed"})

\* "update sockets if needed": the listener that could get its client's sockets selects
\* those the client has.
SocketsUpdated == pc = "loop" /\ result = "SUCCESS" => client_sockets = sockets

=============================================================================
