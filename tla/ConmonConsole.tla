---------------------------- MODULE ConmonConsole ----------------------------
(***************************************************************************)
(* examples/conmon/conmon_console_client.c: a console that sends one       *)
(* request per line and waits for its response before it reads the next,   *)
(* from a file first and then from stdin.  Its loop selects stdin and the  *)
(* sockets of the ConMon client.                                           *)
(*                                                                         *)
(* The ConMon library is external: it calls back only while it processes,  *)
(* it answers a request it has taken once, with an error when the          *)
(* connection is lost, and a call that it refuses may have written an id   *)
(* all the same.  So is stdin: the kernel's part of it, and the part that  *)
(* stdio has read ahead.                                                   *)
(***************************************************************************)
EXTENDS Naturals, Sequences

CONSTANTS
  Files,     \* what the file given with -i may contain: sequences of lines
  MaxTyped,  \* how many lines the operator types at most
  Socks,     \* the sockets the client may have
  Stdin,     \* descriptor 0
  Ids, NoId  \* request ids, and CONMON_CLIENT_NULL_REQ_ID

\* A line sends a request, or only prints (a list, a usage text, an empty line), or is q.
Lines == {"request", "print", "quit"}

ASSUME ConsoleAssumption ==
  /\ Files \subseteq Seq(Lines)
  /\ MaxTyped \in Nat
  /\ Stdin \notin Socks /\ NoId \notin Ids

VARIABLES
  auto,       \* -a was given
  file,       \* the lines of the file that have not been read
  pc,         \* where the program is
  processing, \* it is inside conmon_client_process or conmon_client_process_sockets
  g_running, g_req_id, g_sockets_changed,
  next_action_time, \* is not zero
  all_sockets,      \* what the loop selects
  ready,            \* select_sockets after select()
  connected,  \* at the library: conmon_client_state is CONMON_CLIENT_CONNECTED
  inflight,   \* at the library: the requests it has not answered
  sockets,    \* at the library: the client's sockets
  typed,      \* lines in the kernel that have not been read
  ahead,      \* lines that stdio has read ahead
  ntyped,     \* how many lines have been typed, for the bound
  closed,     \* stdin has been closed
  refused     \* history: the id in g_req_id was written by a call that failed

line    == <<g_running, g_req_id, refused, file>>
loop    == <<g_sockets_changed, next_action_time, all_sockets, ready>>
library == <<connected, inflight, sockets>>
input   == <<typed, ahead, ntyped, closed>>
vars    == <<auto, pc, processing, line, loop, library, input>>

\* Where the program waits for a response (or, with -a, for the connection).
Waits    == {"connecting", "file wait", "wait"}
MainLoop == {"head", "select", "process", "stdin", "wait"}

TypeOK ==
  /\ auto \in BOOLEAN /\ file \in Seq(Lines)
  /\ pc \in MainLoop \cup Waits \cup {"start", "connect", "connected", "file", "cleanup", "exit"}
  /\ processing \in BOOLEAN /\ (processing => pc \in Waits \cup {"process"})
  /\ g_running \in BOOLEAN /\ g_req_id \in Ids \cup {NoId}
  /\ g_sockets_changed \in BOOLEAN /\ next_action_time \in BOOLEAN
  /\ all_sockets \subseteq Socks \cup {Stdin} /\ ready \subseteq all_sockets
  /\ connected \in BOOLEAN /\ inflight \subseteq Ids /\ sockets \subseteq Socks
  /\ typed \in Seq(Lines) /\ ahead \in Seq(Lines)
  /\ ntyped \in 0 .. MaxTyped /\ closed \in BOOLEAN /\ refused \in BOOLEAN

Init ==
  /\ auto \in BOOLEAN /\ file \in Files
  /\ pc = "start" /\ processing = FALSE
  /\ g_running = TRUE /\ g_req_id = NoId /\ g_sockets_changed = TRUE
  /\ next_action_time = FALSE /\ all_sockets = {} /\ ready = {}
  /\ connected = FALSE /\ inflight = {} /\ sockets = {}
  /\ typed = << >> /\ ahead = << >> /\ ntyped = 0 /\ closed = FALSE
  /\ refused = FALSE

-----------------------------------------------------------------------------
(* Set-up, in main. *)

\* Options, environment, configuration and client: any of them may be wrong or fail.
SetUp ==
  /\ pc = "start"
  /\ \/ pc' = "connect" /\ sockets' \in SUBSET Socks \ {{}}
     \/ pc' \in {"exit", "cleanup"} /\ UNCHANGED sockets
  /\ UNCHANGED <<auto, processing, line, loop, connected, inflight, input>>

\* With -a the library connects by itself, otherwise the connection is a request; when it
\* is refused main does not wait, whatever was written.
Connect ==
  /\ pc = "connect"
  /\ \/ pc' = "cleanup" /\ UNCHANGED <<g_req_id, inflight>>
     \/ auto /\ pc' = "connecting" /\ UNCHANGED <<g_req_id, inflight>>
     \/ /\ ~auto /\ pc' = "connecting"
        /\ \E id \in Ids : g_req_id' = id /\ inflight' = {id}
  /\ UNCHANGED <<auto, processing, g_running, refused, file, loop, connected, sockets, input>>

\* The connection is looked at once, and so is the file opened: it may not be there.
Connected ==
  /\ pc = "connected"
  /\ pc' \in IF ~connected THEN {"cleanup"} ELSE {"file", "cleanup"}
  /\ UNCHANGED <<auto, processing, line, loop, library, input>>

-----------------------------------------------------------------------------
(* Lines and their responses. *)

\* A bug in process_line: a request is sent and its id is not returned.
LineWithoutId(l) ==
  /\ g_running' = (l # "quit")
  /\ g_req_id' = NoId /\ refused' = FALSE
  /\ inflight' \in {inflight} \cup {inflight \cup {id} : id \in Ids \ inflight}
  /\ l = "request" \/ UNCHANGED inflight

\* process_line returns what is in req_id.  That is the id of the request that the line has
\* sent; NoId when the line sends none, or the library has refused and written nothing; and
\* the id that a refusing call has written, since its result is only printed.
process_line(l) ==
  /\ g_running' = (l # "quit")
  /\ \/ /\ l = "request" /\ refused' = FALSE
        /\ \E id \in Ids \ inflight : g_req_id' = id /\ inflight' = inflight \cup {id}
     \/ /\ l = "request" /\ refused' = TRUE
        /\ g_req_id' \in Ids \ inflight /\ UNCHANGED inflight
     \/ g_req_id' = NoId /\ refused' = FALSE /\ UNCHANGED inflight

\* The lines of the file, each when the response to the one before has come.
ReadFile ==
  /\ pc = "file"
  /\ IF g_running /\ file # << >>
       THEN pc' = "file wait" /\ file' = Tail(file) /\ process_line(Head(file))
            /\ UNCHANGED next_action_time
       ELSE pc' = "head" /\ next_action_time' \in BOOLEAN
            /\ UNCHANGED <<line, inflight>>
  /\ UNCHANGED <<auto, processing, g_sockets_changed, all_sockets, ready, connected, sockets,
                 input>>

\* What a loop that waits waits for has come, or the operator has quit.
Awaited ==
  \/ ~g_running
  \/ IF pc = "connecting" /\ auto THEN connected ELSE g_req_id = NoId

Wait ==
  /\ pc \in Waits /\ ~processing
  /\ IF Awaited
       THEN /\ pc' = CASE pc = "connecting" -> "connected"
                       [] pc = "file wait" -> "file"
                       [] pc = "wait" -> "head"
            /\ UNCHANGED processing
       ELSE processing' = TRUE /\ UNCHANGED pc
  /\ UNCHANGED <<auto, line, loop, library, input>>

\* conmon_client_process returns, to a loop that does not look at its result.
WaitReturns ==
  /\ pc \in Waits /\ processing
  /\ processing' = FALSE
  /\ UNCHANGED <<auto, pc, line, loop, library, input>>

-----------------------------------------------------------------------------
(* main_loop. *)

\* A bug at the head of the loop: the sockets are listed in the first turn only.
UpdateOnce ==
  /\ pc = "head"
  /\ IF ~g_running THEN pc' = "cleanup" /\ UNCHANGED <<all_sockets, g_sockets_changed>>
     ELSE /\ pc' = "select" /\ g_sockets_changed' = FALSE
          /\ all_sockets' = IF all_sockets = {} THEN sockets \cup {Stdin} ELSE all_sockets
  /\ ready' = {}
  /\ UNCHANGED <<auto, processing, line, next_action_time, library, input>>

\* A bug in the loop: what the last select() found is not replaced.
UpdateKeepingReady ==
  /\ pc = "head"
  /\ IF ~g_running THEN pc' = "cleanup" /\ UNCHANGED <<all_sockets, g_sockets_changed>>
     ELSE /\ pc' = "select" /\ g_sockets_changed' = FALSE
          /\ IF g_sockets_changed
               THEN all_sockets' \in {sockets \cup {Stdin}, {Stdin}}
               ELSE UNCHANGED all_sockets
  /\ UNCHANGED <<auto, processing, line, ready, next_action_time, library, input>>

\* The sockets are updated if needed.  When they cannot be listed, stdin remains.
UpdateSockets ==
  /\ pc = "head"
  /\ IF ~g_running THEN pc' = "cleanup" /\ UNCHANGED <<all_sockets, g_sockets_changed>>
     ELSE /\ pc' = "select" /\ g_sockets_changed' = FALSE
          /\ IF g_sockets_changed
               THEN all_sockets' \in {sockets \cup {Stdin}, {Stdin}}
               ELSE UNCHANGED all_sockets
  /\ ready' = {}
  /\ UNCHANGED <<auto, processing, line, next_action_time, library, input>>

\* A closed stdin is readable, and what stdio has read ahead does not make it so.
StdinReadable == typed # << >> \/ closed

\* select() returns what is readable, or nothing after half a second.  Every error ends the
\* loop, EINTR too: the test for it looks at what select() has returned.
Select ==
  /\ pc = "select"
  /\ \/ pc' = "cleanup" /\ UNCHANGED <<ready, processing>>
     \/ /\ ready' \in SUBSET all_sockets
        /\ Stdin \in ready' <=> StdinReadable
        /\ IF ready' # {} \/ next_action_time
             THEN pc' = "process" /\ processing' = TRUE
             ELSE pc' = "stdin" /\ UNCHANGED processing
  /\ UNCHANGED <<auto, line, g_sockets_changed, next_action_time, all_sockets, library, input>>

\* conmon_client_process_sockets returns; its error ends the loop.
ProcessReturns ==
  /\ pc = "process" /\ processing' = FALSE
  /\ pc' \in {"stdin", "cleanup"} /\ next_action_time' \in BOOLEAN
  /\ UNCHANGED <<auto, line, g_sockets_changed, all_sockets, ready, library, input>>

\* A bug in the loop: the end of the input is taken for an interrupted call.
ReadPastEnd ==
  /\ pc = "stdin"
  /\ IF Stdin \in ready /\ ahead \o typed # << >>
       THEN /\ pc' = "wait" /\ process_line(Head(ahead \o typed))
            /\ ahead' = Tail(ahead \o typed) /\ typed' = << >>
       ELSE pc' = "head" /\ UNCHANGED <<g_running, g_req_id, refused, inflight, typed, ahead>>
  /\ UNCHANGED <<auto, processing, file, loop, connected, sockets, ntyped, closed>>

\* fgets takes a line that was read ahead, or reads what there is, or finds the end or an
\* error.  It is not interrupted: something can be read, so it does not block.
ReadStdin ==
  /\ pc = "stdin"
  /\ \/ /\ Stdin \in ready /\ ahead # << >>
        /\ pc' = "wait" /\ process_line(Head(ahead))
        /\ ahead' = Tail(ahead) /\ UNCHANGED typed
     \/ /\ Stdin \in ready /\ ahead = << >> /\ typed # << >>
        /\ pc' = "wait" /\ process_line(Head(typed))
        /\ ahead' = Tail(typed) /\ typed' = << >>
     \/ /\ IF Stdin \in ready THEN pc' = "cleanup" /\ ahead = << >> ELSE pc' = "head"
        /\ UNCHANGED <<g_running, g_req_id, refused, inflight, typed, ahead>>
  /\ UNCHANGED <<auto, processing, file, loop, connected, sockets, ntyped, closed>>

Cleanup ==
  /\ pc = "cleanup" /\ pc' = "exit"
  /\ connected' = FALSE /\ inflight' = {} /\ sockets' = {}
  /\ UNCHANGED <<auto, processing, line, loop, input>>

-----------------------------------------------------------------------------
(* Callbacks, while the library processes. *)

\* A bug in handle_response: it takes the response to the only request for an old one.
ResponseToAnother(id) ==
  /\ processing /\ id \in inflight
  /\ inflight' = inflight \ {id}
  /\ g_req_id' = IF g_req_id # id THEN NoId ELSE g_req_id
  /\ connected' \in IF pc = "connecting" THEN BOOLEAN ELSE {connected}
  /\ UNCHANGED <<auto, pc, processing, g_running, refused, file, loop, sockets, input>>

\* handle_connect_response and handle_response compare the request's id.
HandleResponse(id) ==
  /\ processing /\ id \in inflight
  /\ inflight' = inflight \ {id}
  /\ g_req_id' = IF g_req_id = id THEN NoId ELSE g_req_id
  /\ connected' \in IF pc = "connecting" THEN BOOLEAN ELSE {connected}
  /\ UNCHANGED <<auto, pc, processing, g_running, refused, file, loop, sockets, input>>

\* handle_connection_state_changed only prints.
ConnectionStateChanges ==
  /\ processing /\ (auto \/ connected)
  /\ connected' = ~connected
  /\ UNCHANGED <<auto, pc, processing, line, loop, inflight, sockets, input>>

\* handle_sockets_changed.
SocketsChange ==
  /\ processing
  /\ sockets' \in SUBSET Socks \ {{}, sockets}
  /\ g_sockets_changed' = TRUE
  /\ UNCHANGED <<auto, pc, processing, line, next_action_time, all_sockets, ready, connected,
                 inflight, input>>

(* The operator. *)

Type(l) ==
  /\ ~closed /\ ntyped < MaxTyped /\ pc # "exit"
  /\ typed' = Append(typed, l) /\ ntyped' = ntyped + 1
  /\ UNCHANGED <<auto, pc, processing, line, loop, library, ahead, closed>>

CloseStdin ==
  /\ ~closed /\ pc # "exit" /\ closed' = TRUE
  /\ UNCHANGED <<auto, pc, processing, line, loop, library, typed, ahead, ntyped>>

Finished == pc = "exit" /\ UNCHANGED vars

Main ==
  \/ SetUp \/ Connect \/ Connected \/ ReadFile \/ Wait \/ WaitReturns
  \/ UpdateSockets \/ Select \/ ProcessReturns \/ ReadStdin \/ Cleanup

Response == \E id \in Ids : HandleResponse(id)

Next ==
  \/ Main \/ Response \/ ConnectionStateChanges \/ SocketsChange
  \/ (\E l \in Lines : Type(l)) \/ CloseStdin \/ Finished

Spec == Init /\ [][Next]_vars

\* One thread that never stops, and a library that answers every request in the end, which
\* it can only do while it is called; the operator may stop typing.
FairSpec == Spec /\ WF_vars(Main) /\ SF_vars(Response)

-----------------------------------------------------------------------------
(* Properties. *)

\* One request at a time, and what the program waits for is the request in flight: it does
\* not wait for a response that has come.  It waits in vain in one case only, for an id that
\* a refusing call has written (588, 593, 624-632), and then nothing else is in flight.
AwaitsWhatIsInFlight ==
  pc # "exit" => inflight = IF refused THEN {} ELSE {g_req_id} \ {NoId}

\* select() waits for the sockets the client has, unless they could not be listed.
SocketsTracked == pc = "select" => all_sockets \in {sockets \cup {Stdin}, {Stdin}}

\* A line's response ends the wait for it, so every wait for one ends, except for the id of
\* a request that was refused: no response comes, and the wait has no time-out.
WaitsEnd == (g_req_id # NoId /\ ~refused) ~> (g_req_id = NoId)

\* Lines that stdio has read ahead are stranded while stdin is open and silent; but when it
\* is closed the console reads them all and exits, a line in each turn, unless one of them
\* leaves it waiting for the id of a refused request.
InputEnds == (closed /\ pc \in MainLoop) ~> (pc = "exit" \/ refused)

=============================================================================
