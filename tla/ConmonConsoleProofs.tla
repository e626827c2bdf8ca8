------------------------ MODULE ConmonConsoleProofs ------------------------
(***************************************************************************)
(* Proofs about ConmonConsole, for any input file, any number of lines     *)
(* typed, any sockets and any request ids.                                 *)
(***************************************************************************)
EXTENDS ConmonConsole, TLAPS

USE ConsoleAssumption DEF ConsoleAssumption

-----------------------------------------------------------------------------
(* One request at a time. *)

\* Outside the loops that wait nothing is awaited, and nobody quits while something is.
NothingElsewhere ==
  /\ pc \notin Waits => g_req_id = NoId
  /\ ~g_running => g_req_id = NoId
  /\ pc = "connecting" /\ auto => g_req_id = NoId
  /\ pc \in {"start", "connect"} => g_running /\ ~refused

Asks == AwaitsWhatIsInFlight /\ NothingElsewhere

\* The line's request is the only one, if none was in flight.
LEMMA LineAsks ==
  ASSUME NEW l, process_line(l), inflight = {}, NoId \notin Ids
  PROVE  /\ inflight' = IF refused' THEN {} ELSE {g_req_id'} \ {NoId}
         /\ ~g_running' => g_req_id' = NoId
<1>1. CASE g_req_id' = NoId /\ refused' = FALSE /\ UNCHANGED inflight
  BY <1>1
<1>2. CASE /\ l = "request" /\ refused' = FALSE
           /\ \E id \in Ids \ inflight : g_req_id' = id /\ inflight' = inflight \cup {id}
  <2>1. g_running' = TRUE
    BY <1>2 DEF process_line
  <2>2. PICK id \in Ids : g_req_id' = id /\ inflight' = inflight \cup {id}
    BY <1>2
  <2> QED BY <1>2, <2>1, <2>2
<1>3. CASE l = "request" /\ refused' = TRUE /\ UNCHANGED inflight
  <2>1. g_running' = TRUE
    BY <1>3 DEF process_line
  <2> QED BY <1>3, <2>1
<1> QED BY <1>1, <1>2, <1>3 DEF process_line

LEMMA AsksStep == Asks /\ [Next]_vars => Asks'
<1> SUFFICES ASSUME Asks, [Next]_vars PROVE Asks'
  OBVIOUS
<1> USE DEF Asks, AwaitsWhatIsInFlight, NothingElsewhere, Waits
<1>1. CASE SetUp
  BY <1>1 DEF SetUp, line
<1>2. CASE Connect
  <2>1. CASE UNCHANGED <<g_req_id, inflight>>
    BY <1>2, <2>1 DEF Connect
  <2>2. CASE ~auto /\ pc' = "connecting" /\ \E id \in Ids : g_req_id' = id /\ inflight' = {id}
    <3>1. PICK id \in Ids : g_req_id' = id /\ inflight' = {id}
      BY <2>2
    <3>2. UNCHANGED <<auto, g_running, refused>> /\ g_running /\ ~refused
      BY <1>2, <2>2, <3>1 DEF Connect
    <3> QED BY <2>2, <3>1, <3>2
  <2> QED BY <1>2, <2>1, <2>2 DEF Connect
<1>3. CASE Connected
  BY <1>3 DEF Connected, line, library
<1>4. CASE ReadFile
  <2>1. inflight = {} /\ g_req_id = NoId /\ pc = "file" /\ UNCHANGED auto
    BY <1>4 DEF ReadFile
  <2>2. CASE g_running /\ file # << >>
    <3>1. pc' = "file wait" /\ process_line(Head(file))
      BY <1>4, <2>2 DEF ReadFile
    <3> QED BY <2>1, <3>1, LineAsks
  <2>3. CASE ~(g_running /\ file # << >>)
    BY <1>4, <2>1, <2>3 DEF ReadFile, line
  <2> QED BY <2>2, <2>3
<1>5. CASE Wait
  BY <1>5 DEF Wait, Awaited, line, library
<1>6. CASE WaitReturns
  BY <1>6 DEF WaitReturns, line, library
<1>7. CASE UpdateSockets
  BY <1>7 DEF UpdateSockets, line, library
<1>8. CASE Select
  BY <1>8 DEF Select, line, library
<1>9. CASE ProcessReturns
  BY <1>9 DEF ProcessReturns, line, library
<1>10. CASE ReadStdin
  <2>1. inflight = {} /\ g_req_id = NoId /\ pc = "stdin" /\ UNCHANGED auto
    BY <1>10 DEF ReadStdin
  <2>2. CASE pc' = "wait" /\ \E l \in {Head(ahead), Head(typed)} : process_line(l)
    BY <2>1, <2>2, LineAsks
  <2>3. CASE pc' \in {"head", "cleanup"} /\ UNCHANGED <<g_running, g_req_id, refused, inflight>>
    BY <2>1, <2>3
  <2> QED BY <1>10, <2>2, <2>3 DEF ReadStdin
<1>11. CASE Cleanup
  BY <1>11 DEF Cleanup, line
<1>12. ASSUME NEW id \in Ids, HandleResponse(id) PROVE Asks'
  <2>1. inflight' = inflight \ {id} /\ g_req_id' = IF g_req_id = id THEN NoId ELSE g_req_id
    BY <1>12 DEF HandleResponse
  <2>2. UNCHANGED <<auto, pc, g_running, refused>> /\ id \in inflight
    BY <1>12 DEF HandleResponse
  <2> QED BY <2>1, <2>2
<1>13. CASE ConnectionStateChanges
  BY <1>13 DEF ConnectionStateChanges, line
<1>14. CASE SocketsChange
  BY <1>14 DEF SocketsChange, line
<1>15. ASSUME NEW l \in Lines, Type(l) PROVE Asks'
  BY <1>15 DEF Type, line, library
<1>16. CASE CloseStdin
  BY <1>16 DEF CloseStdin, line, library
<1>17. CASE Finished \/ UNCHANGED vars
  <2>1. UNCHANGED <<auto, pc, line, library>>
    BY <1>17 DEF Finished, vars
  <2> QED BY <2>1 DEF line, library
<1> QED BY <1>1, <1>2, <1>3, <1>4, <1>5, <1>6, <1>7, <1>8, <1>9, <1>10, <1>11, <1>12, <1>13,
           <1>14, <1>15, <1>16, <1>17 DEF Next, Main, Response

\* What the console waits for is the one request in flight; it waits in vain only for the
\* id that a refusing call has written, and has nothing in flight then.
THEOREM AwaitsInFlight == Spec => []AwaitsWhatIsInFlight
<1>1. Init => Asks
  BY DEF Init, Asks, AwaitsWhatIsInFlight, NothingElsewhere
<1>2. Asks => AwaitsWhatIsInFlight
  BY DEF Asks
<1> QED BY <1>1, <1>2, AsksStep, PTL DEF Spec

-----------------------------------------------------------------------------
(* The sockets. *)

\* What the loop selects is out of date only while the flag says so, and the flag is raised
\* only while the library processes.
Flagged ==
  /\ g_sockets_changed \/ pc = "exit" \/ all_sockets \in {sockets \cup {Stdin}, {Stdin}}
  /\ pc = "start" => g_sockets_changed
  /\ pc = "select" => ~g_sockets_changed
  /\ processing => pc \in Waits \cup {"process"}

LEMMA FlaggedStep == Flagged /\ [Next]_vars => Flagged'
<1> SUFFICES ASSUME Flagged, [Next]_vars PROVE Flagged'
  OBVIOUS
<1> USE DEF Flagged, Waits
<1>1. CASE SetUp
  BY <1>1 DEF SetUp, loop
<1>2. CASE Connect
  BY <1>2 DEF Connect, loop
<1>3. CASE Connected
  BY <1>3 DEF Connected, loop, library
<1>4. CASE ReadFile
  BY <1>4 DEF ReadFile
<1>5. CASE Wait
  BY <1>5 DEF Wait, loop, library
<1>6. CASE WaitReturns
  BY <1>6 DEF WaitReturns, loop, library
<1>7. CASE UpdateSockets
  BY <1>7 DEF UpdateSockets, library
<1>8. CASE Select
  BY <1>8 DEF Select, library
<1>9. CASE ProcessReturns
  BY <1>9 DEF ProcessReturns, library
<1>10. CASE ReadStdin
  <2>1. pc = "stdin" /\ pc' \in {"wait", "cleanup", "head"}
    BY <1>10 DEF ReadStdin
  <2>2. UNCHANGED <<processing, sockets>> /\ UNCHANGED loop
    BY <1>10 DEF ReadStdin
  <2> QED BY <2>1, <2>2 DEF loop
<1>11. CASE Cleanup
  BY <1>11 DEF Cleanup, loop
<1>12. ASSUME NEW id \in Ids, HandleResponse(id) PROVE Flagged'
  BY <1>12 DEF HandleResponse, loop
<1>13. CASE ConnectionStateChanges
  BY <1>13 DEF ConnectionStateChanges, loop
<1>14. CASE SocketsChange
  BY <1>14 DEF SocketsChange
<1>15. ASSUME NEW l \in Lines, Type(l) PROVE Flagged'
  BY <1>15 DEF Type, loop, library
<1>16. CASE CloseStdin
  BY <1>16 DEF CloseStdin, loop, library
<1>17. CASE Finished \/ UNCHANGED vars
  <2>1. UNCHANGED <<pc, processing, loop, library>>
    BY <1>17 DEF Finished, vars
  <2> QED BY <2>1 DEF loop, library
<1> QED BY <1>1, <1>2, <1>3, <1>4, <1>5, <1>6, <1>7, <1>8, <1>9, <1>10, <1>11, <1>12, <1>13,
           <1>14, <1>15, <1>16, <1>17 DEF Next, Main, Response

\* Whatever the library does to its sockets, select() waits for those it has now.
THEOREM SelectsItsSockets == Spec => []SocketsTracked
<1>1. Init => Flagged
  BY DEF Init, Flagged
<1>2. Flagged => SocketsTracked
  BY DEF Flagged, SocketsTracked
<1> QED BY <1>1, <1>2, FlaggedStep, PTL DEF Spec

-----------------------------------------------------------------------------
(* Types. *)

\* The lines that wait to be read: what stdio, the kernel and the file hold.
InputType ==
  /\ file \in Seq(Lines) /\ typed \in Seq(Lines) /\ ahead \in Seq(Lines)
  /\ ntyped \in 0 .. MaxTyped /\ closed \in BOOLEAN

LEMMA InputStep == InputType /\ [Next]_vars => InputType'
<1> SUFFICES ASSUME InputType, [Next]_vars PROVE InputType'
  OBVIOUS
<1>e. << >> \in Seq(Lines)
  OBVIOUS
<1>t. ASSUME NEW q \in Seq(Lines), q # << >> PROVE Tail(q) \in Seq(Lines)
  BY <1>t
<1> USE DEF InputType
<1>1. CASE ReadFile
  <2>1. UNCHANGED <<typed, ahead, ntyped, closed>>
    BY <1>1 DEF ReadFile, input
  <2>2. CASE g_running /\ file # << >>
    BY <1>1, <1>t, <2>1, <2>2 DEF ReadFile
  <2>3. CASE ~(g_running /\ file # << >>)
    BY <1>1, <2>1, <2>3 DEF ReadFile, line
  <2> QED BY <2>2, <2>3
<1>2. CASE ReadStdin
  <2>1. UNCHANGED <<file, ntyped, closed>>
    BY <1>2 DEF ReadStdin
  <2>2. CASE ahead # << >> /\ ahead' = Tail(ahead) /\ UNCHANGED typed
    BY <1>t, <2>1, <2>2
  <2>3. CASE typed # << >> /\ ahead' = Tail(typed) /\ typed' = << >>
    BY <1>e, <1>t, <2>1, <2>3
  <2>4. CASE UNCHANGED <<typed, ahead>>
    BY <2>1, <2>4
  <2> QED BY <1>2, <2>2, <2>3, <2>4 DEF ReadStdin
<1>3. ASSUME NEW l \in Lines, Type(l) PROVE InputType'
  <2>1. typed' = Append(typed, l) /\ ntyped' = ntyped + 1 /\ ntyped < MaxTyped
    BY <1>3 DEF Type
  <2>2. UNCHANGED <<file, ahead, closed>>
    BY <1>3 DEF Type, line
  <2>3. Append(typed, l) \in Seq(Lines)
    OBVIOUS
  <2>4. ntyped' \in 0 .. MaxTyped
    BY <2>1
  <2> QED BY <2>1, <2>2, <2>3, <2>4
<1>4. CASE CloseStdin
  BY <1>4 DEF CloseStdin, line
<1>5. CASE UNCHANGED <<file, input>>
  BY <1>5 DEF input
<1>6. CASE Connect
  BY <1>6 DEF Connect, input
<1>7. ASSUME NEW id \in Ids, HandleResponse(id) PROVE InputType'
  BY <1>7 DEF HandleResponse, input
<1>8. CASE SetUp \/ Connected \/ Wait \/ WaitReturns \/ UpdateSockets
  BY <1>5, <1>8 DEF SetUp, Connected, Wait, WaitReturns, UpdateSockets, line
<1>9. CASE Select \/ ProcessReturns \/ Cleanup \/ ConnectionStateChanges \/ SocketsChange
  BY <1>5, <1>9 DEF Select, ProcessReturns, Cleanup, ConnectionStateChanges, SocketsChange, line
<1>10. CASE Finished \/ UNCHANGED vars
  BY <1>5, <1>10 DEF Finished, vars, line
<1> QED BY <1>1, <1>2, <1>3, <1>4, <1>6, <1>7, <1>8, <1>9, <1>10 DEF Next, Main, Response

\* The sockets, the requests and the flags that go with them.
SocketType ==
  /\ sockets \subseteq Socks /\ all_sockets \subseteq Socks \cup {Stdin}
  /\ ready \subseteq all_sockets

RequestType ==
  /\ g_req_id \in Ids \cup {NoId} /\ inflight \subseteq Ids /\ refused \in BOOLEAN

PlaceType ==
  pc \in MainLoop \cup Waits \cup {"start", "connect", "connected", "file", "cleanup", "exit"}

LEMMA SocketStep == SocketType /\ [Next]_vars => SocketType'
<1> SUFFICES ASSUME SocketType, [Next]_vars PROVE SocketType'
  OBVIOUS
<1> USE DEF SocketType
<1>1. CASE UNCHANGED <<loop, library>>
  BY <1>1 DEF loop, library
<1>2. CASE SetUp
  BY <1>2 DEF SetUp, loop
<1>3. CASE Connect \/ ReadFile \/ ReadStdin
  <2>1. UNCHANGED <<all_sockets, ready, sockets>>
    BY <1>3 DEF Connect, ReadFile, ReadStdin, loop
  <2> QED BY <2>1
<1>4. CASE Connected \/ Wait \/ WaitReturns
  BY <1>1, <1>4 DEF Connected, Wait, WaitReturns
<1>5. CASE UpdateSockets
  <2>1. ready' = {} /\ UNCHANGED sockets
    BY <1>5 DEF UpdateSockets, library
  <2>2. all_sockets' \in {sockets \cup {Stdin}, {Stdin}, all_sockets}
    BY <1>5 DEF UpdateSockets
  <2> QED BY <2>1, <2>2
<1>6. CASE Select
  BY <1>6 DEF Select, library
<1>7. CASE ProcessReturns
  BY <1>7 DEF ProcessReturns, library
<1>8. CASE Cleanup
  BY <1>8 DEF Cleanup, loop
<1>9. ASSUME NEW id \in Ids, HandleResponse(id) PROVE SocketType'
  BY <1>9 DEF HandleResponse, loop
<1>10. CASE ConnectionStateChanges
  BY <1>10 DEF ConnectionStateChanges, loop
<1>11. CASE SocketsChange
  BY <1>11 DEF SocketsChange
<1>12. ASSUME NEW l \in Lines, Type(l) PROVE SocketType'
  BY <1>1, <1>12 DEF Type
<1>13. CASE CloseStdin \/ Finished \/ UNCHANGED vars
  BY <1>1, <1>13 DEF CloseStdin, Finished, vars
<1> QED BY <1>2, <1>3, <1>4, <1>5, <1>6, <1>7, <1>8, <1>9, <1>10, <1>11, <1>12, <1>13
        DEF Next, Main, Response

LEMMA LineType ==
  ASSUME RequestType, NEW l, process_line(l)
  PROVE  RequestType' /\ g_running' \in BOOLEAN
<1>1. g_running' \in BOOLEAN /\ refused' \in BOOLEAN
  BY DEF process_line
<1>2. CASE g_req_id' \in {NoId} \cup Ids /\ UNCHANGED inflight
  BY <1>1, <1>2 DEF RequestType
<1>3. CASE \E id \in Ids \ inflight : g_req_id' = id /\ inflight' = inflight \cup {id}
  BY <1>1, <1>3 DEF RequestType
<1> QED BY <1>2, <1>3 DEF process_line

LEMMA RequestStep == RequestType /\ g_running \in BOOLEAN /\ [Next]_vars
                       => RequestType' /\ g_running' \in BOOLEAN
<1> SUFFICES ASSUME RequestType, g_running \in BOOLEAN, [Next]_vars
             PROVE  RequestType' /\ g_running' \in BOOLEAN
  OBVIOUS
<1>1. CASE UNCHANGED <<g_req_id, refused, inflight, g_running>>
  BY <1>1 DEF RequestType
<1>2. CASE SetUp
  BY <1>1, <1>2 DEF SetUp, line
<1>3. CASE Connect
  <2>1. UNCHANGED <<g_running, refused>>
    BY <1>3 DEF Connect
  <2>2. CASE \E id \in Ids : g_req_id' = id /\ inflight' = {id}
    BY <2>1, <2>2 DEF RequestType
  <2> QED BY <1>1, <1>3, <2>1, <2>2 DEF Connect
<1>4. CASE ReadFile \/ ReadStdin
  <2>1. CASE \E l \in {Head(file), Head(ahead), Head(typed)} : process_line(l)
    BY <2>1, LineType
  <2> QED BY <1>1, <1>4, <2>1 DEF ReadFile, ReadStdin, line
<1>5. CASE Connected \/ Wait \/ WaitReturns \/ UpdateSockets \/ Select \/ ProcessReturns
  BY <1>1, <1>5 DEF Connected, Wait, WaitReturns, UpdateSockets, Select, ProcessReturns, line,
                    library
<1>6. CASE Cleanup
  BY <1>6 DEF Cleanup, line, RequestType
<1>7. ASSUME NEW id \in Ids, HandleResponse(id) PROVE RequestType' /\ g_running' \in BOOLEAN
  BY <1>7 DEF HandleResponse, RequestType
<1>8. CASE ConnectionStateChanges \/ SocketsChange
  BY <1>1, <1>8 DEF ConnectionStateChanges, SocketsChange, line
<1>9. ASSUME NEW l \in Lines, Type(l) PROVE RequestType' /\ g_running' \in BOOLEAN
  BY <1>1, <1>9 DEF Type, line, library
<1>10. CASE CloseStdin \/ Finished \/ UNCHANGED vars
  BY <1>1, <1>10 DEF CloseStdin, Finished, vars, line, library
<1> QED BY <1>2, <1>3, <1>4, <1>5, <1>6, <1>7, <1>8, <1>9, <1>10 DEF Next, Main, Response

LEMMA PlaceStep == PlaceType /\ [Next]_vars => PlaceType'
<1> SUFFICES ASSUME PlaceType, [Next]_vars PROVE PlaceType'
  OBVIOUS
<1> USE DEF PlaceType, MainLoop, Waits
<1>1. CASE UNCHANGED pc
  BY <1>1
<1>2. CASE SetUp \/ Connect \/ Connected \/ ReadFile
  BY <1>2 DEF SetUp, Connect, Connected, ReadFile
<1>3. CASE Wait
  BY <1>3 DEF Wait
<1>4. CASE UpdateSockets \/ Select \/ ProcessReturns \/ ReadStdin \/ Cleanup
  BY <1>4 DEF UpdateSockets, Select, ProcessReturns, ReadStdin, Cleanup
<1>5. CASE WaitReturns \/ Response \/ ConnectionStateChanges \/ SocketsChange
  BY <1>1, <1>5 DEF WaitReturns, Response, HandleResponse, ConnectionStateChanges, SocketsChange
<1>6. CASE (\E l \in Lines : Type(l)) \/ CloseStdin \/ Finished \/ UNCHANGED vars
  BY <1>1, <1>6 DEF Type, CloseStdin, Finished, vars
<1> QED BY <1>2, <1>3, <1>4, <1>5, <1>6 DEF Next, Main

\* The flags that only the loops and the library write.
LoopFlags ==
  /\ auto \in BOOLEAN /\ processing \in BOOLEAN /\ connected \in BOOLEAN
  /\ g_sockets_changed \in BOOLEAN /\ next_action_time \in BOOLEAN

LEMMA FlagStep == LoopFlags /\ [Next]_vars => LoopFlags'
<1> SUFFICES ASSUME LoopFlags, [Next]_vars PROVE LoopFlags'
  OBVIOUS
<1> USE DEF LoopFlags
<1>1. CASE UNCHANGED <<auto, processing, connected, g_sockets_changed, next_action_time>>
  BY <1>1
<1>2. CASE SetUp \/ Connect \/ Connected
  BY <1>1, <1>2 DEF SetUp, Connect, Connected, loop, library
<1>3. CASE ReadFile
  BY <1>3 DEF ReadFile
<1>4. CASE Wait
  BY <1>4 DEF Wait, loop, library
<1>5. CASE WaitReturns
  BY <1>5 DEF WaitReturns, loop, library
<1>6. CASE UpdateSockets
  BY <1>6 DEF UpdateSockets, library
<1>7. CASE Select
  BY <1>7 DEF Select, library
<1>8. CASE ProcessReturns
  BY <1>8 DEF ProcessReturns, library
<1>9. CASE ReadStdin
  BY <1>1, <1>9 DEF ReadStdin, loop
<1>10. CASE Cleanup
  BY <1>10 DEF Cleanup, loop
<1>11. ASSUME NEW id \in Ids, HandleResponse(id) PROVE LoopFlags'
  <2>1. connected' \in BOOLEAN
    BY <1>11 DEF HandleResponse
  <2> QED BY <1>11, <2>1 DEF HandleResponse, loop
<1>12. CASE ConnectionStateChanges
  BY <1>12 DEF ConnectionStateChanges, loop
<1>13. CASE SocketsChange
  BY <1>13 DEF SocketsChange
<1>14. ASSUME NEW l \in Lines, Type(l) PROVE LoopFlags'
  BY <1>1, <1>14 DEF Type, loop, library
<1>15. CASE CloseStdin \/ Finished \/ UNCHANGED vars
  BY <1>1, <1>15 DEF CloseStdin, Finished, vars, loop, library
<1> QED BY <1>2, <1>3, <1>4, <1>5, <1>6, <1>7, <1>8, <1>9, <1>10, <1>11, <1>12, <1>13, <1>14,
           <1>15 DEF Next, Main, Response

\* Every variable keeps its type, and the library is entered nowhere else.
THEOREM TypeCorrect == Spec => []TypeOK
<1> DEFINE Typed == /\ InputType /\ SocketType /\ RequestType /\ g_running \in BOOLEAN
                    /\ PlaceType /\ LoopFlags /\ Flagged
<1>1. ASSUME Init PROVE Typed
  <2>1. InputType
    <3>1. file \in Seq(Lines)
      BY <1>1 DEF Init
    <3>2. << >> \in Seq(Lines)
      OBVIOUS
    <3>3. typed = << >> /\ ahead = << >> /\ closed = FALSE /\ ntyped = 0
      BY <1>1 DEF Init
    <3>4. ntyped \in 0 .. MaxTyped
      BY <3>3
    <3> QED BY <3>1, <3>2, <3>3, <3>4 DEF InputType
  <2>2. SocketType /\ RequestType /\ g_running \in BOOLEAN /\ Flagged
    BY <1>1 DEF Init, SocketType, RequestType, Flagged
  <2>3. PlaceType /\ LoopFlags
    BY <1>1 DEF Init, PlaceType, LoopFlags
  <2> QED BY <2>1, <2>2, <2>3
<1>2. Typed /\ [Next]_vars => Typed'
  BY InputStep, SocketStep, RequestStep, PlaceStep, FlagStep, FlaggedStep
<1>3. Typed => TypeOK
  BY DEF TypeOK, InputType, SocketType, RequestType, PlaceType, LoopFlags, Flagged
<1> QED BY <1>1, <1>2, <1>3, PTL DEF Spec

=============================================================================
