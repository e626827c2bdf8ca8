-------------------------- MODULE ConmonSyncProofs --------------------------
(***************************************************************************)
(* Proofs about ConmonSync and ConmonController, for any length of the     *)
(* wait, any sockets, any command lines and any reading of what is typed.  *)
(* Every step of the controller is one of ConmonSync, so what is proved of *)
(* the requests and their responses holds of the program with its          *)
(* messages; ControlUsageProofs says what the handlers make of a line.     *)
(***************************************************************************)
EXTENDS ConmonController, ControlUsageProofs, TLAPS

USE SyncAssumption DEF SyncAssumption

LEMMA LineShape ==
  ASSUME NEW l \in CommandLines
  PROVE  Len(Requests(l)) \in Steps
<1>1. CASE l = "access"
  BY <1>1 DEF Requests, Steps
<1>2. CASE l = "master"
  BY <1>2 DEF Requests, Steps
<1>3. CASE l \in {"clocking", "upgrade3"}
  BY <1>3 DEF Requests, Steps
<1>4. CASE l = "-d"
  BY <1>4 DEF Requests, Steps
<1>5. CASE l = "local"
  BY <1>5 DEF Requests, Steps
<1> QED BY <1>1, <1>2, <1>3, <1>4, <1>5 DEF Controls, Listeners

\* Every variable keeps its type.
THEOREM TypeCorrect == Spec => []TypeOK
<1> USE DEF TypeOK, Setup, Steps, Results
<1>1. ASSUME Init PROVE TypeOK
  <2>1. left \in 0 .. WaitTicks
    BY <1>1 DEF Init
  <2>2. replied \in [Steps -> Results \cup {"none"}]
    BY <1>1 DEF Init
  <2>3. step \in Steps /\ inflight \subseteq Steps
    BY <1>1 DEF Init
  <2>4. communicating \in BOOLEAN /\ g_sockets_changed \in BOOLEAN /\ running \in BOOLEAN
    BY <1>1 DEF Init
  <2>5. sockets \subseteq Socks /\ client_sockets \subseteq Socks
    BY <1>1 DEF Init
  <2>6. line \in CommandLines /\ pc \in Setup /\ result \in Results /\ last_result \in Results
    BY <1>1 DEF Init
  <2>7. held \subseteq {"env", "config", "client"}
    BY <1>1 DEF Init
  <2> QED BY <2>1, <2>2, <2>3, <2>4, <2>5, <2>6, <2>7
<1>2. TypeOK /\ [Next]_vars => TypeOK'
  <2> SUFFICES ASSUME TypeOK, [Next]_vars PROVE TypeOK'
    OBVIOUS
  <2>1. CASE ParseArgs
    <3>1. pc' \in Setup \cup {"exit"} /\ result' \in Results
      BY <2>1 DEF ParseArgs
    <3> QED BY <2>1, <3>1 DEF ParseArgs, wait, server, loop
  <2>2. CASE SetUp
    <3>1. PICK new \in {{}, {"env"}, {"env", "config"}, {"env", "config", "client"}} :
            held' = IF line \in Listeners THEN new ELSE new \ {"config"}
      BY <2>2 DEF SetUp
    <3>2. held' \subseteq {"env", "config", "client"}
      <4>1. new \subseteq {"env", "config", "client"}
        OBVIOUS
      <4>2. held' \subseteq new
        BY <3>1
      <4> QED BY <4>1, <4>2
    <3>3. sockets' \subseteq Socks /\ pc' \in {"request", "cleanup"} /\ result' \in Results
      BY <2>2 DEF SetUp
    <3> QED BY <2>2, <3>2, <3>3 DEF SetUp, wait, loop
  <2>3. CASE Request
    <3>1. left' \in 0 .. WaitTicks
      BY <2>3 DEF Request
    <3>2. inflight' \subseteq Steps
      BY <2>3 DEF Request
    <3> QED BY <2>3, <3>1, <3>2 DEF Request, loop
  <2>4. CASE WaitForResponse
    BY <2>4 DEF WaitForResponse, wait, server, loop
  <2>5. CASE ProcessReturns
    <3>1. left' \in 0 .. WaitTicks
      BY <2>5 DEF ProcessReturns
    <3> QED BY <2>5, <3>1 DEF ProcessReturns, server, loop
  <2>6. CASE NextRequest
    <3>1. step' \in Steps
      <4> DEFINE n == Len(Requests(line))
      <4>1. n \in 1 .. 3 /\ step \in 1 .. 3
        BY LineShape
      <4>2. step' = step \/ (step < n /\ step' = step + 1)
        BY <2>6 DEF NextRequest
      <4> HIDE DEF n
      <4> QED BY <4>1, <4>2
    <3>2. client_sockets' \subseteq Socks
      BY <2>6 DEF NextRequest
    <3> QED BY <2>6, <3>1, <3>2 DEF NextRequest, server
  <2>7. CASE Cleanup
    BY <2>7 DEF Cleanup, wait, loop
  <2>8. CASE Select
    BY <2>8 DEF Select, wait, server, loop
  <2>9. CASE Listened
    BY <2>9 DEF Listened, wait, server
  <2>10. ASSUME NEW s \in Steps, NEW res \in {"SUCCESS", "ERROR"}, HandleResponse(s, res)
         PROVE  TypeOK'
    BY <2>10 DEF HandleResponse, loop
  <2>11. CASE SocketsChange
    BY <2>11 DEF SocketsChange, wait
  <2>12. CASE Interrupt
    BY <2>12 DEF Interrupt, wait, server
  <2>13. CASE Finished \/ UNCHANGED vars
    <3>1. UNCHANGED <<line, pc, held, result, wait, server, loop>>
      BY <2>13 DEF Finished, vars
    <3>2. UNCHANGED wait /\ UNCHANGED server /\ UNCHANGED loop
      BY <3>1
    <3>3. UNCHANGED <<step, communicating, last_result, left>>
      BY <3>2 DEF wait
    <3>4. UNCHANGED <<replied, inflight, sockets>>
      BY <3>2 DEF server
    <3>5. UNCHANGED <<client_sockets, g_sockets_changed, running>>
      BY <3>2 DEF loop
    <3> QED BY <3>1, <3>3, <3>4, <3>5
  <2> QED BY <2>1, <2>2, <2>3, <2>4, <2>5, <2>6, <2>7, <2>8, <2>9, <2>10, <2>11, <2>12, <2>13
          DEF Next, Main
<1> QED BY <1>1, <1>2, PTL DEF Spec

-----------------------------------------------------------------------------
(* One request at a time. *)

\* No request is made before the one before it has succeeded, so no response but the one
\* that is waited for can come.
OneAtATime ==
  /\ step <= Len(Requests(line))
  /\ inflight \subseteq {step}
  /\ \A s \in Steps : s < step => replied[s] = "SUCCESS"
  /\ \A s \in Steps : s > step => replied[s] = "none"
  /\ step \in inflight => replied[step] = "none"

\* What main and wait_for_response know of that request at each of their lines.
Answered ==
  /\ pc \in {"start", "setup", "request"} => inflight = {} /\ replied[step] = "none"
  /\ pc \in {"start", "setup"} => step = 1
  /\ pc \in {"start", "exit"} => held = {}
  /\ pc \in {"loop", "listen"} =>
       /\ inflight = {} /\ step = Len(Requests(line)) /\ replied[step] = "SUCCESS"
       /\ result # "TIMEDOUT"
  /\ pc \in {"wait", "process"} =>
       IF communicating THEN replied[step] = "none"
       ELSE inflight = {} /\ replied[step] = last_result /\ last_result \in {"SUCCESS", "ERROR"}
  /\ pc = "next" =>
       IF result = "TIMEDOUT" THEN replied[step] = "none"
       ELSE inflight = {} /\ replied[step] = result
  /\ pc \in {"cleanup", "exit"} =>
       /\ result = "SUCCESS" => step = Len(Requests(line)) /\ replied[step] = "SUCCESS"
       /\ result = "TIMEDOUT" => replied[step] = "none"

Turn == OneAtATime /\ Answered

LEMMA TurnInit == Init => Turn
<1> SUFFICES ASSUME Init PROVE Turn
  OBVIOUS
<1>1. Len(Requests(line)) \in 1 .. 3
  BY LineShape DEF Init, Steps
<1>2. step = 1 /\ inflight = {} /\ replied = [s \in Steps |-> "none"]
  BY DEF Init
<1>3. OneAtATime
  BY <1>1, <1>2 DEF OneAtATime, Steps
<1>4. replied[step] = "none"
  BY <1>2 DEF Steps
<1>5. Answered
  BY <1>2, <1>4 DEF Init, Answered
<1> QED BY <1>3, <1>5 DEF Turn

\* Nothing but handle_response touches a reply, and nothing but main the step.
LEMMA TurnStep == TypeOK /\ Turn /\ [Next]_vars => Turn'
<1> SUFFICES ASSUME TypeOK, Turn, [Next]_vars PROVE Turn'
  OBVIOUS
<1> DEFINE n == Len(Requests(line))
<1>t. /\ step \in Steps /\ inflight \subseteq Steps /\ n \in Steps
      /\ replied \in [Steps -> Results \cup {"none"}]
  BY LineShape DEF TypeOK
<1> USE DEF OneAtATime, Answered, Turn
<1>1. CASE ParseArgs
  BY <1>1 DEF ParseArgs, wait, server
<1>2. CASE SetUp
  BY <1>2 DEF SetUp, wait
<1>3. CASE Request
  <2>1. UNCHANGED <<line, held, step, last_result, replied>> /\ pc = "request"
    BY <1>3 DEF Request
  <2>2. CASE pc' = "wait"
    <3>1. inflight' = {step} /\ communicating'
      BY <1>3, <2>2 DEF Request
    <3> QED BY <2>1, <2>2, <3>1
  <2>3. CASE pc' = "cleanup"
    <3>1. result' = "ERROR" /\ UNCHANGED inflight
      BY <1>3, <2>3 DEF Request
    <3> QED BY <2>1, <2>3, <3>1
  <2> QED BY <1>3, <2>2, <2>3 DEF Request
<1>4. CASE WaitForResponse
  BY <1>4 DEF WaitForResponse, wait, server
<1>5. CASE ProcessReturns
  BY <1>5 DEF ProcessReturns, server
<1>6. CASE NextRequest
  <2>1. UNCHANGED <<line, held, replied, inflight>> /\ pc = "next"
    BY <1>6 DEF NextRequest, server
  <2>2. CASE pc' = "request"
    <3>1. result = "SUCCESS" /\ step < n /\ step' = step + 1
      BY <1>6, <2>2 DEF NextRequest
    <3>2. inflight = {} /\ replied[step] = "SUCCESS" /\ step + 1 \in Steps
      <4> HIDE DEF n
      <4> QED BY <1>t, <2>1, <3>1 DEF Steps
    <3>3. replied[step + 1] = "none"
      BY <1>t, <3>2 DEF Steps
    <3>4. OneAtATime'
      BY <1>t, <2>1, <3>1, <3>2, <3>3 DEF Steps
    <3> QED BY <2>1, <2>2, <3>1, <3>2, <3>3, <3>4
  <2>3. CASE pc' = "loop"
    <3>1. result = "SUCCESS" /\ ~(step < n) /\ step' = step /\ result' # "TIMEDOUT"
      BY <1>6, <2>3 DEF NextRequest
    <3>2. step = n
      BY <1>t, <3>1 DEF Steps
    <3> QED BY <2>1, <2>3, <3>1, <3>2
  <2>4. CASE pc' = "cleanup"
    <3>1. step' = step /\ result' = result /\ (result = "SUCCESS" => ~(step < n))
      BY <1>6, <2>4 DEF NextRequest
    <3>2. result = "SUCCESS" => step = n
      BY <1>t, <3>1 DEF Steps
    <3> QED BY <2>1, <2>4, <3>1, <3>2
  <2> QED BY <1>6, <2>2, <2>3, <2>4 DEF NextRequest
<1>7. CASE Cleanup
  BY <1>7 DEF Cleanup, wait
<1>8. CASE Select
  BY <1>8 DEF Select, wait, server
<1>9. CASE Listened
  BY <1>9 DEF Listened, wait, server
<1>10. ASSUME NEW s \in Steps, NEW res \in {"SUCCESS", "ERROR"}, HandleResponse(s, res)
       PROVE  Turn'
  <2>1. s = step /\ pc = "process" /\ replied[step] = "none"
    BY <1>10 DEF HandleResponse, Processing
  <2>2. /\ inflight' = {} /\ ~communicating' /\ last_result' = res
        /\ UNCHANGED <<line, pc, held, result, step>>
    BY <1>10, <2>1 DEF HandleResponse
  <2>3. replied' = [replied EXCEPT ![step] = res]
    BY <1>10, <2>1 DEF HandleResponse
  <2>4. replied'[step] = res /\ \A q \in Steps : q # step => replied'[q] = replied[q]
    BY <1>t, <2>3
  <2>5. OneAtATime'
    BY <1>t, <2>2, <2>4 DEF Steps
  <2> QED BY <2>1, <2>2, <2>4, <2>5
<1>11. CASE SocketsChange
  BY <1>11 DEF SocketsChange, wait
<1>12. CASE Interrupt
  BY <1>12 DEF Interrupt, wait, server
<1>13. CASE Finished \/ UNCHANGED vars
  BY <1>13 DEF Finished, vars, wait, server
<1> QED BY <1>1, <1>2, <1>3, <1>4, <1>5, <1>6, <1>7, <1>8, <1>9, <1>10, <1>11, <1>12, <1>13
        DEF Next, Main

LEMMA AlwaysInTurn == Spec => [](TypeOK /\ Turn)
<1>1. TypeOK /\ Turn /\ [Next]_vars => Turn'
  BY TurnStep
<1> QED BY TypeCorrect, TurnInit, <1>1, PTL DEF Spec

\* handle_response needs no request id: a wait ends with its own request's response.
THEOREM ResponsesAreOwn == Spec => []OwnResponse
<1>1. TypeOK /\ Turn => OwnResponse
  BY DEF Turn, Answered, OwnResponse
<1> QED BY AlwaysInTurn, <1>1, PTL

\* What the programs return of their requests is what the server answered.
THEOREM ExitIsSound == Spec => []ExitSound
<1>1. ASSUME TypeOK, Turn PROVE ExitSound
  <2>1. step \in 1 .. 3 /\ Steps = 1 .. 3
    BY <1>1 DEF TypeOK, Steps
  <2>2. ASSUME pc = "exit", result = "SUCCESS", NEW s \in 1 .. Len(Requests(line))
        PROVE  replied[s] = "SUCCESS"
    <3>1. step = Len(Requests(line)) /\ replied[step] = "SUCCESS"
      BY <1>1, <2>2 DEF Turn, Answered
    <3>2. s \in Steps /\ (s < step \/ s = step)
      BY <2>1, <2>2, <3>1
    <3> QED BY <1>1, <3>1, <3>2 DEF Turn, OneAtATime
  <2> QED BY <1>1, <2>2 DEF ExitSound, Turn, Answered
<1> QED BY AlwaysInTurn, <1>1, PTL

-----------------------------------------------------------------------------
(* The controller. *)

USE ControllerAssumption DEF ControllerAssumption

\* Each step of the controller is one of ConmonSync, or none of its variables changes.
LEMMA StepImplements == [ControllerNext]_cvars => [Next]_vars
<1> SUFFICES ASSUME [ControllerNext]_cvars PROVE [Next]_vars
  OBVIOUS
<1>1. CASE CParseArgs
  BY <1>1 DEF CParseArgs, Next, Main
<1>2. CASE CRequest
  BY <1>2 DEF CRequest, Next, Main
<1>3. CASE SetUp \/ WaitForResponse \/ ProcessReturns \/ NextRequest \/ Cleanup \/ Select
             \/ Listened
  BY <1>3 DEF Next, Main
<1>4. CASE SocketsChange \/ Interrupt \/ Finished
             \/ \E s \in Steps, res \in {"SUCCESS", "ERROR"} : HandleResponse(s, res)
  BY <1>4 DEF Next
<1>5. CASE UNCHANGED cvars
  BY <1>5 DEF cvars
<1> QED BY <1>1, <1>2, <1>3, <1>4, <1>5 DEF ControllerNext, ControllerMain

\* The controller implements the synchronous exchange of ConmonSync: whatever is proved of
\* that holds of the program with its messages.
THEOREM ControllerImplementsSync == ControllerSpec => Spec
<1>1. ControllerInit => Init
  BY DEF ControllerInit
<1> QED BY <1>1, StepImplements, PTL DEF ControllerSpec, Spec

-----------------------------------------------------------------------------
(* The message. *)

TheMessage == [channel |-> Requests(line)[2], to |-> controlled_name, body |-> message]

\* What is in body is what parse_args has built of a line that it has not refused.
Built == \E o \in Parsed : message = o.body /\ o.result # "INVALIDPARAMETER"

\* The controller sends that, once, with its second request.
SentOnce ==
  /\ sent \in {{}, {TheMessage}}
  /\ pc \in {"start", "setup", "request"} \/ step = 1 => sent = {}
  /\ step = 2 /\ pc \in {"wait", "process", "next"} => sent = {TheMessage}
  /\ step = 2 /\ pc \in {"cleanup", "exit"} /\ result = "SUCCESS" => sent = {TheMessage}

Carried ==
  /\ argv \in Argvs /\ line = Class(argv.cmd)
  /\ pc \notin {"start", "exit", "killed"} => Built
  /\ pc = "exit" /\ result # "INVALIDPARAMETER" => Built
  /\ line \in Controls => SentOnce /\ pc \notin {"loop", "listen"}

LEMMA TwoRequests ==
  ASSUME NEW l \in Controls
  PROVE  /\ Len(Requests(l)) = 2 /\ l \notin Listeners
         /\ Requests(l)[2] = Channel(l)
<1>1. CASE l = "access"
  BY <1>1 DEF Requests, Listeners, Channel
<1>2. CASE l = "master"
  BY <1>2 DEF Requests, Listeners, Channel
<1>3. CASE l \in {"clocking", "upgrade3"}
  BY <1>3 DEF Requests, Listeners, Channel
<1> QED BY <1>1, <1>2, <1>3 DEF Controls

LEMMA CarriedInit == ControllerInit => Carried
<1> SUFFICES ASSUME ControllerInit PROVE Carried
  OBVIOUS
<1>1. pc = "start" /\ step = 1 /\ sent = {} /\ argv \in Argvs /\ line = Class(argv.cmd)
  BY DEF ControllerInit, Init
<1> QED BY <1>1 DEF Carried, SentOnce

\* No step of ConmonSync but the request sends anything.
LEMMA CarriedStep ==
  TypeOK /\ Turn /\ Carried /\ [ControllerNext]_cvars => Carried'
<1> SUFFICES ASSUME TypeOK, Turn, Carried, [ControllerNext]_cvars PROVE Carried'
  OBVIOUS
<1> USE DEF Carried
<1>t. line \in Controls => step \in {1, 2} /\ line \notin Listeners
  <2> SUFFICES ASSUME line \in Controls PROVE step \in {1, 2} /\ line \notin Listeners
    OBVIOUS
  <2>1. Len(Requests(line)) = 2 /\ line \notin Listeners
    BY TwoRequests
  <2>2. step \in 1 .. 3 /\ step <= 2
    BY <2>1 DEF TypeOK, Turn, OneAtATime, Steps
  <2> QED BY <2>1, <2>2
<1>1. CASE CParseArgs
  <2>1. /\ pc = "start" /\ UNCHANGED <<argv, line, step, sent>>
    BY <1>1 DEF CParseArgs, ParseArgs, wait
  <2>2. PICK o \in Parsed : /\ message' = o.body /\ result' = o.result
                            /\ pc' = IF o.result = "INVALIDPARAMETER" THEN "exit" ELSE "setup"
    BY <1>1 DEF CParseArgs
  <2>3. Parsed' = Parsed
    BY <2>1 DEF Parsed
  <2>4. o.result # "INVALIDPARAMETER" => Built'
    BY <2>2, <2>3 DEF Built
  <2>5. line \in Controls => sent' = {}
    BY <2>1 DEF SentOnce
  <2>6. line \in Controls => SentOnce'
    BY <2>1, <2>2, <2>5 DEF SentOnce
  <2> QED BY <2>1, <2>2, <2>4, <2>6
<1>2. CASE CRequest
  <2>1. /\ pc = "request" /\ pc' \in {"wait", "cleanup"}
        /\ pc' = "cleanup" => result' = "ERROR"
        /\ UNCHANGED <<argv, message, line, step>>
    BY <1>2 DEF CRequest, Request
  <2>2. Parsed' = Parsed /\ TheMessage' = TheMessage /\ Built'
    BY <2>1 DEF Parsed, TheMessage, controlled_name, Built
  <2>3. ASSUME line \in Controls PROVE SentOnce'
    <3>1. sent = {}
      BY <2>1, <2>3 DEF SentOnce
    <3>2. CASE pc' = "wait" /\ step = 2
      <4>1. Send = TheMessage
        BY <3>2 DEF Send, TheMessage
      <4>2. sent' = {TheMessage}
        BY <1>2, <2>3, <3>1, <3>2, <4>1 DEF CRequest
      <4> QED BY <2>1, <2>2, <3>2, <4>2 DEF SentOnce
    <3>3. CASE ~(pc' = "wait" /\ step = 2)
      <4>1. sent' = {}
        BY <1>2, <3>1, <3>3 DEF CRequest
      <4> QED BY <2>1, <2>3, <1>t, <3>3, <4>1 DEF SentOnce
    <3> QED BY <3>2, <3>3
  <2> QED BY <2>1, <2>2, <2>3
<1>3. ASSUME UNCHANGED typed, UNCHANGED line
      PROVE  /\ UNCHANGED <<argv, message, sent>> /\ Parsed' = Parsed
             /\ TheMessage' = TheMessage /\ Built' = Built
  <2>1. UNCHANGED <<argv, message, sent>>
    BY <1>3 DEF typed
  <2> QED BY <1>3, <2>1 DEF Parsed, TheMessage, controlled_name, Built
<1>4. CASE UNCHANGED typed /\ SetUp
  <2>1. pc = "setup" /\ pc' \in {"request", "cleanup"} /\ UNCHANGED <<line, step>>
        /\ (pc' = "cleanup" => result' = "ERROR")
    BY <1>4 DEF SetUp, wait
  <2> QED BY <1>3, <1>4, <2>1 DEF SentOnce
<1>5. CASE UNCHANGED typed /\ WaitForResponse
  <2>1. pc = "wait" /\ pc' \in {"process", "next"} /\ UNCHANGED <<line, step>>
    BY <1>5 DEF WaitForResponse, wait
  <2> QED BY <1>3, <1>5, <2>1 DEF SentOnce
<1>6. CASE UNCHANGED typed /\ ProcessReturns
  <2>1. pc = "process" /\ pc' = "wait" /\ UNCHANGED <<line, step>>
    BY <1>6 DEF ProcessReturns
  <2> QED BY <1>3, <1>6, <2>1 DEF SentOnce
<1>7. CASE UNCHANGED typed /\ NextRequest
  <2>1. pc = "next" /\ UNCHANGED line
    BY <1>7 DEF NextRequest
  <2>2. pc' \in {"request", "loop", "cleanup"}
    BY <1>7 DEF NextRequest
  <2>3. ASSUME line \in Controls PROVE SentOnce'
    <3>1. Len(Requests(line)) = 2 /\ line \notin Listeners
      BY <2>3, TwoRequests
    <3>2. CASE pc' = "request"
      <4>1. step = 1 /\ step' = 2
        BY <1>7, <1>t, <2>3, <3>1, <3>2 DEF NextRequest
      <4> QED BY <1>3, <1>7, <2>1, <2>3, <3>2, <4>1 DEF SentOnce
    <3>3. CASE pc' # "request"
      <4>1. pc' = "cleanup" /\ step' = step
        BY <1>7, <3>1, <3>3 DEF NextRequest
      <4> QED BY <1>3, <1>7, <2>1, <2>3, <4>1 DEF SentOnce
    <3> QED BY <3>2, <3>3
  <2>4. pc' = "loop" => line \notin Controls
    BY <1>7, <1>t DEF NextRequest
  <2> QED BY <1>3, <1>7, <2>1, <2>2, <2>3, <2>4
<1>8. CASE UNCHANGED typed /\ Cleanup
  <2>1. pc = "cleanup" /\ pc' = "exit" /\ UNCHANGED <<line, step, result>>
    BY <1>8 DEF Cleanup, wait
  <2> QED BY <1>3, <1>8, <2>1 DEF SentOnce
<1>9. CASE UNCHANGED typed /\ (Select \/ Listened)
  <2>1. /\ pc \in {"loop", "listen"} /\ pc' \in {"loop", "listen", "cleanup"}
        /\ UNCHANGED <<line, step, result>>
    BY <1>9 DEF Select, Listened, wait
  <2> QED BY <1>3, <1>9, <2>1 DEF SentOnce
<1>10. CASE UNCHANGED typed /\ (SocketsChange \/ Finished
              \/ \E s \in Steps, res \in {"SUCCESS", "ERROR"} : HandleResponse(s, res))
  <2>1. UNCHANGED <<pc, line, step, result>>
    BY <1>10 DEF SocketsChange, Finished, HandleResponse, wait, vars
  <2> QED BY <1>3, <1>10, <2>1 DEF SentOnce
<1>11. CASE UNCHANGED typed /\ Interrupt
  <2>1. UNCHANGED <<line, step, result>> /\ pc' \in {"killed", pc}
    BY <1>11 DEF Interrupt, wait
  <2> QED BY <1>3, <1>11, <2>1 DEF SentOnce
<1>12. CASE UNCHANGED cvars
  <2>1. UNCHANGED typed /\ UNCHANGED <<pc, line, step, result>>
    BY <1>12 DEF cvars, vars, wait
  <2> QED BY <1>3, <2>1 DEF SentOnce
<1> QED BY <1>1, <1>2, <1>4, <1>5, <1>6, <1>7, <1>8, <1>9, <1>10, <1>11, <1>12
        DEF ControllerNext, ControllerMain

\* Success means that the message of the line has been sent once, to where it should go, and
\* carried out, whatever the handlers build of the words.
THEOREM SuccessIsDone == ControllerSpec => []MessageDone
<1>1. TypeOK /\ Turn /\ Carried => MessageDone
  <2> SUFFICES ASSUME TypeOK, Turn, Carried, pc = "exit", result = "SUCCESS", line \in Controls
               PROVE  MessageDone
    BY DEF MessageDone
  <2>1. Len(Requests(line)) = 2 /\ line \notin Listeners
        /\ Requests(line)[2] = Channel(line)
    BY TwoRequests
  <2>2. step = 2 /\ replied[2] = "SUCCESS"
    BY <2>1 DEF Turn, Answered
  <2>3. sent = {TheMessage}
    BY <2>2 DEF Carried, SentOnce
  <2>4. PICK o \in Parsed : message = o.body /\ o.result # "INVALIDPARAMETER"
    BY DEF Carried, Built
  <2>5. o \in Outcomes(argv.cmd, argv.args)
    BY <2>1 DEF Parsed
  <2> QED BY <2>1, <2>2, <2>3, <2>4, <2>5 DEF MessageDone, TheMessage
<1>2. TypeOK /\ Turn /\ Carried /\ [ControllerNext]_cvars => Carried'
  BY CarriedStep
<1> QED BY ControllerImplementsSync, AlwaysInTurn, CarriedInit, <1>1, <1>2, PTL DEF ControllerSpec

-----------------------------------------------------------------------------
(* What is sent, and what is refused. *)

\* What the handler of a line builds of its words, as it reads them.
BodiesRead(cmd, args) == Bodies(cmd, Read(cmd, args))

\* What there is of an upgrade3 whose source file the library has refused.
FileRefused(cmd, body) == cmd = "upgrade3" /\ body = HalfBuilt

\* Nothing but what parse_args has built is ever sent; a line is refused only when its handler
\* builds nothing of it, or the library has refused the source file.
OnlyBuilt ==
  /\ \A m \in sent : m.body = message /\ Built /\ line \in Controls
  /\ result = "INVALIDPARAMETER" /\ line \in Controls =>
       BodiesRead(argv.cmd, argv.args) = {} \/ FileRefused(argv.cmd, message)

LEMMA ControlsApart == ASSUME NEW l \in Controls PROVE l \notin Listeners
  BY DEF Controls, Listeners

\* What parse_args returns and has built, by what the handler builds.
LEMMA OutcomesOfBodies ==
  ASSUME NEW cmd, NEW args, NEW o \in Outcomes(cmd, args)
  PROVE  /\ o.result = "INVALIDPARAMETER" =>
              BodiesRead(cmd, args) = {} \/ FileRefused(cmd, o.body)
         /\ \/ o.result = "INVALIDPARAMETER"
            \/ o.body \in BodiesRead(cmd, args)
            \/ FileRefused(cmd, o.body)
<1> DEFINE done == {[result |-> "SUCCESS", body |-> b] : b \in BodiesRead(cmd, args)}
<1>1. \/ done = {} /\ o = [result |-> "INVALIDPARAMETER", body |-> {}]
      \/ o \in done
      \/ cmd = "upgrade3" /\ o \in {[result |-> r, body |-> HalfBuilt] :
                                     r \in {"ERROR", "INVALIDPARAMETER"}}
  BY DEF Outcomes, BodiesRead
<1>2. CASE done = {} /\ o = [result |-> "INVALIDPARAMETER", body |-> {}]
  <2>1. BodiesRead(cmd, args) = {}
    BY <1>2
  <2> QED BY <1>2, <2>1
<1>3. CASE o \in done
  <2>1. PICK b \in BodiesRead(cmd, args) : o = [result |-> "SUCCESS", body |-> b]
    BY <1>3
  <2> QED BY <2>1
<1>4. CASE cmd = "upgrade3" /\ o \in {[result |-> r, body |-> HalfBuilt] :
                                       r \in {"ERROR", "INVALIDPARAMETER"}}
  BY <1>4 DEF FileRefused
<1> QED BY <1>1, <1>2, <1>3, <1>4

LEMMA OnlyBuiltInit == ControllerInit => OnlyBuilt
<1> SUFFICES ASSUME ControllerInit PROVE OnlyBuilt
  OBVIOUS
<1>1. sent = {} /\ result = "SUCCESS"
  BY DEF ControllerInit, Init
<1> QED BY <1>1 DEF OnlyBuilt

LEMMA OnlyBuiltStep ==
  TypeOK /\ Turn /\ Carried /\ OnlyBuilt /\ [ControllerNext]_cvars => OnlyBuilt'
<1> SUFFICES ASSUME TypeOK, Turn, Carried, OnlyBuilt, [ControllerNext]_cvars PROVE OnlyBuilt'
  OBVIOUS
<1>1. CASE CParseArgs
  <2>1. /\ pc = "start" /\ UNCHANGED <<argv, line, sent>>
    BY <1>1 DEF CParseArgs, ParseArgs
  <2>2. sent = {}
    <3>1. line \in Controls => sent = {}
      BY <2>1 DEF Carried, SentOnce
    <3> QED BY <3>1 DEF OnlyBuilt
  <2>3. PICK o \in Parsed : result' = o.result /\ message' = o.body
    BY <1>1 DEF CParseArgs
  <2>4. line \in Controls => o \in Outcomes(argv.cmd, argv.args)
    BY ControlsApart DEF Parsed
  <2>5. result' = "INVALIDPARAMETER" /\ line \in Controls =>
          BodiesRead(argv.cmd, argv.args) = {} \/ FileRefused(argv.cmd, message')
    <3> SUFFICES ASSUME result' = "INVALIDPARAMETER", line \in Controls
                 PROVE  BodiesRead(argv.cmd, argv.args) = {} \/ FileRefused(argv.cmd, message')
      OBVIOUS
    <3>1. o \in Outcomes(argv.cmd, argv.args) /\ o.result = "INVALIDPARAMETER"
      BY <2>3, <2>4
    <3> QED BY <2>3, <3>1, OutcomesOfBodies
  <2> QED BY <2>1, <2>2, <2>5 DEF OnlyBuilt
<1>2. CASE CRequest
  <2>1. /\ pc = "request" /\ result' \in {"SUCCESS", "ERROR"} /\ UNCHANGED <<argv, message, line>>
    BY <1>2 DEF CRequest, Request
  <2>2. Parsed' = Parsed
    BY <2>1 DEF Parsed
  <2>3. Built' = Built /\ Built
    BY <2>1, <2>2 DEF Built, Carried
  <2>4. \A m \in sent' : m \in sent \/ (m = Send /\ line \in Controls)
    BY <1>2 DEF CRequest
  <2>5. Send.body = message
    BY DEF Send
  <2>6. \A m \in sent' : m.body = message' /\ Built' /\ line' \in Controls
    BY <2>1, <2>3, <2>4, <2>5 DEF OnlyBuilt
  <2> QED BY <2>1, <2>6 DEF OnlyBuilt
<1>3. ASSUME UNCHANGED typed, UNCHANGED line, result' = result \/ result' # "INVALIDPARAMETER"
      PROVE  OnlyBuilt'
  <2>1. UNCHANGED <<argv, message, sent>>
    BY <1>3 DEF typed
  <2>2. Parsed' = Parsed
    BY <1>3, <2>1 DEF Parsed
  <2>3. Built' = Built
    BY <2>1, <2>2 DEF Built
  <2> QED BY <1>3, <2>1, <2>3 DEF OnlyBuilt
<1>4. CASE UNCHANGED typed /\ WaitForResponse
  <2>1. /\ UNCHANGED line /\ pc = "wait"
        /\ result' = result \/ result' = "TIMEDOUT" \/ (~communicating /\ result' = last_result)
    <3>1. /\ UNCHANGED line /\ pc = "wait"
          /\ result' \in {result, IF communicating THEN "TIMEDOUT" ELSE last_result}
      BY <1>4 DEF WaitForResponse
    <3> QED BY <3>1
  <2>2. ~communicating => last_result \in {"SUCCESS", "ERROR"}
    BY <2>1 DEF Turn, Answered
  <2> QED BY <1>3, <1>4, <2>1, <2>2
<1>5. CASE UNCHANGED typed /\ (SetUp \/ NextRequest \/ ProcessReturns \/ Cleanup \/ Select \/ Listened)
  <2>1. UNCHANGED line /\ (result' = result \/ result' # "INVALIDPARAMETER")
    BY <1>5 DEF SetUp, NextRequest, ProcessReturns, Cleanup, Select, Listened
  <2> QED BY <1>3, <1>5, <2>1
<1>6. CASE UNCHANGED typed /\ (SocketsChange \/ Interrupt \/ Finished
              \/ \E s \in Steps, res \in {"SUCCESS", "ERROR"} : HandleResponse(s, res))
  <2>1. UNCHANGED <<line, result>>
    BY <1>6 DEF SocketsChange, Interrupt, Finished, HandleResponse, vars
  <2> QED BY <1>3, <1>6, <2>1
<1>7. CASE UNCHANGED cvars
  <2>1. UNCHANGED typed /\ UNCHANGED <<line, result>>
    BY <1>7 DEF cvars, vars
  <2> QED BY <1>3, <2>1
<1> QED BY <1>1, <1>2, <1>4, <1>5, <1>6, <1>7 DEF ControllerNext, ControllerMain

LEMMA AlwaysBuilt == ControllerSpec => [](TypeOK /\ Turn /\ Carried /\ OnlyBuilt)
<1>1. TypeOK /\ Turn /\ Carried /\ [ControllerNext]_cvars => Carried'
  BY CarriedStep
<1>2. TypeOK /\ Turn /\ Carried /\ OnlyBuilt /\ [ControllerNext]_cvars => OnlyBuilt'
  BY OnlyBuiltStep
<1> QED BY ControllerImplementsSync, AlwaysInTurn, CarriedInit, OnlyBuiltInit, <1>1, <1>2, PTL
        DEF ControllerSpec

LEMMA SentIsBuilt ==
  ASSUME Carried, OnlyBuilt, NEW m \in sent
  PROVE  /\ argv \in Argvs /\ Line(argv.args)
         /\ m.body \in BodiesRead(argv.cmd, argv.args) \/ FileRefused(argv.cmd, m.body)
<1>1. argv \in Argvs /\ Line(argv.args)
  BY DEF Carried
<1>2. m.body = message /\ Built /\ line \in Controls
  BY DEF OnlyBuilt
<1>3. PICK o \in Parsed : message = o.body /\ o.result # "INVALIDPARAMETER"
  BY <1>2 DEF Built
<1>4. o \in Outcomes(argv.cmd, argv.args)
  BY <1>2, ControlsApart DEF Parsed
<1> QED BY <1>1, <1>2, <1>3, <1>4, OutcomesOfBodies

\* Whatever is typed and whatever the server answers: a message sets nothing that no word of
\* the line, as the handlers read it, has asked for.
THEOREM NothingIsInvented == ControllerSpec => []NothingInvented
<1>1. Carried /\ OnlyBuilt => NothingInvented
  <2> DEFINE words == Read(argv.cmd, argv.args)
  <2> SUFFICES ASSUME Carried, OnlyBuilt, NEW m \in sent, Fits(argv.cmd, words),
                      m.body # HalfBuilt
               PROVE  OnlyAsked(argv.cmd, words, m.body)
    BY DEF NothingInvented
  <2>1. argv \in Argvs /\ m.body \in Bodies(argv.cmd, words)
    BY SentIsBuilt DEF BodiesRead, FileRefused
  <2>2. Line(words)
    BY <2>1, ControllerAssumption
  <2> HIDE DEF words
  <2> QED BY <2>1, <2>2, BodiesOnlyAsked
<1> QED BY AlwaysBuilt, <1>1, PTL

\* A line that its usage text prints is refused if it is misprinted, or the library refuses the
\* file of an upgrade3; of any other line every message says all that has been typed, and no
\* more.
THEOREM UsageIsHeeded == ControllerSpec => []UsageHeeded
<1>1. Carried /\ OnlyBuilt => UsageHeeded
  <2> SUFFICES ASSUME Carried, OnlyBuilt, pc = "exit", line \in Controls,
                      argv.args \in Usage(argv.cmd)
               PROVE  IF argv.args \in Misprinted(argv.cmd)
                        THEN result = "INVALIDPARAMETER" /\ sent = {}
                        ELSE /\ result = "INVALIDPARAMETER" => FileRefused(argv.cmd, message)
                             /\ \A m \in sent : \/ Asked(argv.cmd, argv.args, m.body)
                                                \/ FileRefused(argv.cmd, m.body)
    BY DEF UsageHeeded, FileRefused
  <2>1. Line(argv.args)
    BY ControllerAssumption DEF Carried
  <2>2. CASE argv.args \in Misprinted(argv.cmd)
    <3>1. BodiesRead(argv.cmd, argv.args) = {} /\ argv.cmd # "upgrade3"
      BY <2>1, <2>2, MisprintedRefused DEF BodiesRead
    <3>2. sent = {}
      BY <3>1, SentIsBuilt DEF FileRefused
    <3>3. result = "INVALIDPARAMETER"
      <4> SUFFICES ASSUME result # "INVALIDPARAMETER" PROVE FALSE
        OBVIOUS
      <4>1. PICK o \in Parsed : o.result # "INVALIDPARAMETER"
        BY DEF Carried, Built
      <4>2. o \in Outcomes(argv.cmd, argv.args)
        BY ControlsApart DEF Parsed
      <4> QED BY <3>1, <4>1, <4>2, OutcomesOfBodies DEF FileRefused
    <3> QED BY <2>2, <3>2, <3>3
  <2>3. CASE argv.args \notin Misprinted(argv.cmd)
    <3>1. Heeded(argv.cmd, argv.args)
      BY <2>1, <2>3, UsageBodies
    <3>2. BodiesRead(argv.cmd, argv.args) = Bodies(argv.cmd, argv.args)
      BY <2>1, ReadAsTyped DEF BodiesRead
    <3>3. result = "INVALIDPARAMETER" => FileRefused(argv.cmd, message)
      BY <3>1, <3>2 DEF OnlyBuilt, Heeded
    <3>4. ASSUME NEW m \in sent
          PROVE  Asked(argv.cmd, argv.args, m.body) \/ FileRefused(argv.cmd, m.body)
      BY <3>1, <3>2, SentIsBuilt DEF Heeded
    <3> QED BY <2>3, <3>3, <3>4
  <2> QED BY <2>2, <2>3
<1> QED BY AlwaysBuilt, <1>1, PTL

=============================================================================
