-------------------------- MODULE ConmonController ---------------------------
(***************************************************************************)
(* The whole of conmon_audinate_controller.c: ConmonSync, where a command  *)
(* line is only a way of sending, with ControlMessages, which says what is *)
(* built of the words and handed to the server.  The lines of the metering *)
(* listener, the other program of ConmonSync, have no words.               *)
(***************************************************************************)
EXTENDS ConmonSync, ControlUsage

CONSTANTS
  Argvs,  \* the lines that may be typed: the device, the command and the words after it
  Devices

\* The branch of main that sends a command's message, by strncmp of argv[2].
Class(cmd) ==
  CASE cmd \in {"access", "dante_ready"} -> "access"
    [] cmd \in {"master", "name_id"}     -> "master"
    [] cmd = "upgrade3"                  -> "upgrade3"
    [] cmd \in Listeners                 -> cmd
    [] OTHER                             -> "clocking"

ASSUME ControllerAssumption ==
  \A a \in Argvs : /\ a.device \in Devices /\ Class(a.cmd) \in CommandLines
                   /\ Line(a.args) /\ Line(Read(a.cmd, a.args))

VARIABLES
  argv,    \* what has been typed
  message, \* body
  sent     \* at the library: the messages it has been given

typed == <<argv, message, sent>>
cvars == <<vars, typed>>

ControllerInit ==
  /\ Init
  /\ argv \in Argvs /\ line = Class(argv.cmd)
  /\ message = {} /\ sent = {}

\* No name stands for the program's own server.
controlled_name == IF argv.device \in {"localhost", "broadcast"} THEN "" ELSE argv.device

\* What the command line is made of.  The listener's arguments are only right or wrong.
Parsed ==
  IF line \in Listeners
    THEN {[result |-> r, body |-> {}] : r \in {"SUCCESS", "INVALIDPARAMETER"}}
    ELSE Outcomes(argv.cmd, argv.args)

CParseArgs ==
  /\ ParseArgs
  /\ \E o \in Parsed :
       /\ message' = o.body /\ result' = o.result
       /\ pc' = IF o.result = "INVALIDPARAMETER" THEN "exit" ELSE "setup"
  /\ UNCHANGED <<argv, sent>>

Send == [channel |-> Requests(line)[step], to |-> controlled_name, body |-> message]

\* A bug in main: what conmon_client_connect returns is taken for the result of the message.
CRequestConnectOnly ==
  /\ Request
  /\ sent' = IF pc' = "wait" /\ line \in Controls /\ step = 1 THEN sent \cup {Send} ELSE sent
  /\ UNCHANGED <<argv, message>>

\* The second request of the controller carries the message.
CRequest ==
  /\ Request
  /\ sent' = IF pc' = "wait" /\ line \in Controls /\ step = 2 THEN sent \cup {Send} ELSE sent
  /\ UNCHANGED <<argv, message>>

ControllerMain ==
  \/ CParseArgs \/ CRequest
  \/ /\ UNCHANGED typed
     /\ \/ SetUp \/ WaitForResponse \/ ProcessReturns \/ NextRequest
        \/ Cleanup \/ Select \/ Listened

ControllerNext ==
  \/ ControllerMain
  \/ /\ UNCHANGED typed
     /\ \/ SocketsChange \/ Interrupt \/ Finished
        \/ \E s \in Steps, res \in {"SUCCESS", "ERROR"} : HandleResponse(s, res)

ControllerSpec == ControllerInit /\ [][ControllerNext]_cvars

FairControllerSpec == ControllerSpec /\ WF_cvars(ControllerMain)

-----------------------------------------------------------------------------
(* Properties. *)

Channel(l) == IF l = "access" THEN "local" ELSE IF l = "master" THEN "broadcast" ELSE "control"

\* When the controller reports success, the server has carried out one message: the one that
\* parse_args has built of the line, sent once, by the channel the command is for and to the
\* device that was named.
MessageDone ==
  pc = "exit" /\ result = "SUCCESS" /\ line \in Controls =>
    \E o \in Outcomes(argv.cmd, argv.args) :
      /\ o.result # "INVALIDPARAMETER"
      /\ sent = {[channel |-> Channel(line), to |-> controlled_name, body |-> o.body]}
      /\ replied[2] = "SUCCESS"

\* A line that its usage text prints as right is refused only when the library refuses the
\* source file of an upgrade3, and its message asks for all the line does and no more; but for
\* the half-built message of such an upgrade3, and for the index of a serial port.  The lines
\* that are misprinted are refused, every one, and nothing is sent.
UsageHeeded ==
  pc = "exit" /\ line \in Controls /\ argv.args \in Usage(argv.cmd) =>
    IF argv.args \in Misprinted(argv.cmd)
      THEN result = "INVALIDPARAMETER" /\ sent = {}
      ELSE /\ result = "INVALIDPARAMETER" => argv.cmd = "upgrade3" /\ message = HalfBuilt
           /\ \A m \in sent : \/ Asked(argv.cmd, argv.args, m.body)
                              \/ argv.cmd = "upgrade3" /\ m.body = HalfBuilt

\* Whatever has been typed, right or wrong, abbreviated, out of order or twice: a message sets
\* nothing that no word of the line, as the handlers read it, has asked for, so far as its
\* numbers fit their settings.  A word that is written key=text, with the key's whole name, is
\* read as it is written; of others the text behind the key counts, whatever it is: padding=-6
\* asks for a pad of 0 dB, mode=inetd_exit for inetd_enable.
NothingInvented ==
  LET words == Read(argv.cmd, argv.args)
  IN  \A m \in sent :
        Fits(argv.cmd, words) /\ m.body # HalfBuilt => OnlyAsked(argv.cmd, words, m.body)

=============================================================================
