-------------------------- MODULE MCSmallPrograms ---------------------------
(* One TLC instance for the three small programs: which of them runs is chosen at first, and *)
(* each has the variables of its module; pc and running are the running one's. *)
EXTENDS Naturals, CmmClient

CONSTANTS Socks, Stdin, MaxTyped

VARIABLES
  program, status, daemon, exit_code,
  browse, env, result, sockets, sockets_changed, curr_sockets, next_resolve_timeout, browsed,
  typed, ahead, ntyped, closed

Reg      == INSTANCE DnssdReg
Browsing == INSTANCE BrowsingTest

reg      == <<status, daemon, exit_code>>
browsing == <<browse, env, result, sockets, sockets_changed, curr_sockets, next_resolve_timeout,
              browsed, typed, ahead, ntyped, closed>>
client   == <<mode, wait, told, library, manager>>
all      == <<program, vars, reg, browsing>>

IdleClient ==
  /\ mode = "none" /\ wait = "connection" /\ told = "nothing" /\ connected = FALSE
  /\ options = "unknown" /\ state = "unknown" /\ request = "none" /\ behind = FALSE
  /\ cut = FALSE /\ pending = "nobody"
  /\ fate = "none" /\ meddled = FALSE
IdleReg == status = FALSE /\ daemon = "silent" /\ exit_code = 0
IdleBrowsing ==
  /\ browse = FALSE /\ env = FALSE /\ result = TRUE /\ sockets = {} /\ sockets_changed = FALSE
  /\ curr_sockets = {} /\ next_resolve_timeout = "none" /\ browsed = {}
  /\ typed = 0 /\ ahead = 0 /\ ntyped = 0 /\ closed = FALSE

InitAny ==
  \/ program = "cmm" /\ Init /\ IdleReg /\ IdleBrowsing
  \/ program = "reg" /\ Reg!Init /\ IdleClient /\ IdleBrowsing
  \/ program = "browsing" /\ Browsing!Init /\ running = TRUE /\ IdleClient /\ IdleReg

\* The variables of the programs that do not run stay as they are.
OneRuns ==
  /\ UNCHANGED program
  /\ program # "cmm" => UNCHANGED client
  /\ program # "reg" => UNCHANGED reg
  /\ program # "browsing" => UNCHANGED browsing
  /\ program = "browsing" => UNCHANGED running

NextAny ==
  \/ program = "cmm" /\ Next /\ OneRuns
  \/ program = "reg" /\ Reg!Next /\ OneRuns
  \/ program = "browsing" /\ Browsing!Next /\ OneRuns

MainAny ==
  \/ program = "cmm" /\ Main /\ OneRuns
  \/ program = "reg" /\ Reg!Main /\ OneRuns
  \/ program = "browsing" /\ Browsing!Main /\ OneRuns

FairSpecAny == InitAny /\ [][NextAny]_all /\ WF_all(MainAny)

-----------------------------------------------------------------------------
(* The properties of the programs, next to SaidWhenSettled. *)

\* The browsing test selects stdin and the sockets that the browse has.
SocketsSelected == program = "browsing" => Browsing!SocketsSelected

\* The browsing test processes a resolve that is to time out.
ResolvesServed == program = "browsing" => Browsing!ResolvesServed

\* What should end a program ends it: SIGINT, a failed registration, the end of stdin.
Ends ==
  /\ program = "cmm" => Stops
  /\ program = "reg" => Reg!FailureEnds
  /\ program = "browsing" => Browsing!StdinEnds

=============================================================================
