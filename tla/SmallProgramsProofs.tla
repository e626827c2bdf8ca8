------------------------- MODULE SmallProgramsProofs -------------------------
(***************************************************************************)
(* Proofs about the small programs, each by itself and together: what the  *)
(* ConMon manager's client says of its configuration is so, and the        *)
(* browsing test selects the sockets that its browse has.                  *)
(***************************************************************************)
EXTENDS MCSmallPrograms, TLAPS

-----------------------------------------------------------------------------
(* The ConMon manager's client. *)

\* Before the manager has handled the request nothing at the manager is the program's.  Once
\* the state that it has made is reported, the program does not take its own configuration
\* for anything else while it is pending.
Reported ==
  /\ behind => request = "handled" \/ cut
  /\ request \in {"none", "sent"} => pending # "mine"
  /\ ~behind /\ ~cut /\ pending = "mine" => state = "mine"

\* The program is where the request is: it waits for it once it has been sent, and looks at
\* the state, or says anything, once it is completed.
Asked ==
  /\ cut => request = "completed"
  /\ wait = "request" => request # "none"
  /\ wait = "pending" \/ told # "nothing" => request = "completed"
  /\ request = "completed" /\ ~cut => ~behind
  /\ pc = "configure" => wait = "options and state" /\ request = "none"
  /\ wait \in {"connection", "options and state"} => request = "none"

\* What has become of the configuration.  It is replaced only by another client's; and where the
\* manager has not taken it and no other client's is in the way, the state that the program
\* sees has nothing pending, so that it does not come to wait until that is applied.
Traced ==
  /\ pending = "mine" <=> fate = "taken"
  /\ fate = "replaced" => meddled
  /\ request \in {"none", "sent"} => fate = "none" /\ state # "mine"
  /\ pc = "configure" \/ wait \in {"request", "pending"} => state # "unknown"
  /\ request \in {"handled", "completed"} /\ fate = "none" /\ ~cut /\ ~meddled
       => pending = "nobody" /\ state \notin {"mine", "other"}
  /\ wait = "pending" /\ ~cut /\ ~meddled => fate # "none"

\* What has been said was so.
Said == told # "nothing" => pc \in {"cleanup", "done"}

SaidInv == Reported /\ Asked /\ Traced /\ Said /\ SaidWhenSettled

-----------------------------------------------------------------------------

\* What the library keeps, it keeps with its type.
LEMMA LibraryKept ==
  ASSUME TypeOK, UNCHANGED library
  PROVE  /\ connected' \in BOOLEAN /\ options' \in {"unknown", "with", "without"}
         /\ state' \in {"unknown"} \cup Owners
         /\ request' \in {"none", "sent", "handled", "completed"}
         /\ behind' \in BOOLEAN /\ cut' \in BOOLEAN
<1>1. connected' = connected /\ options' = options /\ state' = state
  BY DEF library
<1>2. request' = request /\ behind' = behind /\ cut' = cut
  BY DEF library
<1> QED BY <1>1, <1>2 DEF TypeOK

\* And so does the manager.
LEMMA ManagerKept ==
  ASSUME TypeOK, UNCHANGED manager
  PROVE  /\ pending' \in Owners /\ meddled' \in BOOLEAN
         /\ fate' \in {"none", "taken", "applied", "replaced"}
<1>1. pending' = pending /\ fate' = fate /\ meddled' = meddled
  BY DEF manager
<1> QED BY <1>1 DEF TypeOK

\* What the manager's steps leave alone keeps its type.
LEMMA AroundKept ==
  ASSUME TypeOK, UNCHANGED around
  PROVE  /\ mode' \in {"none", "-l", "-i"}
         /\ pc' \in {"setup", "head", "select", "process", "configure", "cleanup", "done"}
         /\ wait' \in Waits /\ running' \in BOOLEAN
         /\ told' \in {"nothing", "applied", "no changes"}
         /\ connected' \in BOOLEAN /\ options' \in {"unknown", "with", "without"}
         /\ state' \in {"unknown"} \cup Owners /\ cut' \in BOOLEAN
<1>1. mode' = mode /\ pc' = pc /\ wait' = wait /\ running' = running /\ told' = told
  BY DEF around
<1>2. connected' = connected /\ options' = options /\ state' = state /\ cut' = cut
  BY DEF around
<1> QED BY <1>1, <1>2 DEF TypeOK

LEMMA TypeInit == Init => TypeOK
BY DEF Init, TypeOK, Waits, Owners

\* Every step of the client keeps the types.
LEMMA TypeStep == TypeOK /\ [Next]_vars => TypeOK'
<1> SUFFICES ASSUME TypeOK, [Next]_vars PROVE TypeOK'
  OBVIOUS
<1>1. CASE UNCHANGED vars
  BY <1>1, LibraryKept, ManagerKept DEF TypeOK, vars
<1>2. CASE SetUp
  BY <1>2, LibraryKept, ManagerKept DEF TypeOK, SetUp
<1>3. CASE Turn
  BY <1>3, LibraryKept, ManagerKept DEF TypeOK, Turn
<1>4. CASE Select
  BY <1>4, LibraryKept, ManagerKept DEF TypeOK, Select
<1>5. CASE ProcessReturns
  BY <1>5, LibraryKept, ManagerKept DEF TypeOK, ProcessReturns
<1>6. CASE Cleanup
  BY <1>6, ManagerKept DEF TypeOK, Cleanup
<1>7. CASE Interrupt
  BY <1>7, LibraryKept, ManagerKept DEF TypeOK, Interrupt
<1>8. CASE Proceed
  BY <1>8, LibraryKept, ManagerKept DEF Proceed, TypeOK, Waits
<1>9. CASE Configure
  BY <1>9, ManagerKept DEF TypeOK, Configure, Waits
<1>10. CASE Events
  BY <1>10, ManagerKept DEF TypeOK, Events, ConnectionChanged, OptionsChanged, StateChanged,
       RequestCompleted, Processing
<1>11. CASE Manager
  <2>1. UNCHANGED around
    BY <1>11 DEF Manager, Handles, Applies, OtherConfigures
  <2>2. request' \in {"none", "sent", "handled", "completed"} /\ behind' \in BOOLEAN
    BY <1>11 DEF Manager, Handles, Applies, OtherConfigures, TypeOK
  <2>3. pending' \in Owners /\ fate' \in {"none", "taken", "applied", "replaced"}
    BY <1>11 DEF Manager, Handles, Applies, OtherConfigures, TypeOK, Owners
  <2>4. meddled' \in BOOLEAN
    <3>1. ("other" \in {pending, state}) \in BOOLEAN
      OBVIOUS
    <3>2. \/ meddled' \in {TRUE, FALSE, meddled}
          \/ meddled' = ("other" \in {pending, state})
      BY <1>11 DEF Manager, Handles, Applies, OtherConfigures
    <3> QED BY <3>1, <3>2, Zenon DEF TypeOK
  <2> QED BY <2>1, <2>2, <2>3, <2>4, AroundKept DEF TypeOK
<1>12. CASE Finished
  BY <1>12, LibraryKept, ManagerKept DEF Finished, TypeOK, vars
<1> QED BY <1>1, <1>2, <1>3, <1>4, <1>5, <1>6, <1>7, <1>8, <1>9, <1>10, <1>11, <1>12
       DEF Next, Main

\* Every variable of the client keeps its type.
THEOREM TypeCorrect == Spec => []TypeOK
BY TypeInit, TypeStep, PTL DEF Spec

LEMMA SaidInit == Init => SaidInv
BY DEF Init, SaidInv, Reported, Asked, Traced, Said, SaidWhenSettled

\* Every step of the client, and of the manager, keeps what has been said true.
LEMMA SaidStep == TypeOK /\ SaidInv /\ [Next]_vars => SaidInv'
<1> SUFFICES ASSUME TypeOK, SaidInv, [Next]_vars PROVE SaidInv'
  OBVIOUS
<1> USE DEF SaidInv, Reported, Asked, Traced, Said, SaidWhenSettled, manager
<1>1. CASE UNCHANGED vars
  BY <1>1 DEF vars, library
<1>2. CASE SetUp
  BY <1>2 DEF SetUp, library, TypeOK
<1>3. CASE Turn
  BY <1>3 DEF Turn, library, TypeOK
<1>4. CASE Select
  BY <1>4 DEF Select, library, TypeOK
<1>5. CASE ProcessReturns
  BY <1>5 DEF ProcessReturns, library, TypeOK
<1>6. CASE Cleanup
  BY <1>6 DEF Cleanup, library, TypeOK
<1>7. CASE Interrupt
  BY <1>7 DEF Interrupt, library, TypeOK
<1>8. CASE Proceed
  <2>1. UNCHANGED <<connected, options, state, request, behind, cut>> /\ UNCHANGED manager
    BY <1>8 DEF Proceed, library
  <2>2. wait \in {"connection", "options and state", "request", "pending"} /\ pc = "head"
    BY <1>8 DEF Proceed
  <2>3. told = "nothing" /\ told' \in {told, "applied", "no changes"}
    BY <1>8, <2>2 DEF Proceed
  <2>4. CASE wait = "connection"
    <3>1. wait' = "options and state" /\ pc' = pc /\ told' = told
      BY <1>8, <2>4 DEF Proceed
    <3> QED BY <2>1, <2>2, <2>4, <3>1
  <2>5. CASE wait = "options and state"
    <3>1. state # "unknown" /\ request = "none" /\ told' = told
      BY <1>8, <2>5 DEF Proceed, Awaited
    <3>2. wait' = wait \/ wait' = "events"
      BY <1>8, <2>5 DEF Proceed
    <3>3. pc' = "configure" => wait' = wait
      BY <1>8, <2>2, <2>5 DEF Proceed
    <3> QED BY <2>1, <2>3, <2>5, <3>1, <3>2, <3>3
  <2>6. CASE wait = "request"
    <3>1. request = "completed"
      BY <1>8, <2>6 DEF Proceed, Awaited, Active, TypeOK
    <3>2. CASE state = "nobody"
      <4>1. told' = "no changes" /\ pc' = "cleanup" /\ wait' = wait
        BY <1>8, <2>6, <3>2 DEF Proceed
      <4> QED BY <2>1, <2>6, <3>1, <3>2, <4>1
    <3>3. CASE state # "nobody"
      <4>1. wait' = "pending" /\ pc' = pc /\ told' = told
        BY <1>8, <2>6, <3>3 DEF Proceed
      <4>2. state \in {"mine", "other"}
        BY <2>6, <3>3 DEF TypeOK, Owners
      <4> QED BY <2>1, <2>3, <2>6, <3>1, <4>1, <4>2
    <3> QED BY <3>2, <3>3
  <2>7. CASE wait = "pending"
    <3>1. told' = "applied" /\ pc' = "cleanup" /\ wait' = wait
      BY <1>8, <2>7 DEF Proceed
    <3>2. state = "nobody" /\ request = "completed"
      BY <1>8, <2>7 DEF Proceed, Awaited
    <3>3. ~cut => pending # "mine"
      BY <3>2
    <3>4. ~cut /\ ~meddled => fate = "applied"
      BY <2>7, <3>2, <3>3 DEF TypeOK
    <3> QED BY <2>1, <2>7, <3>1, <3>2, <3>3, <3>4
  <2> QED BY <2>2, <2>4, <2>5, <2>6, <2>7
<1>9. CASE Configure
  BY <1>9 DEF Configure
<1>10. CASE ConnectionChanged
  BY <1>10 DEF ConnectionChanged, Processing, Active, TypeOK
<1>11. CASE OptionsChanged
  BY <1>11 DEF OptionsChanged, Processing
<1>12. CASE StateChanged
  BY <1>12 DEF StateChanged, Processing, TypeOK, Owners
<1>13. CASE RequestCompleted
  BY <1>13 DEF RequestCompleted, Processing
<1>14. CASE Handles
  <2>1. UNCHANGED <<mode, pc, wait, told, state, cut>> /\ request = "sent" /\ request' = "handled"
    BY <1>14 DEF Handles, around
  <2>2. CASE pending' = "mine" /\ fate' = "taken" /\ behind' = TRUE /\ meddled' = FALSE
    BY <2>1, <2>2
  <2>3. CASE meddled' = ("other" \in {pending, state}) /\ UNCHANGED <<pending, fate, behind>>
    <3>1. ~meddled' => pending = "nobody" /\ state \notin {"mine", "other"}
      BY <2>1, <2>3 DEF TypeOK, Owners
    <3>2. told = "nothing" /\ wait # "pending" /\ fate = "none" /\ ~cut
      BY <2>1
    <3> QED BY <2>1, <2>3, <3>1, <3>2
  <2> QED BY <1>14, <2>2, <2>3 DEF Handles
<1>15. CASE Applies
  BY <1>15 DEF Applies, around, TypeOK
<1>16. CASE OtherConfigures
  BY <1>16 DEF OtherConfigures, around, TypeOK
<1>17. CASE Finished
  BY <1>17 DEF Finished, vars, library
<1> QED BY <1>1, <1>2, <1>3, <1>4, <1>5, <1>6, <1>7, <1>8, <1>9, <1>10, <1>11, <1>12, <1>13, <1>14, <1>15, <1>16, <1>17
       DEF Next, Main, Events, Manager

\* What the program says of its configuration is said of a request that is complete and a
\* configuration that is no longer pending; and of one that was applied, if it says that and no
\* other client's was in the way.  Unless the connection was lost with the request in flight.
THEOREM WhatIsSaidIsSo == Spec => []SaidWhenSettled
<1>1. SaidInv => SaidWhenSettled
  BY DEF SaidInv
<1> QED BY SaidInit, SaidStep, <1>1, TypeCorrect, PTL DEF Spec

-----------------------------------------------------------------------------
(* The browsing test. *)

\* What the browsing test has listed is what the browse has, and it knows when that is not so:
\* the library changes the sockets only inside db_browse_process.
Selected ==
  /\ pc \in {"select", "timeout", "stdin"} => sockets = browsed \cup {Stdin}
  /\ pc \in {"process", "changed"} => sockets_changed \/ sockets = browsed \cup {Stdin}

LEMMA SelectedInit == Browsing!Init => Selected
BY DEF Browsing!Init, Selected

\* Every step of the browsing test keeps that.
LEMMA SelectedStep == Selected /\ [Browsing!Next]_Browsing!vars => Selected'
<1> SUFFICES ASSUME Selected, [Browsing!Next]_Browsing!vars PROVE Selected'
  OBVIOUS
<1> USE DEF Selected, Browsing!handles, Browsing!loop, Browsing!input
<1>1. CASE Browsing!SetUp
  BY <1>1 DEF Browsing!SetUp
<1>2. CASE Browsing!Start
  BY <1>2 DEF Browsing!Start
<1>3. CASE Browsing!Cleanup
  BY <1>3 DEF Browsing!Cleanup
<1>4. CASE Browsing!Begin
  BY <1>4 DEF Browsing!Begin, Browsing!GetSockets
<1>5. CASE Browsing!Select
  BY <1>5 DEF Browsing!Select
<1>6. CASE Browsing!Needs
  BY <1>6 DEF Browsing!Needs
<1>7. CASE Browsing!ProcessReturns
  BY <1>7 DEF Browsing!ProcessReturns
<1>8. CASE Browsing!Changed
  BY <1>8 DEF Browsing!Changed, Browsing!GetSockets
<1>9. CASE Browsing!NextLine
  BY <1>9 DEF Browsing!NextLine
<1>10. CASE Browsing!SocketsChange
  BY <1>10 DEF Browsing!SocketsChange
<1>11. CASE Browsing!Tick \/ Browsing!Type
  BY <1>11 DEF Browsing!Tick, Browsing!Type
<1>12. CASE UNCHANGED Browsing!vars
  BY <1>12 DEF Browsing!vars
<1> QED BY <1>1, <1>2, <1>3, <1>4, <1>5, <1>6, <1>7, <1>8, <1>9, <1>10, <1>11, <1>12
        DEF Browsing!Next, Browsing!Main, Browsing!Finished

\* The browsing test selects stdin and the sockets that the browse has, however often the
\* library changes them and whatever number of sockets there are.
THEOREM BrowseIsSelected == Browsing!Spec => []Browsing!SocketsSelected
<1>1. Selected => Browsing!SocketsSelected
  BY DEF Selected, Browsing!SocketsSelected
<1> QED BY SelectedInit, SelectedStep, <1>1, PTL DEF Browsing!Spec

-----------------------------------------------------------------------------
(* The programs together, as the run has them. *)

\* Whichever program runs, what is proved of it alone holds of it here.
AnyInv ==
  /\ IF program = "cmm" THEN TypeOK /\ SaidInv ELSE told = "nothing"
  /\ program = "browsing" => Selected

LEMMA AnyInvInit == InitAny => AnyInv
<1> SUFFICES ASSUME InitAny PROVE AnyInv
  OBVIOUS
<1>1. CASE program = "cmm" /\ Init
  BY <1>1, TypeInit, SaidInit DEF AnyInv
<1>2. CASE program = "reg" /\ IdleClient
  BY <1>2 DEF IdleClient, AnyInv
<1>3. CASE program = "browsing" /\ Browsing!Init /\ IdleClient
  BY <1>3, SelectedInit DEF IdleClient, AnyInv
<1> QED BY <1>1, <1>2, <1>3 DEF InitAny

\* A step of one program is none of another's.
LEMMA AnyInvStep == AnyInv /\ [NextAny]_all => AnyInv'
<1> SUFFICES ASSUME AnyInv, [NextAny]_all PROVE AnyInv'
  OBVIOUS
<1>1. CASE program = "cmm" /\ Next /\ OneRuns
  <2>1. TypeOK' /\ SaidInv' /\ program' = "cmm"
    BY <1>1, TypeStep, SaidStep DEF AnyInv, OneRuns
  <2> QED BY <2>1 DEF AnyInv
<1>2. CASE program = "reg" /\ OneRuns
  BY <1>2 DEF AnyInv, OneRuns, client
<1>3. CASE program = "browsing" /\ Browsing!Next /\ OneRuns
  <2>1. Selected' /\ program' = "browsing" /\ told' = told
    BY <1>3, SelectedStep DEF AnyInv, OneRuns, client
  <2> QED BY <1>3, <2>1 DEF AnyInv
<1>4. CASE UNCHANGED all
  <2>1. UNCHANGED <<program, told>> /\ UNCHANGED vars /\ UNCHANGED Browsing!vars
    BY <1>4 DEF all, vars, browsing, Browsing!vars, Browsing!handles, Browsing!loop,
       Browsing!input
  <2>2. program = "cmm" => TypeOK' /\ SaidInv'
    BY <2>1, TypeStep, SaidStep DEF AnyInv
  <2>3. program = "browsing" => Selected'
    BY <2>1, SelectedStep DEF AnyInv
  <2> QED BY <2>1, <2>2, <2>3 DEF AnyInv
<1> QED BY <1>1, <1>2, <1>3, <1>4 DEF NextAny

\* Among the programs, the browsing test selects what its browse has.
THEOREM SelectedAmongAll == FairSpecAny => []SocketsSelected
<1>1. AnyInv => SocketsSelected
  BY DEF AnyInv, Selected, SocketsSelected, Browsing!SocketsSelected
<1> QED BY AnyInvInit, AnyInvStep, <1>1, PTL DEF FairSpecAny

\* Among the programs, the client of the ConMon manager says of its configuration what it says
\* by itself.
THEOREM SaidAmongAll == FairSpecAny => []SaidWhenSettled
<1>1. AnyInv => SaidWhenSettled
  BY DEF AnyInv, SaidInv, SaidWhenSettled
<1> QED BY AnyInvInit, AnyInvStep, <1>1, PTL DEF FairSpecAny

=============================================================================
