-------------------------- MODULE RoutingFlowsProofs --------------------------
(* Proofs about RoutingFlows: its types, the objects its commands hold and lose, and the     *)
(* associations its dialogues make, for any number of channels, slots and requests.          *)
EXTENDS RoutingFlows, TLAPS

\* Where a command has not begun its dialogue, the variables are as Return left them; where a
\* dialogue is within a slot, or a command has taken one of the request table, there was one.
Fresh ==
  /\ pc \in {"idle", "txname", "talker", "device", "exit"} => n = 0 /\ i = 0 /\ assoc = {}
  /\ pc \in {"mreceive", "uchannel"} => i < n
  /\ pc = "send" => busy < MaxRequests

\* What the commands hold: a slot only to send, and a transmit flow only to delete it.
Held ==
  /\ "slot" \in open => pc = "send"
  /\ open \cap Configs # {} => "txflow" \notin open

\* What the dialogues have checked before they associate.
Checked ==
  /\ pc = "uchannel" => rx \in 1 .. NumRx
  /\ pc = "mreceive" => subscribed # Enter

-----------------------------------------------------------------------------
(* Types. *)

LEMMA InitTypes == Init => TypeOK /\ Fresh
<1> USE FlowsAssumption DEF FlowsAssumption
<1> SUFFICES ASSUME Init PROVE TypeOK /\ Fresh OBVIOUS
<1>1. pc \in {"idle", "txname", "txslot", "talker", "device", "mchannel", "mreceive",
              "ureceive", "uchannel", "allocate", "send", "exit"}
  BY DEF Init
<1>2. open \in SUBSET Objects /\ lost \in SUBSET Objects
  BY DEF Init
<1>6. assoc \in SUBSET (Ids \X Names)
  BY DEF Init
<1>3. busy \in 0 .. MaxRequests
  BY DEF Init
<1>7. full \in BOOLEAN /\ closed \in BOOLEAN
  BY Zenon DEF Init
<1>4. n \in 0 .. MaxSlots /\ i \in 0 .. n /\ rx \in Ids
  BY DEF Init, Ids
<1>5. subscribed \in Names /\ line \in Lines
  BY DEF Init, Names, Lines
<1> QED BY <1>1, <1>2, <1>3, <1>4, <1>5, <1>6, <1>7 DEF TypeOK, Fresh, Init

\* A line is one, whatever fgets did.
LEMMA LineType == line \in Lines /\ closed \in BOOLEAN /\ Fgets => line' \in Lines /\ closed' \in BOOLEAN
BY DEF Fgets

\* What a command leaves when it returns.
LEMMA ReturnTypes ==
  ASSUME TypeOK, NEW left \in SUBSET Objects, Return(left)
  PROVE  /\ pc' = "idle" /\ open' \in SUBSET Objects /\ lost' \in SUBSET Objects
         /\ n' \in 0 .. MaxSlots /\ i' \in 0 .. n' /\ rx' \in Ids /\ subscribed' \in Names
         /\ assoc' \in SUBSET (Ids \X Names) /\ Fresh'
BY FlowsAssumption DEF FlowsAssumption, TypeOK, Return, Fresh, Ids, Names, Lines

\* What a dialogue begins with.
LEMMA BeginTypes ==
  ASSUME TypeOK, Fresh, NEW question \in {"txslot", "mchannel", "ureceive"}, Begin(question),
         pc \in {"idle", "txname", "talker", "device"}
  PROVE  /\ pc' = question /\ lost' \in SUBSET Objects
         /\ n' \in 0 .. MaxSlots /\ i' \in 0 .. n' /\ rx' \in Ids /\ subscribed' \in Names
         /\ assoc' \in SUBSET (Ids \X Names) /\ Fresh'
BY FlowsAssumption DEF FlowsAssumption, TypeOK, Begin, Fresh, Names, Lines

LEMMA NextTypes == TypeOK /\ Fresh /\ [Next]_vars => TypeOK' /\ Fresh'
<1> USE FlowsAssumption DEF FlowsAssumption
<1> SUFFICES ASSUME TypeOK, Fresh, [Next]_vars PROVE TypeOK' /\ Fresh' OBVIOUS
<1> USE DEF objects, dialogue, vars
<1>1. CASE TxName
  <2>1. line' \in Lines /\ closed' \in BOOLEAN BY <1>1, LineType DEF TxName, TypeOK
  <2>2. CASE Return({})
    BY <1>1, <2>1, <2>2, ReturnTypes DEF TxName, TypeOK
  <2>3. CASE Begin("txslot") /\ open' = {"txconfig"}
    BY <1>1, <2>1, <2>3, BeginTypes DEF TxName, TypeOK, Objects, Configs
  <2> QED BY <1>1, <2>2, <2>3 DEF TxName
<1>2. CASE TxSlot
  <2>1. line' \in Lines /\ closed' \in BOOLEAN BY <1>2, LineType DEF TxSlot, TypeOK
  <2>2. CASE Return({})
    BY <1>2, <2>1, <2>2, ReturnTypes DEF TxSlot, TypeOK
  <2>3. CASE i' = i + 1 /\ UNCHANGED <<pc, open, lost, n, rx, subscribed, assoc>>
    BY <1>2, <2>1, <2>3 DEF TxSlot, TypeOK, Fresh
  <2> QED BY <1>2, <2>2, <2>3 DEF TxSlot
<1>3. CASE AddMulticast
  <2>1. line' \in Lines /\ closed' \in BOOLEAN BY <1>3, LineType DEF AddMulticast, TypeOK
  <2>2. CASE Return({})
    BY <1>3, <2>1, <2>2, ReturnTypes DEF AddMulticast, TypeOK
  <2>3. CASE Begin("mchannel") /\ open' = {"rxconfig"}
    BY <1>3, <2>1, <2>3, BeginTypes DEF AddMulticast, TypeOK, Objects, Configs
  <2> QED BY <1>3, <2>2, <2>3 DEF AddMulticast
<1>4. CASE AddUnicast
  <2>1. line' \in Lines /\ closed' \in BOOLEAN BY <1>4, LineType DEF AddUnicast, TypeOK
  <2>2. CASE Return({})
    BY <1>4, <2>1, <2>2, ReturnTypes DEF AddUnicast, TypeOK
  <2>3. CASE Begin("ureceive") /\ open' = {"rxconfig"}
    BY <1>4, <2>1, <2>3, BeginTypes DEF AddUnicast, TypeOK, Objects, Configs
  <2> QED BY <1>4, <2>2, <2>3 DEF AddUnicast
<1>5. CASE MulticastChannel
  <2>1. line' \in Lines /\ closed' \in BOOLEAN BY <1>5, LineType DEF MulticastChannel, TypeOK
  <2> QED BY <1>5, <2>1 DEF MulticastChannel, TypeOK, Fresh, Names
<1>6. CASE MulticastReceive
  <2>1. line' \in Lines /\ closed' \in BOOLEAN BY <1>6, LineType DEF MulticastReceive, TypeOK
  <2>2. assoc' \in SUBSET (Ids \X Names) BY <1>6 DEF MulticastReceive, TypeOK, Ids
  <2>3. i' \in 0 .. n' /\ pc' \in {"mchannel", "mreceive"}
    BY <1>6 DEF MulticastReceive, TypeOK, Fresh
  <2> QED BY <1>6, <2>1, <2>2, <2>3 DEF MulticastReceive, TypeOK, Fresh
<1>7. CASE UnicastReceive
  <2>1. line' \in Lines /\ closed' \in BOOLEAN BY <1>7, LineType DEF UnicastReceive, TypeOK
  <2> QED BY <1>7, <2>1 DEF UnicastReceive, TypeOK, Fresh
<1>8. CASE UnicastChannel
  <2>1. line' \in Lines /\ closed' \in BOOLEAN BY <1>8, LineType DEF UnicastChannel, TypeOK
  <2>2. subscribed' \in Names BY <1>8, <2>1 DEF UnicastChannel, TypeOK, Names
  <2>3. assoc' \in SUBSET (Ids \X Names) BY <1>8, <2>2 DEF UnicastChannel, TypeOK
  <2> QED BY <1>8, <2>1, <2>2, <2>3 DEF UnicastChannel, TypeOK, Fresh
<1>9. CASE DialogueDone
  BY <1>9 DEF DialogueDone, TypeOK, Fresh
<1>10. CASE Allocate
  <2>1. CASE busy = MaxRequests
    BY <1>10, <2>1, ReturnTypes DEF Allocate, TypeOK
  <2>2. CASE busy # MaxRequests
    BY <1>10, <2>2 DEF Allocate, TypeOK, Fresh, Objects
  <2> QED BY <2>1, <2>2
<1>11. CASE Commit
  <2>1. busy' \in 0 .. MaxRequests BY <1>11 DEF Commit, Sent, TypeOK, Fresh
  <2> QED BY <1>11, <2>1, ReturnTypes DEF Commit, TypeOK
<1>12. CASE Delete
  <2>1. busy' \in 0 .. MaxRequests BY <1>12 DEF Delete, Sent, TypeOK, Fresh
  <2>2. PICK left \in SUBSET Objects : Return(left)
    BY <1>12 DEF Delete, TypeOK
  <2> QED BY <1>12, <2>1, <2>2, ReturnTypes DEF Delete, TypeOK
<1>13. CASE Exit
  BY <1>13 DEF Exit, TypeOK, Fresh
<1>14. CASE Command
  <2>1. line' \in Lines /\ closed' \in BOOLEAN BY <1>14 DEF Command, TypeOK
  <2>2. CASE pc' \in {"txname", "talker", "device"} /\ UNCHANGED <<objects, dialogue>>
    BY <1>14, <2>1, <2>2 DEF Command, TypeOK, Fresh
  <2>3. CASE ReplaceTx
    BY <1>14, <2>1, <2>3, BeginTypes DEF Command, ReplaceTx, TypeOK, Objects, Configs
  <2>4. CASE ReplaceRx
    <3> {"rxflow", "rxconfig"} \in SUBSET Objects /\ {"rxflow"} \in SUBSET Objects
      BY DEF Objects, Configs
    <3>1. busy' \in 0 .. MaxRequests /\ full' \in BOOLEAN BY <2>4 DEF ReplaceRx, TypeOK
    <3>2. CASE Return({"rxflow"})
      BY <2>1, <3>1, <3>2, ReturnTypes DEF TypeOK
    <3>3. CASE open' = {"rxflow", "rxconfig"} /\ (Begin("mchannel") \/ Begin("ureceive"))
      BY <1>14, <2>1, <3>1, <3>3, BeginTypes DEF Command, TypeOK
    <3>4. CASE open' = {"rxflow", "rxconfig"} /\ pc' = "allocate" /\ UNCHANGED <<lost, dialogue>>
      BY <2>1, <3>1, <3>4 DEF TypeOK, Fresh
    <3> QED BY <2>4, <3>2, <3>3, <3>4 DEF ReplaceRx
  <2>5. CASE \E flow \in {"txflow", "rxflow"} :
               pc' = "allocate" /\ open' = {flow} /\ UNCHANGED <<lost, busy, full, dialogue>>
    BY <2>1, <2>5 DEF TypeOK, Fresh, Objects
  <2> QED BY <1>14, <2>2, <2>3, <2>4, <2>5 DEF Command
<1>15. CASE OtherRequests
  BY <1>15 DEF OtherRequests, TypeOK, Fresh
<1>16. CASE CloseStdin
  BY <1>16 DEF CloseStdin, TypeOK, Fresh
<1>17. CASE Finished \/ UNCHANGED vars
  BY <1>17 DEF Finished, TypeOK, Fresh
<1> QED BY <1>1, <1>2, <1>3, <1>4, <1>5, <1>6, <1>7, <1>8, <1>9, <1>10, <1>11, <1>12, <1>13,
           <1>14, <1>15, <1>16, <1>17 DEF Next, Question, Work

\* For every number of channels, slots and requests each variable keeps its type; in particular
\* a dialogue never goes past its last slot, nor a send past the request table.
THEOREM TypeCorrect == Spec => []TypeOK
<1>1. Init => TypeOK /\ Fresh BY InitTypes
<1>2. TypeOK /\ Fresh /\ [Next]_vars => TypeOK' /\ Fresh' BY NextTypes
<1> QED BY <1>1, <1>2, PTL DEF Spec

-----------------------------------------------------------------------------
(* Objects. *)

LEMMA InitHeld == Init => Held /\ NothingElseLost
BY DEF Init, Held, NothingElseLost

\* A command returns having lost receive flows only.
LEMMA ReturnLoses ==
  ASSUME NothingElseLost, NEW left, left \subseteq {"rxflow"}, Return(left), full' = full
  PROVE  Held' /\ NothingElseLost'
BY DEF Return, Held, NothingElseLost

LEMMA NextHeld == TypeOK /\ Held /\ NothingElseLost /\ [Next]_vars => Held' /\ NothingElseLost'
<1> SUFFICES ASSUME TypeOK, Held, NothingElseLost, [Next]_vars
             PROVE  Held' /\ NothingElseLost'
  OBVIOUS
<1> USE DEF objects, dialogue, vars
<1>1. CASE TxName
  BY <1>1, ReturnLoses DEF TxName, Begin, Held, NothingElseLost, Configs
<1>2. CASE TxSlot
  BY <1>2, ReturnLoses DEF TxSlot, Held, NothingElseLost
<1>3. CASE AddMulticast
  BY <1>3, ReturnLoses DEF AddMulticast, Begin, Held, NothingElseLost, Configs
<1>4. CASE AddUnicast
  BY <1>4, ReturnLoses DEF AddUnicast, Begin, Held, NothingElseLost, Configs
<1>5. CASE MulticastChannel
  BY <1>5 DEF MulticastChannel, Held, NothingElseLost
<1>6. CASE MulticastReceive
  BY <1>6 DEF MulticastReceive, Held, NothingElseLost
<1>7. CASE UnicastReceive
  BY <1>7 DEF UnicastReceive, Held, NothingElseLost
<1>8. CASE UnicastChannel
  BY <1>8 DEF UnicastChannel, Held, NothingElseLost
<1>9. CASE DialogueDone
  BY <1>9 DEF DialogueDone, Held, NothingElseLost
<1>10. CASE Allocate
  <2>1. CASE busy = MaxRequests
    BY <1>10, <2>1 DEF Allocate, Return, Held, NothingElseLost
  <2>2. CASE busy # MaxRequests
    BY <1>10, <2>2 DEF Allocate, Held, NothingElseLost, Configs
  <2> QED BY <2>1, <2>2
<1>11. CASE Commit
  <2>1. open \ (Configs \cup {"slot"}) \subseteq {"rxflow"}
    BY <1>11 DEF Commit, Held, TypeOK, Objects
  <2> QED BY <1>11, <2>1, ReturnLoses DEF Commit
<1>12. CASE Delete
  <2>1. PICK sent \in BOOLEAN : Return(IF sent THEN {} ELSE open \cap {"rxflow"})
    BY <1>12 DEF Delete
  <2>2. (IF sent THEN {} ELSE open \cap {"rxflow"}) \subseteq {"rxflow"} OBVIOUS
  <2> QED BY <1>12, <2>1, <2>2, ReturnLoses DEF Delete
<1>13. CASE Exit
  BY <1>13 DEF Exit, Held, NothingElseLost
<1>14. CASE Command
  <2>1. CASE pc' \in {"txname", "talker", "device"} /\ UNCHANGED <<objects, dialogue>>
    BY <1>14, <2>1 DEF Command, Held, NothingElseLost
  <2>2. CASE ReplaceTx
    BY <2>2 DEF ReplaceTx, Begin, Held, NothingElseLost, Configs
  <2>3. CASE ReplaceRx
    <3>1. CASE Return({"rxflow"})
      BY <2>3, <3>1, ReturnLoses DEF ReplaceRx
    <3>2. CASE open' = {"rxflow", "rxconfig"} /\ lost' = lost
      BY <2>3, <3>2 DEF ReplaceRx, Held, NothingElseLost, Configs
    <3> QED BY <2>3, <3>1, <3>2 DEF ReplaceRx, Begin
  <2>4. CASE \E flow \in {"txflow", "rxflow"} :
               pc' = "allocate" /\ open' = {flow} /\ UNCHANGED <<lost, busy, full, dialogue>>
    BY <2>4 DEF Held, NothingElseLost, Configs
  <2> QED BY <1>14, <2>1, <2>2, <2>3, <2>4 DEF Command
<1>15. CASE OtherRequests
  BY <1>15 DEF OtherRequests, Held, NothingElseLost
<1>16. CASE CloseStdin
  BY <1>16 DEF CloseStdin, Held, NothingElseLost
<1>17. CASE Finished \/ UNCHANGED vars
  BY <1>17 DEF Finished, Held, NothingElseLost
<1> QED BY <1>1, <1>2, <1>3, <1>4, <1>5, <1>6, <1>7, <1>8, <1>9, <1>10, <1>11, <1>12, <1>13,
           <1>14, <1>15, <1>16, <1>17 DEF Next, Question, Work

\* On none of its returns does a flow command lose what it opened, or its slot, as long as the
\* request table has not been full; receive flows are the exception.
THEOREM LosesReceiveFlowsOnly == Spec => []NothingElseLost
<1>1. Init => Held /\ NothingElseLost BY InitHeld
<1>2. TypeOK /\ Held /\ NothingElseLost /\ [Next]_vars => Held' /\ NothingElseLost' BY NextHeld
<1> QED BY <1>1, <1>2, TypeCorrect, PTL DEF Spec

-----------------------------------------------------------------------------
(* Associations. *)

LEMMA InitChecked == Init => Checked /\ AssociationsSound
BY DEF Init, Checked, AssociationsSound

LEMMA NextChecked ==
  TypeOK /\ Checked /\ AssociationsSound /\ [Next]_vars => Checked' /\ AssociationsSound'
<1> USE FlowsAssumption DEF FlowsAssumption
<1> SUFFICES ASSUME TypeOK, Checked, AssociationsSound, [Next]_vars
             PROVE  Checked' /\ AssociationsSound'
  OBVIOUS
<1> USE DEF objects, dialogue, vars
<1>0. ASSUME NEW left, Return(left) PROVE Checked' /\ AssociationsSound'
  BY <1>0 DEF Return, Checked, AssociationsSound
<1>1. ASSUME NEW question \in {"txslot", "mchannel", "ureceive"}, Begin(question)
      PROVE  Checked' /\ AssociationsSound'
  BY <1>1 DEF Begin, Checked, AssociationsSound
<1>2. CASE TxName
  BY <1>0, <1>1, <1>2 DEF TxName
<1>3. CASE TxSlot
  BY <1>0, <1>3 DEF TxSlot, Checked, AssociationsSound
<1>4. CASE AddMulticast
  BY <1>0, <1>1, <1>4 DEF AddMulticast
<1>5. CASE AddUnicast
  BY <1>0, <1>1, <1>5 DEF AddUnicast
<1>6. CASE MulticastChannel
  BY <1>6 DEF MulticastChannel, Checked, AssociationsSound
<1>7. CASE MulticastReceive
  <2>1. subscribed \in Names \ {Enter} BY <1>7 DEF MulticastReceive, Checked, TypeOK
  <2>2. AssociationsSound' BY <1>7, <2>1 DEF MulticastReceive, AssociationsSound
  <2>3. Checked' BY <1>7 DEF MulticastReceive, Checked
  <2> QED BY <2>2, <2>3
<1>8. CASE UnicastReceive
  BY <1>8 DEF UnicastReceive, Checked, AssociationsSound
<1>9. CASE UnicastChannel
  <2>1. rx \in 1 .. NumRx BY <1>9 DEF UnicastChannel, Checked
  <2>2. line' \in Lines BY <1>9 DEF UnicastChannel, Fgets, TypeOK
  <2>3. subscribed' \in Names BY <1>9, <2>2 DEF UnicastChannel, TypeOK, Names
  <2>4. AssociationsSound' BY <1>9, <2>1, <2>3 DEF UnicastChannel, AssociationsSound
  <2>5. Checked' BY <1>9 DEF UnicastChannel, Checked
  <2> QED BY <2>4, <2>5
<1>10. CASE DialogueDone
  BY <1>10 DEF DialogueDone, Checked, AssociationsSound
<1>11. CASE Allocate
  BY <1>0, <1>11 DEF Allocate, Checked, AssociationsSound
<1>12. CASE Commit \/ Delete
  BY <1>0, <1>12 DEF Commit, Delete
<1>13. CASE Exit
  BY <1>13 DEF Exit, Checked, AssociationsSound
<1>14. CASE Command
  <2>1. CASE ReplaceTx BY <1>1, <2>1 DEF ReplaceTx
  <2>2. CASE ReplaceRx
    BY <1>0, <1>1, <2>2 DEF ReplaceRx, Checked, AssociationsSound
  <2>3. CASE pc' \in {"txname", "talker", "device", "allocate"} /\ UNCHANGED dialogue
    BY <2>3 DEF Checked, AssociationsSound
  <2> QED BY <1>14, <2>1, <2>2, <2>3 DEF Command
<1>15. CASE OtherRequests
  BY <1>15 DEF OtherRequests, Checked, AssociationsSound
<1>16. CASE CloseStdin
  BY <1>16 DEF CloseStdin, Checked, AssociationsSound
<1>17. CASE Finished \/ UNCHANGED vars
  BY <1>17 DEF Finished, Checked, AssociationsSound
<1> QED BY <1>2, <1>3, <1>4, <1>5, <1>6, <1>7, <1>8, <1>9, <1>10, <1>11, <1>12, <1>13,
           <1>14, <1>15, <1>16, <1>17 DEF Next, Question, Work

\* Whatever is typed, and wherever stdin ends: every association is of a channel of the device,
\* so test->rx is indexed within its bounds, and with a name that is not empty.
THEOREM AssociationsAreSound == Spec => []AssociationsSound
<1>1. Init => Checked /\ AssociationsSound BY InitChecked
<1>2. TypeOK /\ Checked /\ AssociationsSound /\ [Next]_vars => Checked' /\ AssociationsSound'
  BY NextChecked
<1> QED BY <1>1, <1>2, TypeCorrect, PTL DEF Spec

=============================================================================
