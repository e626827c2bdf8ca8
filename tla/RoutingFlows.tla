----------------------------- MODULE RoutingFlows -----------------------------
(***************************************************************************)
(* The flow commands of examples/routing/dante_routing_test.c: each makes  *)
(* objects of the library, asks the operator for slots or channels on      *)
(* stdin, takes a slot of the request table, and sends.  They run inside   *)
(* dr_test_process_line, so no response comes and no channel changes       *)
(* before they return.                                                     *)
(*                                                                         *)
(* A line is what sscanf can tell of it: Enter, a number, Word, or Talker, *)
(* which is quoted.  A number, too, is a name where one is asked for.  At  *)
(* the end of stdin fgets fails, nobody looks at its result, and           *)
(* g_input_buf holds the line before.                                      *)
(*                                                                         *)
(* External: the library.  A configuration is its own once committed.      *)
(***************************************************************************)
EXTENDS Naturals

CONSTANTS
  NumRx,         \* nrx: receive channels have the ids 1 .. NumRx
  MaxSlots,      \* bound on a flow's slots
  MaxRequests,   \* DR_TEST_MAX_REQUESTS
  Enter, Word, Talker,
  Garbage        \* what an uninitialized buffer holds, if not an empty string

\* 0 and NumRx + 1 are the numbers that are no receive channel.
Ids   == 0 .. NumRx + 1
Lines == Ids \cup {Enter, Word, Talker}
Names == Lines \cup {Garbage}

ASSUME FlowsAssumption ==
  /\ NumRx \in Nat /\ MaxSlots \in Nat /\ MaxRequests \in Nat
  /\ {Enter, Word, Talker, Garbage} \cap Ids = {} /\ Enter \notin {Word, Talker, Garbage}

Configs == {"txconfig", "rxconfig"}
Objects == Configs \cup {"txflow", "rxflow", "slot"}

VARIABLES
  pc,          \* "idle" is the main loop; otherwise the question a command waits at
  open,        \* the objects that the command holds
  lost,        \* those that no command holds any more and nobody closed
  busy,        \* requests in flight, each with its slot
  full,        \* allocate_request has failed
  n, i,        \* a dialogue's slots, and the one it is at
  rx,          \* the unicast dialogue's rxchannel_id
  subscribed,  \* subscribed_channel
  assoc,       \* of the receive configuration: channels and the names they subscribe to
  line,        \* g_input_buf
  closed       \* stdin is at its end

objects  == <<open, lost, busy, full>>
dialogue == <<n, i, rx, subscribed, assoc>>
vars     == <<pc, objects, dialogue, line, closed>>

TypeOK ==
  /\ pc \in {"idle", "txname", "txslot", "talker", "device", "mchannel", "mreceive",
             "ureceive", "uchannel", "allocate", "send", "exit"}
  /\ open \in SUBSET Objects /\ lost \in SUBSET Objects
  /\ busy \in 0 .. MaxRequests /\ full \in BOOLEAN
  /\ n \in 0 .. MaxSlots /\ i \in 0 .. n
  /\ rx \in Ids /\ subscribed \in Names /\ assoc \in SUBSET (Ids \X Names)
  /\ line \in Lines /\ closed \in BOOLEAN

Init ==
  /\ pc = "idle" /\ open = {} /\ lost = {} /\ busy = 0 /\ full = FALSE
  /\ n = 0 /\ i = 0 /\ rx = 0 /\ subscribed = Enter /\ assoc = {}
  /\ line = Enter /\ closed = FALSE

-----------------------------------------------------------------------------

\* The command returns: the objects that it left open are lost, and so are its variables.
Return(left) ==
  /\ pc' = "idle" /\ open' = {} /\ lost' = lost \cup left
  /\ n' = 0 /\ i' = 0 /\ rx' = 0 /\ subscribed' = Enter /\ assoc' = {}

\* fgets into g_input_buf.
Fgets == UNCHANGED closed /\ (IF closed THEN UNCHANGED line ELSE line' \in Lines)

\* A dialogue begins, for any number of slots.  dr_test_read_unicast_associations does not
\* initialize the name.
Begin(question) ==
  /\ pc' = question /\ n' \in 0 .. MaxSlots
  /\ subscribed' \in {Enter} \cup (IF question = "ureceive" THEN {Garbage} ELSE {})
  /\ UNCHANGED <<lost, i, rx, assoc>>

-----------------------------------------------------------------------------
(* Transmit flows. *)

\* dr_test_add_txflow, after the name: a configuration with its name, latency and frames.
TxName ==
  /\ pc = "txname" /\ Fgets
  /\ \/ Return({})
     \/ Begin("txslot") /\ open' = {"txconfig"}
  /\ UNCHANGED <<busy, full>>

\* dr_test_replace_txflow_channels: the flow is released whether or not it can be modified.
ReplaceTx == Begin("txslot") /\ open' = {"txconfig"} /\ UNCHANGED <<busy, full>>

\* A bug in TxSlot: the configuration is not discarded.
TxSlotKeeping ==
  /\ pc = "txslot" /\ i < n /\ Fgets
  /\ \/ i' = i + 1 /\ UNCHANGED <<pc, open, lost, n, rx, subscribed, assoc>>
     \/ line' \in Ids /\ Return(open)
  /\ UNCHANGED <<busy, full>>

\* Their loop: a number names a channel, which the library may refuse; all else is an empty
\* slot.
TxSlot ==
  /\ pc = "txslot" /\ i < n /\ Fgets
  /\ \/ i' = i + 1 /\ UNCHANGED <<pc, open, lost, n, rx, subscribed, assoc>>
     \/ line' \in Ids /\ Return({})
  /\ UNCHANGED <<busy, full>>

-----------------------------------------------------------------------------
(* Receive flows. *)

\* dr_test_add_rxflow_multicast, after the name of the talker.
AddMulticast ==
  /\ pc = "talker" /\ Fgets
  /\ \/ Return({})
     \/ line' = Talker /\ Begin("mchannel") /\ open' = {"rxconfig"}
  /\ UNCHANGED <<busy, full>>

\* dr_test_add_rxflow_unicast, after the name of the device, which cannot be quoted.
AddUnicast ==
  /\ pc = "device" /\ Fgets
  /\ \/ Return({})
     \/ line' \notin {Enter, Talker} /\ Begin("ureceive") /\ open' = {"rxconfig"}
  /\ UNCHANGED <<busy, full>>

\* dr_test_replace_rxflow_associations: the flow is never released.
ReplaceRx ==
  /\ \/ Return({"rxflow"})
     \/ /\ open' = {"rxflow", "rxconfig"}
        /\ \/ Begin("mchannel") \/ Begin("ureceive")
           \/ pc' = "allocate" /\ UNCHANGED <<lost, dialogue>>
  /\ UNCHANGED <<busy, full>>

\* A template's transmit channel, until one is left out.
MulticastChannel ==
  /\ pc = "mchannel" /\ i < n /\ Fgets
  /\ pc' = IF line' = Enter THEN "allocate" ELSE "mreceive"
  /\ subscribed' = line'
  /\ UNCHANGED <<objects, n, i, rx, assoc>>

\* A bug in MulticastReceive: a line that is no number is asked for again.
MulticastReceiveAgain ==
  /\ pc = "mreceive" /\ Fgets
  /\ IF line' = 0 THEN pc' = "mchannel" /\ i' = i + 1 ELSE UNCHANGED <<pc, i>>
  /\ \/ UNCHANGED assoc
     \/ line' \in 1 .. NumRx /\ assoc' = assoc \cup {<<line', subscribed>>}
  /\ UNCHANGED <<objects, n, rx, subscribed>>

\* Its receive channels, until 0 or a line that is no number; the library may refuse one.
MulticastReceive ==
  /\ pc = "mreceive" /\ Fgets
  /\ IF line' \in Ids \ {0} THEN UNCHANGED <<pc, i>> ELSE pc' = "mchannel" /\ i' = i + 1
  /\ \/ UNCHANGED assoc
     \/ line' \in 1 .. NumRx /\ assoc' = assoc \cup {<<line', subscribed>>}
  /\ UNCHANGED <<objects, n, rx, subscribed>>

\* A bug in UnicastReceive: the first id past the last channel is taken.
UnicastReceivePast ==
  /\ pc = "ureceive" /\ i < n /\ Fgets
  /\ rx' = IF line' \in Ids THEN line' ELSE rx
  /\ pc' = IF line' \notin Ids THEN "allocate" ELSE IF line' = 0 THEN pc ELSE "uchannel"
  /\ UNCHANGED <<objects, n, i, subscribed, assoc>>

\* A template's receive channel, until a line is no number; one out of range is asked for again.
UnicastReceive ==
  /\ pc = "ureceive" /\ i < n /\ Fgets
  /\ rx' = IF line' \in Ids THEN line' ELSE rx
  /\ pc' = IF line' \notin Ids THEN "allocate"
           ELSE IF line' \in 1 .. NumRx THEN "uchannel" ELSE pc
  /\ UNCHANGED <<objects, n, i, subscribed, assoc>>

\* Its transmit channel.  Where sscanf finds none the name is that of the channel before.
\* An empty one is refused, and the library may refuse any: the slot is asked for again.
UnicastChannel ==
  /\ pc = "uchannel" /\ Fgets /\ pc' = "ureceive"
  /\ subscribed' = IF line' \in {Enter, Talker} THEN subscribed ELSE line'
  /\ \/ UNCHANGED <<i, assoc>>
     \/ subscribed' # Enter /\ i' = i + 1 /\ assoc' = assoc \cup {<<rx, subscribed'>>}
  /\ UNCHANGED <<objects, n, rx>>

-----------------------------------------------------------------------------
(* Requests. *)

\* All slots have been asked for.
DialogueDone ==
  /\ pc \in {"txslot", "mchannel", "ureceive"} /\ i = n
  /\ pc' = "allocate"
  /\ UNCHANGED <<objects, dialogue, line, closed>>

\* A bug in Allocate: the table is taken to have one slot more.
AllocatePast ==
  /\ pc = "allocate"
  /\ IF busy > MaxRequests THEN Return(open) /\ full' = TRUE
     ELSE pc' = "send" /\ open' = open \cup {"slot"} /\ UNCHANGED <<lost, full, dialogue>>
  /\ UNCHANGED <<busy, line, closed>>

\* dr_test_allocate_request.
Allocate ==
  /\ pc = "allocate"
  /\ IF busy = MaxRequests THEN Return(open) /\ full' = TRUE
     ELSE pc' = "send" /\ open' = open \cup {"slot"} /\ UNCHANGED <<lost, full, dialogue>>
  /\ UNCHANGED <<busy, line, closed>>

Sent(sent) == busy' = IF sent THEN busy + 1 ELSE busy

\* dr_txflow_config_commit, dr_rxflow_config_commit: sent, or its slot released.
Commit ==
  /\ pc = "send" /\ open \cap Configs # {}
  /\ \E sent \in BOOLEAN : Sent(sent)
  /\ Return(open \ (Configs \cup {"slot"}))
  /\ UNCHANGED <<full, line, closed>>

\* dr_txflow_delete, dr_rxflow_delete: where it fails the receive flow is not released.
Delete ==
  /\ pc = "send" /\ open \cap Configs = {}
  /\ \E sent \in BOOLEAN : Sent(sent) /\ Return(IF sent THEN {} ELSE open \cap {"rxflow"})
  /\ UNCHANGED <<full, line, closed>>

-----------------------------------------------------------------------------
(* The main loop. *)

\* The line of a flow command.  Where the library does not find the flow, nothing happens.
Command ==
  /\ pc = "idle" /\ ~closed
  /\ \/ pc' \in {"txname", "talker", "device"} /\ UNCHANGED <<objects, dialogue>>
     \/ ReplaceTx \/ ReplaceRx
     \/ \E flow \in {"txflow", "rxflow"} : /\ pc' = "allocate" /\ open' = {flow}
                                           /\ UNCHANGED <<lost, busy, full, dialogue>>
  /\ UNCHANGED <<line, closed>>

\* Any other command sends a request; dr_test_on_response frees its slot.
OtherRequests ==
  /\ pc = "idle" /\ busy' \in {busy - 1, busy + 1} \cap 0 .. MaxRequests
  /\ UNCHANGED <<pc, open, lost, full, dialogue, line, closed>>

\* The main loop, unlike the dialogues, sees the end of stdin.
Exit ==
  /\ pc = "idle" /\ closed /\ pc' = "exit"
  /\ UNCHANGED <<objects, dialogue, line, closed>>

CloseStdin ==
  /\ ~closed /\ closed' = TRUE
  /\ UNCHANGED <<pc, objects, dialogue, line>>

Question ==
  \/ TxName \/ TxSlot \/ AddMulticast \/ AddUnicast
  \/ MulticastChannel \/ MulticastReceive \/ UnicastReceive \/ UnicastChannel
Work == DialogueDone \/ Allocate \/ Commit \/ Delete \/ Exit

Finished == pc = "exit" /\ UNCHANGED vars

Next == Question \/ Work \/ Command \/ OtherRequests \/ CloseStdin \/ Finished

Spec == Init /\ [][Next]_vars

\* The thread does not stop, and fgets returns at once where stdin is closed; before that
\* nobody has to type.
FairSpec == Spec /\ WF_vars(Work) /\ WF_vars(closed /\ Question)

-----------------------------------------------------------------------------
(* Properties. *)

\* What a command opens is closed or at the library when it returns, on each of its returns,
\* unless the request table was full.  Receive flows, which nobody releases, are the exception.
NothingElseLost == "slot" \notin lost /\ (lost \subseteq {"rxflow"} \/ full)

\* No dialogue gets the library to associate a channel that the device does not have, or no name.
AssociationsSound == assoc \subseteq (1 .. NumRx) \X (Names \ {Enter})

\* The lines that an unattended dialogue of receive flows reads again for ever: any number at
\* which a multicast dialogue goes on, and any at all in a unicast one, where the library may
\* refuse the channel each time.
Stuck ==
  \/ pc \in {"mchannel", "mreceive"} /\ line \in Ids \ {0}
  \/ pc \in {"device", "ureceive", "uchannel"} /\ line \in Ids

\* When stdin is closed the program ends, from within any dialogue that is not stuck.
DialogueEnds == closed /\ ~Stuck ~> pc = "exit"

=============================================================================
