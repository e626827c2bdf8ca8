---------------------------- MODULE RoutingTest ----------------------------
(***************************************************************************)
(* The Dante routing test program, examples/routing/dante_routing_test.c:  *)
(* a single-threaded console that opens one device through the Dante       *)
(* routing library, keeps a fixed table of the requests it has in flight,  *)
(* and drives the library and the operator's commands from one select()    *)
(* loop.  The library (dr_device, dr_devices) is external: it answers      *)
(* requests, moves the device's state and its sockets only from inside     *)
(* dr_devices_process (and dr_test_open), which is where it calls back.  An *)
(* open device always has a socket.                                        *)
(***************************************************************************)
EXTENDS Integers, FiniteSets

CONSTANTS
  MaxRequests,     \* DR_TEST_MAX_REQUESTS, the length of requests[]
  Ids,             \* the request ids the library hands out (its request limit)
  NullId,          \* DANTE_NULL_REQUEST_ID
  NumComponents,   \* DR_DEVICE_COMPONENT_COUNT
  MaxChannels,     \* bound on a device's channels, in each direction
  Socks,           \* the sockets the library may have open
  StdIn,           \* file descriptor 0
  AutoUpdate,      \* options.automatic_update_on_state_change
  WritesIdOnError, \* does a library call that fails still write *request_id?
  Commands         \* the command lines the operator may type

Components == 0 .. NumComponents - 1
Slots      == 1 .. MaxRequests

\* Descriptions of requests, as the table stores them; an update carries its component.
OpNames == {"QueryCapabilities", "Ping", "StoreConfig", "ClearConfig", "Performance",
            "SetLockdown", "SetNetworkLoopback", "Subscribe", "SetTxChannelEnabled",
            "AddTxLabel", "RemoveTxLabelFromChannel", "RemoveTxLabel",
            "SetTxChannelMuted", "SetRxChannelMuted", "SetRxChannelName",
            "UpdateRxflowErrors"}
NoDesc == <<>>
Descs  == {<<n>> : n \in OpNames} \cup {<<"Update", c>> : c \in Components}

\* The lines the operator types, one for each branch of process_line.
Lines == {"?", "c +", "c -", "d t", "d p", "mark !", "e", "l +", "l -", "L -", "n", "o",
          "q", "r name", "r m", "s", "t m", "u", "u q", "u !", "U", "U +", "x", "x +"}
NoLine == "none"

DevStates == {"NONE", "RESOLVED", "ACTIVE", "ERROR", "OTHER"}
Handles   == {"env", "devices", "device"}
Counts    == [tx : 0 .. MaxChannels, rx : 0 .. MaxChannels]
NoChannels == [tx |-> 0, rx |-> 0]
FreeSlot  == [id |-> NullId, desc |-> NoDesc]

ASSUME RoutingAssumption ==
  /\ MaxRequests \in Nat \ {0}
  /\ NumComponents \in Nat
  /\ MaxChannels \in Nat
  /\ NullId \notin Ids
  /\ StdIn \notin Socks
  /\ AutoUpdate \in BOOLEAN
  /\ WritesIdOnError \in BOOLEAN
  /\ Commands \subseteq Lines

VARIABLES
  pc,             \* where main and dr_test_main_loop are
  running,        \* g_test_running
  buf,            \* the line being processed, NoLine when there is none
  ptrs,           \* the non-NULL handles of dr_test_t
  live,           \* the library objects that exist
  slots,          \* test->requests
  pending,        \* at the library: what each id is in flight for
  stale,          \* at the library: the stale components of the device
  devState,       \* at the library: the device's state
  chans,          \* test->ntx and test->nrx, set together with tx and rx
  devChans,       \* at the library: the channels of the device's arrays
  socketsChanged, \* test->async_info.sockets_changed
  allSockets,     \* all_sockets, what the next select() waits for
  devSockets,     \* at the library: the sockets it has open
  ready           \* select_sockets, as select() left it

reqs == <<slots, pending>>
dev  == <<stale, devState, devChans, devSockets>>
vars == <<pc, running, buf, ptrs, live, slots, pending, stale, devState, chans,
          devChans, socketsChanged, allSockets, devSockets, ready>>

InLoop == {"start", "top", "select", "process", "stdin", "line", "x"}

TypeOK ==
  /\ pc \in InLoop \cup {"env", "devices", "options", "open", "cleanup", "done"}
  /\ running \in BOOLEAN
  /\ buf \in Lines \cup {NoLine}
  /\ ptrs \subseteq Handles
  /\ live \subseteq Handles
  /\ slots \in [Slots -> [id : Ids \cup {NullId}, desc : Descs \cup {NoDesc}]]
  /\ pending \in [Ids -> Descs \cup {NoDesc}]
  /\ stale \subseteq Components
  /\ devState \in DevStates
  /\ chans \in Counts
  /\ devChans \in Counts
  /\ socketsChanged \in BOOLEAN
  /\ allSockets \subseteq Socks \cup {StdIn}
  /\ devSockets \subseteq Socks
  /\ ready \subseteq Socks \cup {StdIn}

Init ==
  /\ pc = "env"
  /\ running = TRUE
  /\ buf = NoLine
  /\ ptrs = {} /\ live = {}
  /\ slots = [i \in Slots |-> FreeSlot]
  /\ pending = [id \in Ids |-> NoDesc]
  /\ stale = {} /\ devState = "NONE" /\ devSockets = {}
  /\ chans = NoChannels /\ devChans = NoChannels
  /\ socketsChanged = FALSE
  /\ allSockets = {} /\ ready = {}

-----------------------------------------------------------------------------
(* The request table. *)

FreeSlots == {i \in Slots : slots[i].id = NullId}

\* A bug in allocate_request: the last slot is handed out when none is free.
FirstFreeOrLast ==
  IF FreeSlots = {} THEN {MaxRequests}
  ELSE {i \in FreeSlots : \A j \in FreeSlots : i <= j}

\* dr_test_allocate_request returns the first slot without an id, or none.  The slot
\* becomes busy only when the library writes an id through the pointer.
FirstFree == {i \in FreeSlots : \A j \in FreeSlots : i <= j}

\* The ids the library can give a new request.
FreshIds == {id \in Ids : pending[id] = NoDesc}

\* A request that is sent: the library takes it and writes its id into the slot.
Sent(i, d) ==
  \E id \in FreshIds :
    /\ slots' = [slots EXCEPT ![i] = [id |-> id, desc |-> d]]
    /\ pending' = [pending EXCEPT ![id] = d]

\* What a call that fails may leave in the slot's id: a fresh id of a request that is not
\* in flight, where the library writes one all the same.
Written == {NullId} \cup (IF WritesIdOnError THEN FreshIds ELSE {})

\* A bug in request_release: the description is cleared, the id is not.
ReleaseDescription(slot) == [slot EXCEPT !.desc = NoDesc]

\* dr_test_request_release
Release(slot) == FreeSlot

\* A failed send, and the slot released whatever the library wrote.
Released(i) ==
  /\ \E id \in Written :
       slots' = [slots EXCEPT ![i] = Release([slots[i] EXCEPT !.id = id])]
  /\ UNCHANGED pending

\* A failed send without a release: the description stays, and so does the id when
\* the library wrote one.
Abandoned(i, d) ==
  /\ \E id \in Written : slots' = [slots EXCEPT ![i] = [id |-> id, desc |-> d]]
  /\ UNCHANGED pending

NoneFree == FreeSlots = {} /\ UNCHANGED reqs

\* The body nearly every command shares: allocate, send, release when the send fails.
Request(d) ==
  \/ NoneFree
  \/ \E i \in FirstFree : Sent(i, d) \/ Released(i)

\* The same without the release: store_config and clear_config.
RequestNoRelease(d) ==
  \/ NoneFree
  \/ \E i \in FirstFree : Sent(i, d) \/ Abandoned(i, d)

\* A bug in on_response: the first busy slot is taken for the answered one.
ReleaseFirstBusy(id) ==
  LET busy == {i \in Slots : slots[i].id # NullId}
      first == {i \in busy : \A j \in busy : i <= j} IN
  \/ first = {} /\ UNCHANGED slots
  \/ \E i \in first : slots' = [slots EXCEPT ![i] = FreeSlot]

\* dr_test_on_response: the first slot that holds the id is released; an id that no
\* slot holds is only announced as unknown.
OnResponse(id) ==
  LET holders == {i \in Slots : slots[i].id = id} IN
  \/ holders = {} /\ UNCHANGED slots
  \/ \E i \in holders :
       /\ \A j \in holders : i <= j
       /\ slots' = [slots EXCEPT ![i] = Release(slots[i])]

-----------------------------------------------------------------------------
(* Updating components. *)

\* A bug in update: the slot keeps the description allocate_request(test, NULL) left.
UpdatedUndescribed(sent, slotOf, idOf, refused, wrote) ==
  /\ slots' = [i \in Slots |->
       IF \E c \in sent : slotOf[c] = i
         THEN [id |-> idOf[CHOOSE c \in sent : slotOf[c] = i], desc |-> NoDesc]
         ELSE IF i \in refused THEN Release([slots[i] EXCEPT !.id = wrote]) ELSE slots[i]]
  /\ pending' = [id \in Ids |->
       IF \E c \in sent : idOf[c] = id
         THEN <<"Update", CHOOSE c \in sent : idOf[c] = id>>
         ELSE pending[id]]

\* The table after the requests for the components of sent, each with its slot and id, and
\* after the one that was refused, with the id that the refusing call wrote.
Updated(sent, slotOf, idOf, refused, wrote) ==
  /\ slots' = [i \in Slots |->
       IF \E c \in sent : slotOf[c] = i
         THEN LET c == CHOOSE c \in sent : slotOf[c] = i
              IN  [id |-> idOf[c], desc |-> <<"Update", c>>]
         ELSE IF i \in refused THEN Release([slots[i] EXCEPT !.id = wrote]) ELSE slots[i]]
  /\ pending' = [id \in Ids |->
       IF \E c \in sent : idOf[c] = id
         THEN <<"Update", CHOOSE c \in sent : idOf[c] = id>>
         ELSE pending[id]]

\* dr_test_update: the stale components in order, each request in the first slot that is
\* still free, up to the first one that cannot be allocated, or that is allocated and refused.
Update(st) ==
  \E sent \in SUBSET st :
    /\ \A c \in sent, d \in st : d < c => d \in sent
    /\ \E slotOf \in [sent -> FreeSlots], idOf \in [sent -> FreshIds] :
         /\ \A c, d \in sent : c < d => slotOf[c] < slotOf[d] /\ idOf[c] # idOf[d]
         /\ \A c \in sent, j \in FreeSlots :
              j < slotOf[c] => \E d \in sent : slotOf[d] = j
         /\ LET left    == {j \in FreeSlots : \A c \in sent : slotOf[c] # j}
                refused == IF sent = st THEN {}
                           ELSE {i \in left : \A j \in left : i <= j}
            IN  \E wrote \in Written : Updated(sent, slotOf, idOf, refused, wrote)

\* A bug: the channel arrays are refreshed only for an automatic update.
StateChangedLazily(s) ==
  IF s = "ACTIVE" /\ AutoUpdate
    THEN chans' = devChans' /\ (UNCHANGED reqs \/ Update(stale'))
    ELSE UNCHANGED <<chans, slots, pending>>

\* dr_test_on_device_state_changed.  The status flags of an ACTIVE device may be
\* unreadable or set, and then nothing is updated.
OnDeviceStateChanged(s) ==
  \/ /\ s = "RESOLVED" /\ AutoUpdate
     /\ Request(<<"QueryCapabilities">>)
     /\ UNCHANGED chans
  \/ /\ s = "ACTIVE"
     /\ chans' = devChans'
     /\ \/ UNCHANGED reqs
        \/ AutoUpdate /\ Update(stale')
  \/ /\ s \notin {"ACTIVE"} \cup (IF AutoUpdate THEN {"RESOLVED"} ELSE {})
     /\ UNCHANGED <<chans, slots, pending>>

\* The library moves the device to state s; entering ACTIVE is when it may have other
\* channels, and other stale components, than before.
DeviceEnters(s) ==
  /\ devState' = s
  /\ IF s = "ACTIVE"
       THEN devChans' \in Counts /\ stale' \in {stale, Components}
       ELSE UNCHANGED <<devChans, stale>>

-----------------------------------------------------------------------------
(* main: setting up, and cleaning up. *)

\* One of the library objects main creates on its way to the main loop, or the jump to
\* the cleanup label when it cannot be created.
Create(at, h, next) ==
  /\ pc = at
  /\ \/ /\ pc' = next
        /\ ptrs' = ptrs \cup {h} /\ live' = live \cup {h}
     \/ /\ pc' = "cleanup"
        /\ UNCHANGED <<ptrs, live>>

idle == <<running, buf, slots, pending, stale, devState, chans, devChans,
          socketsChanged, allSockets, devSockets, ready>>

EnvSetup   == Create("env", "env", "devices") /\ UNCHANGED idle
DevicesNew == Create("devices", "devices", "options") /\ UNCHANGED idle

\* dr_devices_set_num_handles and dr_devices_set_request_limit
SetOptions ==
  /\ pc = "options" /\ pc' \in {"open", "cleanup"}
  /\ UNCHANGED <<ptrs, live, idle>>

\* dr_test_open: a device opened locally may already be past RESOLVING, so the
\* handler of state changes runs once by hand.
Open ==
  \/ /\ pc = "open" /\ pc' = "start"
     /\ ptrs' = ptrs \cup {"device"} /\ live' = live \cup {"device"}
     /\ devState' \in DevStates \ {"NONE"}
     /\ stale' = Components
     /\ devChans' \in IF devState' = "ACTIVE" THEN Counts ELSE {NoChannels}
     /\ OnDeviceStateChanged(devState')
     /\ devSockets' \in SUBSET Socks \ {{}}
     /\ socketsChanged' \in BOOLEAN
     /\ UNCHANGED <<running, buf, allSockets, ready>>
  \/ /\ pc = "open" /\ pc' = "cleanup"
     /\ UNCHANGED <<ptrs, live, idle>>

\* The cleanup label: whatever is not NULL is closed; the requests die with the device.
Cleanup ==
  /\ pc = "cleanup" /\ pc' = "done"
  /\ live' = live \ ptrs
  /\ pending' = [id \in Ids |-> NoDesc]
  /\ UNCHANGED <<ptrs, running, buf, slots, stale, devState, chans, devChans,
                 socketsChanged, allSockets, devSockets, ready>>

-----------------------------------------------------------------------------
(* dr_test_main_loop. *)

rest == <<running, ptrs, live, slots, pending, stale, devState, chans, devChans, devSockets>>

StartLoop ==
  /\ pc = "start" /\ pc' = "top"
  /\ socketsChanged' = TRUE
  /\ UNCHANGED <<rest, buf, allSockets, ready>>

\* A bug in update_sockets: the flag is cleared before the library is asked.
UpdateSocketsEagerly ==
  /\ socketsChanged' = FALSE
  /\ allSockets' \in {devSockets \cup {StdIn}, {StdIn}}

\* dr_test_update_sockets, and stdin added whatever it returned.
UpdateSockets ==
  \/ /\ allSockets' = devSockets \cup {StdIn}
     /\ socketsChanged' = FALSE
  \/ /\ allSockets' = {StdIn}
     /\ UNCHANGED socketsChanged

\* The head of the loop: the prompt names the device, and changed sockets are fetched.
Top ==
  /\ pc = "top"
  /\ IF running
       THEN /\ pc' = "select"
            /\ IF socketsChanged THEN UpdateSockets
               ELSE UNCHANGED <<socketsChanged, allSockets>>
       ELSE pc' = "cleanup" /\ UNCHANGED <<socketsChanged, allSockets>>
  /\ UNCHANGED <<rest, buf, ready>>

\* select() without a ready descriptor: its 500 ms timeout goes on to the (idle) check
\* of stdin, EINTR back to the head of the loop, any other error out of the loop.
SelectIdle ==
  /\ pc = "select" /\ pc' \in {"stdin", "top", "cleanup"}
  /\ ready' = {}
  /\ UNCHANGED <<rest, buf, socketsChanged, allSockets>>

SelectReady ==
  /\ pc = "select" /\ pc' = "process"
  /\ ready' \in SUBSET allSockets \ {{}}
  /\ UNCHANGED <<rest, buf, socketsChanged, allSockets>>

\* What dr_devices_process does when one of the library's sockets is ready.
Processing == pc = "process" /\ ready \cap devSockets # {}

\* A request is answered.  A successful update leaves its component fresh.
Response(id) ==
  /\ Processing /\ pending[id] # NoDesc
  /\ pending' = [pending EXCEPT ![id] = NoDesc]
  /\ OnResponse(id)
  /\ stale' \in {stale, {c \in stale : pending[id] # <<"Update", c>>}}
  /\ UNCHANGED <<pc, running, buf, ptrs, live, devState, chans, devChans,
                 socketsChanged, allSockets, devSockets, ready>>

\* dr_test_on_device_changed with the STATE flag; its other flags only print.
DeviceChanged(s) ==
  /\ Processing /\ s # "NONE"
  /\ DeviceEnters(s)
  /\ OnDeviceStateChanged(s)
  /\ UNCHANGED <<pc, running, buf, ptrs, live, socketsChanged, allSockets, devSockets, ready>>

\* The device tells the library that a component has changed.
ComponentChanged(c) ==
  /\ Processing
  /\ stale' = stale \cup {c}
  /\ UNCHANGED <<pc, running, buf, ptrs, live, slots, pending, devState, chans, devChans,
                 socketsChanged, allSockets, devSockets, ready>>

\* A bug in on_sockets_changed: the flag is not raised.
SocketsChangedUnseen(S) ==
  /\ Processing /\ S # devSockets
  /\ devSockets' = S
  /\ UNCHANGED <<pc, running, buf, ptrs, live, slots, pending, stale, devState, chans,
                 devChans, socketsChanged, allSockets, ready>>

\* dr_test_on_sockets_changed: the library opened or closed sockets.
SocketsChanged(S) ==
  /\ Processing /\ S # devSockets
  /\ devSockets' = S
  /\ socketsChanged' = TRUE
  /\ UNCHANGED <<pc, running, buf, ptrs, live, slots, pending, stale, devState, chans,
                 devChans, allSockets, ready>>

ProcessReturns ==
  /\ pc = "process" /\ pc' \in {"stdin", "cleanup"}
  /\ UNCHANGED <<rest, buf, socketsChanged, allSockets, ready>>

\* The check of stdin: nothing to read, or a failed fgets (end of file and errors leave
\* the loop, EINTR does not), or one line.
NoInput ==
  /\ pc = "stdin"
  /\ pc' \in IF StdIn \in ready THEN {"top", "cleanup"} ELSE {"top"}
  /\ ready' = {}
  /\ UNCHANGED <<rest, buf, socketsChanged, allSockets>>

ReadLine(line) ==
  /\ pc = "stdin" /\ StdIn \in ready
  /\ pc' = "line" /\ buf' = line
  /\ ready' = {}
  /\ UNCHANGED <<rest, socketsChanged, allSockets>>

-----------------------------------------------------------------------------
(* dr_test_process_line: one operator per command function. *)

dr_test_ping         == Request(<<"Ping">>)
dr_test_store_config == RequestNoRelease(<<"StoreConfig">>)
dr_test_clear_config == RequestNoRelease(<<"ClearConfig">>)
dr_test_query_capabilities   == Request(<<"QueryCapabilities">>)
dr_test_set_performance      == Request(<<"Performance">>)
dr_test_set_lockdown         == Request(<<"SetLockdown">>)
dr_test_set_network_loopback == Request(<<"SetNetworkLoopback">>)
\* The library may not know the label.
dr_test_remove_txlabel == UNCHANGED reqs \/ Request(<<"RemoveTxLabel">>)
dr_test_update_rxflow_errors == Request(<<"UpdateRxflowErrors">>)

\* The commands on one channel refuse an index that the arrays do not have.
OnChannel(n, d) ==
  \E channel \in 0 .. MaxChannels + 1 :
    IF channel < 1 \/ channel > n THEN UNCHANGED reqs ELSE Request(d)

dr_test_rxchannel_subscribe   == OnChannel(chans.rx, <<"Subscribe">>)
dr_test_rxchannel_set_name    == OnChannel(chans.rx, <<"SetRxChannelName">>)
dr_test_rxchannel_set_muted   == OnChannel(chans.rx, <<"SetRxChannelMuted">>)
dr_test_txchannel_set_muted   == OnChannel(chans.tx, <<"SetTxChannelMuted">>)
dr_test_txchannel_set_enabled == OnChannel(chans.tx, <<"SetTxChannelEnabled">>)
dr_test_add_txlabel           == OnChannel(chans.tx, <<"AddTxLabel">>)
dr_test_remove_txlabel_from_channel == OnChannel(chans.tx, <<"RemoveTxLabelFromChannel">>)

\* A bug in rename: the closed handle stays in test->device.
RenameKeepsHandle ==
  \/ /\ live' = live \ {"device"}
     /\ UNCHANGED ptrs
     /\ pending' = [id \in Ids |-> NoDesc]
  \/ UNCHANGED <<ptrs, live, pending>>

\* dr_test_rename: on success the library has closed the handle.
dr_test_rename ==
  \/ /\ live' = live \ {"device"}
     /\ ptrs' = ptrs \ {"device"}
     /\ pending' = [id \in Ids |-> NoDesc]
  \/ UNCHANGED <<ptrs, live, pending>>

atRest == <<running, ptrs, live, devState, chans, devChans, socketsChanged,
            allSockets, devSockets, ready>>

\* The line is done with: back to the head of the loop.
NextLine == pc' = "top" /\ buf' = NoLine

\* The commands that send at most one request, or print.
RequestCommand ==
  /\ pc = "line" /\ NextLine
  /\ \/ buf = "?"    /\ UNCHANGED reqs
     \/ buf = "c +"  /\ dr_test_store_config
     \/ buf = "c -"  /\ dr_test_clear_config
     \/ buf = "d t"  /\ dr_test_set_performance
     \/ buf = "d p"  /\ dr_test_ping
     \/ buf = "e"    /\ dr_test_txchannel_set_enabled
     \/ buf = "l +"  /\ dr_test_add_txlabel
     \/ buf = "l -"  /\ dr_test_remove_txlabel_from_channel
     \/ buf = "L -"  /\ dr_test_remove_txlabel
     \/ buf = "o"    /\ dr_test_set_network_loopback
     \/ buf = "r name" /\ dr_test_rxchannel_set_name
     \/ buf = "r m"  /\ dr_test_rxchannel_set_muted
     \/ buf = "s"    /\ dr_test_rxchannel_subscribe
     \/ buf = "t m"  /\ dr_test_txchannel_set_muted
     \/ buf = "u q"  /\ dr_test_query_capabilities
     \/ buf = "x +"  /\ dr_test_set_lockdown
  /\ UNCHANGED <<atRest, stale>>

\* The "!" commands: dr_test_mark_component_stale of one component.
MarkCommand ==
  /\ pc = "line" /\ buf = "mark !" /\ NextLine
  /\ \E c \in Components : stale' = stale \cup {c}
  /\ UNCHANGED <<atRest, reqs>>

\* A bug in mark_component_stale: the loop runs one component past the last.
MarkedPastEnd == 0 .. NumComponents

\* dr_test_mark_component_stale(test, DR_DEVICE_COMPONENT_COUNT)
AllMarked == Components

\* "u !" marks every component stale first; "x" alone updates as "u" does.
UpdateCommand ==
  /\ pc = "line" /\ buf \in {"u", "u !", "x"} /\ NextLine
  /\ stale' = IF buf = "u !" THEN AllMarked ELSE stale
  /\ Update(stale')
  /\ UNCHANGED atRest

\* The case 'U' has no break: it goes on into the case 'x' with the same line.
RxflowErrorsCommand ==
  /\ pc = "line" /\ buf \in {"U", "U +"} /\ pc' = "x"
  /\ IF buf = "U +" THEN dr_test_update_rxflow_errors ELSE UNCHANGED reqs
  /\ UNCHANGED <<atRest, stale, buf>>

\* The case 'x' with a line that does not begin with x: "x %s" does not match.
FallThrough ==
  /\ pc = "x" /\ NextLine
  /\ Update(stale)
  /\ UNCHANGED <<atRest, stale>>

\* "n": whatever dr_test_rename returned, process_line returns AUD_ERR_DONE.
RenameCommand ==
  /\ pc = "line" /\ buf = "n"
  /\ pc' = "cleanup" /\ buf' = NoLine
  /\ dr_test_rename
  /\ UNCHANGED <<running, slots, stale, devState, chans, devChans, socketsChanged,
                 allSockets, devSockets, ready>>

QuitCommand ==
  /\ pc = "line" /\ buf = "q" /\ NextLine
  /\ running' = FALSE
  /\ UNCHANGED <<ptrs, live, slots, pending, stale, devState, chans, devChans,
                 socketsChanged, allSockets, devSockets, ready>>

ProcessLine ==
  \/ RequestCommand \/ MarkCommand \/ UpdateCommand \/ RxflowErrorsCommand
  \/ FallThrough \/ RenameCommand \/ QuitCommand

Setup   == EnvSetup \/ DevicesNew \/ SetOptions \/ Open
Loop    == StartLoop \/ Top \/ SelectIdle \/ SelectReady \/ ProcessReturns \/ NoInput
Library ==
  \/ \E id \in Ids : Response(id)
  \/ \E s \in DevStates : DeviceChanged(s)
  \/ \E c \in Components : ComponentChanged(c)
  \/ \E S \in SUBSET Socks \ {{}} : SocketsChanged(S)
Operator == \E line \in Commands : ReadLine(line)

\* main has returned.
Finished == pc = "done" /\ UNCHANGED vars

Next == Setup \/ Loop \/ Library \/ Operator \/ ProcessLine \/ Cleanup \/ Finished

Spec == Init /\ [][Next]_vars

\* The program keeps running its own loop, and processes a line it has read; the operator
\* need not type anything.  An open library socket becomes ready again and again, and its
\* data is a request's answer again and again, or the library gives the request up; the
\* library does not fail to list its sockets for ever.
Fairness ==
  /\ WF_vars(Setup \/ Loop \/ ProcessLine \/ Cleanup)
  /\ WF_vars(ProcessReturns)
  /\ SF_vars(SelectReady /\ ready' \cap devSockets # {})
  /\ SF_vars(Top /\ socketsChanged /\ socketsChanged' = FALSE)
  /\ \A id \in Ids : SF_vars(Response(id))

FairSpec == Spec /\ Fairness

-----------------------------------------------------------------------------
(* Properties. *)

DeviceIsOpen == "device" \in live

\* Whatever the library does to *request_id when a call fails, a request that it still
\* has in flight is in the table: on_response never meets an unknown request.
EveryRequestIsHeld ==
  DeviceIsOpen => \A id \in Ids :
    pending[id] # NoDesc => \E i \in Slots : slots[i].id = id

\* The one slot that holds a request in flight describes that request: what on_response
\* prints when it completes is what the operator asked for.
CompletionNamesItsRequest ==
  DeviceIsOpen => \A id \in Ids :
    pending[id] # NoDesc =>
      \E i \in Slots : /\ slots[i] = [id |-> id, desc |-> pending[id]]
                       /\ \A j \in Slots : slots[j].id = id => j = i

Busy     == {i \in Slots : slots[i].id # NullId}
InFlight == {id \in Ids : pending[id] # NoDesc}

\* The slots that no answer will ever free again.
SlotsLost == Cardinality(Busy) - Cardinality(InFlight)

\* A line that calls one of the two functions which return without releasing (520, 543).
ConfigLine == WritesIdOnError /\ pc = "line" /\ buf \in {"c +", "c -"}

\* Whatever a failing call writes and in whatever order answers come, slots are lost to
\* nothing but a store_config or clear_config whose send failed, and one to each.
OnlyConfigLeaks ==
  [][DeviceIsOpen' => SlotsLost' <= SlotsLost + (IF ConfigLine THEN 1 ELSE 0)]_vars

\* In the loop the channel arrays that the channel commands index are the device's
\* present ones, also after the device has left ACTIVE and come back different.
ChannelsCurrent == pc \in InLoop => chans = devChans

\* A handle that is not NULL is alive until main has cleaned up, the loop has a device,
\* and main leaves nothing behind.
HandlesSound ==
  /\ pc # "done" => ptrs = live
  /\ pc \in InLoop => DeviceIsOpen
  /\ pc = "done" => live = {}

\* select() waits for stdin and, unless the library failed to list them, for exactly the
\* sockets the library has open: no answer is left unread on a socket nobody watches.
SocketsTracked ==
  pc = "select" => \/ allSockets = devSockets \cup {StdIn}
                   \/ allSockets = {StdIn} /\ socketsChanged

\* A request in flight is answered, and its slot free again, unless the program exits.
RequestsComplete ==
  \A id \in Ids : pending[id] # NoDesc ~> pending[id] = NoDesc \/ pc = "cleanup"

\* The help text of "U" and "U N" says that they print: they ask the device for nothing.
PrintingSendsNothing == [][buf = "U" => pending' = pending]_vars

-----------------------------------------------------------------------------
(* The table implements a bounded set of outstanding requests. *)

Holders(id) == {i \in Slots : slots[i].id = id}

\* What the table alone says is outstanding.
TableView ==
  [id \in Ids |->
    IF DeviceIsOpen /\ Holders(id) # {}
      THEN slots[CHOOSE i \in Holders(id) : \A j \in Holders(id) : i <= j].desc
      ELSE NoDesc]

Outstanding == INSTANCE OutstandingRequests
  WITH None <- NoDesc, Limit <- MaxRequests, outstanding <- TableView

\* Seen through its slots, every step of the program issues requests under fresh ids,
\* ends exactly one, or closes the device: an entry is never overwritten or renamed.
ImplementsOutstanding == Outstanding!Spec

=============================================================================
