---------------------------- MODULE ConmonListener ----------------------------
(***************************************************************************)
(* examples/conmon/conmon_audinate_listener.c: it connects to the ConMon   *)
(* server, again and again until that succeeds, subscribes to the status   *)
(* channels of the devices on its command line, and follows what becomes   *)
(* of each subscription.  All of it happens in callbacks, which come in an *)
(* order that the server chooses, from conmon_client_process.              *)
(*                                                                         *)
(* External: the ConMon library, which has one subscription to a device    *)
(* however often it is asked for, and reports the changes of a             *)
(* subscription together, as the status that it has now.  A request that   *)
(* it refuses writes no id: subscribe_to_remote_clients stops there, so    *)
(* that nothing is sent afterwards which such an id could be taken for.    *)
(***************************************************************************)
EXTENDS Naturals, Sequences, Functions

CONSTANTS
  Names,       \* of devices
  Devices,     \* the devices on the command line, a sequence of names
  Statuses,    \* what conmon_rxstatus_t distinguishes
  Ids, NoId    \* request ids, and CONMON_CLIENT_NULL_REQ_ID

\* The statuses of a subscription that has been found.
Active == {"UNICAST", "MULTICAST"}

\* handle_args fills one entry of targets[LISTEN_MAX_TARGETS] for every device, unchecked.
ASSUME ListenerAssumption ==
  /\ Devices \in Seq(Names) /\ Len(Devices) <= 16
  /\ "NONE" \in Statuses /\ NoId \notin Ids /\ Names \cap {"all", "idle"} = {}

Targets == 1 .. Len(Devices)

\* The request for all devices is held in all_req_id and not in a target.
All     == 0
Holders == Targets \cup {All}

VARIABLES
  all,         \* -a was given
  own,         \* conmon_client_get_dante_device_name
  pc,          \* "undefined": the program goes on with a client that it does not have
  connecting,  \* at the library: a connect request has not been answered
  connected,
  req_id,      \* targets[].req_id, and all_req_id
  sub,         \* targets[].sub: the devices whose subscription it is, at most one
  old_status,  \* targets[].old_status
  found,       \* targets[].found
  inflight,    \* at the library: for each id the request it stands for, if any
  status,      \* at the library: each subscription's status
  dirty        \* at the library: the subscriptions with changes it has not reported

targets == <<req_id, sub, old_status, found>>
library == <<inflight, status, dirty>>
vars    == <<all, own, pc, connecting, connected, targets, library>>

TypeOK ==
  /\ all \in BOOLEAN /\ own \in Names
  /\ pc \in {"setup", "loop", "process", "exit", "undefined"}
  /\ connecting \in BOOLEAN /\ (connecting => pc \in {"loop", "process"})
  /\ connected \in BOOLEAN
  /\ req_id \in [Holders -> Ids \cup {NoId}]
  /\ sub \in [Targets -> SUBSET Names]
  /\ old_status \in [Targets -> Statuses] /\ found \in [Targets -> BOOLEAN]
  /\ inflight \in [Ids -> Names \cup {"all", "idle"}]
  /\ status \in [Names -> Statuses] /\ dirty \subseteq Names

Init ==
  /\ all \in BOOLEAN /\ own \in Names /\ pc = "setup"
  /\ connecting = FALSE /\ connected = FALSE
  /\ req_id = [h \in Holders |-> NoId]
  /\ sub = [t \in Targets |-> {}]
  /\ old_status = [t \in Targets |-> "NONE"] /\ found = [t \in Targets |-> FALSE]
  /\ inflight = [id \in Ids |-> "idle"]
  /\ status = [n \in Names |-> "NONE"] /\ dirty = {}

-----------------------------------------------------------------------------
(* main and its loop. *)

\* A bug in setup_conmon: an error leaves the client, and its request, behind.
SetupLeaving ==
  /\ pc = "setup"
  /\ pc' \in {"loop", "exit", "undefined"} /\ connecting' \in BOOLEAN
  /\ UNCHANGED <<all, own, connected, targets, library>>

\* setup_conmon: the first connect request, or an error; but without memory for the
\* configuration it reports success, and has no client.
Setup ==
  /\ pc = "setup"
  /\ \/ pc' = "loop" /\ connecting' = TRUE
     \/ pc' \in {"exit", "undefined"} /\ UNCHANGED connecting
  /\ UNCHANGED <<all, own, connected, targets, library>>

\* select() without a time-out.  Its errors are printed, and it is called again.
Select ==
  /\ pc = "loop" /\ pc' \in {"process", "loop"}
  /\ UNCHANGED <<all, own, connecting, connected, targets, library>>

\* So are those of conmon_client_process.  Nothing ever clears running.
ProcessReturns ==
  /\ pc = "process" /\ pc' = "loop"
  /\ UNCHANGED <<all, own, connecting, connected, targets, library>>

-----------------------------------------------------------------------------
(* Connection. *)

\* A bug in conmon_cb_reg_connect: a failure is printed, and that is all.
ConnectOnce ==
  /\ pc = "process" /\ connecting /\ connecting' = FALSE
  /\ UNCHANGED <<all, own, pc, connected, targets, library>>

\* conmon_cb_reg_connect with an error: five seconds later it asks again.  When the library
\* refuses that, shutdown_conmon deletes the client whose callback this is.
ConnectFails ==
  /\ pc = "process" /\ connecting
  /\ \/ UNCHANGED <<pc, connecting>>
     \/ pc' = "undefined" /\ connecting' = FALSE
  /\ UNCHANGED <<all, own, connected, targets, library>>

\* What subscribe_to_remote_clients asks for, in its order.
Wanted == {h \in Holders : IF h = All THEN all ELSE Devices[h] # own}

RequestOf(h) == IF h = All THEN "all" ELSE Devices[h]

\* It stops at the first request that the library refuses: those before it have been sent.
Sent == {{h \in Wanted : h < last} : last \in 0 .. Len(Devices) + 1}

\* conmon_cb_reg_connect with success.
ConnectSucceeds ==
  /\ pc = "process" /\ connecting
  /\ connecting' = FALSE /\ connected' = TRUE
  /\ \E sent \in Sent : \E ids \in Injection(sent, Ids) :
       /\ req_id' = [h \in Holders |-> IF h \in sent THEN ids[h] ELSE req_id[h]]
       /\ inflight' = [id \in Ids |-> IF \E h \in sent : ids[h] = id
                                        THEN RequestOf(CHOOSE h \in sent : ids[h] = id)
                                        ELSE inflight[id]]
  /\ UNCHANGED <<all, own, pc, sub, old_status, found, status, dirty>>

-----------------------------------------------------------------------------
(* Responses to subscriptions. *)

\* The first target that waits for the response.
Waiting(id) == {t \in Targets : req_id[t] = id /\ \A u \in 1 .. t - 1 : req_id[u] # id}

Answered(id) == inflight' = [inflight EXCEPT ![id] = "idle"]

\* A bug in conmon_cb_reg_sub: responses are taken in the order of the targets.
SubscribedInOrder(id, got) ==
  /\ pc = "process" /\ inflight[id] \in Names /\ Answered(id)
  /\ \E t \in {u \in Targets : req_id[u] # NoId /\ \A v \in 1 .. u - 1 : req_id[v] = NoId} :
       /\ sub' = [sub EXCEPT ![t] = IF got THEN {Devices[t]} ELSE sub[t]]
       /\ req_id' = [req_id EXCEPT ![t] = NoId]
  /\ UNCHANGED <<all, own, pc, connecting, connected, old_status, found, status, dirty>>

\* conmon_cb_reg_sub: the request may have failed, or its subscription not be there.
Subscribed(id, got) ==
  /\ pc = "process" /\ inflight[id] \in Names /\ Answered(id)
  /\ IF Waiting(id) = {} THEN UNCHANGED <<sub, req_id>>
     ELSE \E t \in Waiting(id) :
            /\ sub' = [sub EXCEPT ![t] = IF got THEN {Devices[t]} ELSE sub[t]]
            /\ req_id' = [req_id EXCEPT ![t] = NoId]
  /\ UNCHANGED <<all, own, pc, connecting, connected, old_status, found, status, dirty>>

\* conmon_cb_reg_sub_all.
SubscribedAll(id) ==
  /\ pc = "process" /\ inflight[id] = "all" /\ Answered(id)
  /\ req_id' = IF req_id[All] = id THEN [req_id EXCEPT ![All] = NoId] ELSE req_id
  /\ UNCHANGED <<all, own, pc, connecting, connected, sub, old_status, found, status, dirty>>

-----------------------------------------------------------------------------
(* Changes of subscriptions. *)

\* Something has asked for it.
Watched(n) == connected /\ (all \/ \E t \in Targets : Devices[t] = n /\ n # own)

\* The library sees a status change, which it will report.
StatusChanges(n, s) ==
  /\ Watched(n) /\ status[n] # s
  /\ status' = [status EXCEPT ![n] = s] /\ dirty' = dirty \cup {n}
  /\ UNCHANGED <<all, own, pc, connecting, connected, targets, inflight>>

\* target_for_sub: the first target with that subscription.
target_for_sub(n) == {t \in Targets : n \in sub[t] /\ \A u \in 1 .. t - 1 : n \notin sub[u]}

\* A bug in conmon_cb_cm_sub_changed: UNRESOLVED is not recorded as the old status.
ChangedButUnresolved(changes) ==
  /\ pc = "process" /\ changes \subseteq dirty /\ dirty' = dirty \ changes
  /\ LET told == {t \in Targets : \E n \in changes : t \in target_for_sub(n)}
         now  == [t \in Targets |-> status[Devices[t]]]
     IN /\ old_status' = [t \in Targets |-> IF t \in told /\ now[t] # "UNRESOLVED" THEN now[t]
                                            ELSE old_status[t]]
        /\ found' = [t \in Targets |-> IF t \in told THEN now[t] \in Active ELSE found[t]]
  /\ UNCHANGED <<all, own, pc, connecting, connected, req_id, sub, inflight, status>>

\* conmon_cb_cm_sub_changed, with any of the changes: those that are of no target are ignored,
\* and so is a status that the target had already.
SubscriptionsChanged(changes) ==
  /\ pc = "process" /\ changes \subseteq dirty /\ dirty' = dirty \ changes
  /\ LET told == {t \in Targets : \E n \in changes : t \in target_for_sub(n)}
         now  == [t \in Targets |-> status[Devices[t]]]
     IN /\ old_status' = [t \in Targets |-> IF t \in told THEN now[t] ELSE old_status[t]]
        /\ found' = [t \in Targets |-> IF t \in told /\ now[t] # old_status[t]
                                         THEN now[t] \in Active ELSE found[t]]
  /\ UNCHANGED <<all, own, pc, connecting, connected, req_id, sub, inflight, status>>

\* After "undefined" anything may happen; nothing is said of it.
Finished == pc \in {"exit", "undefined"} /\ UNCHANGED vars

Next ==
  \/ Setup \/ Select \/ ProcessReturns \/ ConnectFails \/ ConnectSucceeds
  \/ \E id \in Ids : SubscribedAll(id) \/ \E got \in BOOLEAN : Subscribed(id, got)
  \/ \E n \in Names, s \in Statuses : StatusChanges(n, s)
  \/ \E changes \in SUBSET dirty \ {{}} : SubscriptionsChanged(changes)
  \/ Finished

Spec == Init /\ [][Next]_vars

-----------------------------------------------------------------------------
(* Properties. *)

\* The listener is never idle without a connection: while it runs, one is asked for or there.
NeverIdle == pc \in {"loop", "process"} => connected \/ connecting

\* Whatever the order of the responses, each finds its target: a request in flight is waited
\* for by one target, for its own device, and a target's subscription is to its device.
ResponsesMatched ==
  /\ \A id \in Ids : inflight[id] # "idle" =>
       \E h \in Holders : /\ req_id[h] = id /\ RequestOf(h) = inflight[id]
                          /\ \A g \in Holders \ {h} : req_id[g] # id
  /\ \A h \in Holders : req_id[h] # NoId => inflight[req_id[h]] = RequestOf(h)
  /\ \A t \in Targets : sub[t] \subseteq {Devices[t]}

\* The first target that has a device's subscription is the one that its changes are reported
\* to (target_for_sub, 622).  Once it has noticed one, it knows the status whenever the library
\* has nothing to report.  A later target of the same device goes stale if it has noticed any:
\* of it the property says only that it is found as its last status said.
StatusNoticed ==
  \A t \in Targets :
    /\ found[t] <=> old_status[t] \in Active
    /\ t \in target_for_sub(Devices[t]) /\ Devices[t] \notin dirty /\ old_status[t] # "NONE"
         => old_status[t] = status[Devices[t]]

=============================================================================
