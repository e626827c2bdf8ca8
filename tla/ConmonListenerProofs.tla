----------------------- MODULE ConmonListenerProofs -----------------------
(***************************************************************************)
(* Proofs about ConmonListener, for any devices on the command line, any   *)
(* statuses and any request ids.                                           *)
(***************************************************************************)
EXTENDS ConmonListener, TLAPS

USE ListenerAssumption DEF ListenerAssumption

LEMMA DeviceNames ==
  /\ \A t \in Targets : Devices[t] \in Names
  /\ Holders = Targets \cup {All} /\ All \notin Targets
  /\ \A h \in Holders : RequestOf(h) \in Names \cup {"all"}
  /\ \A h \in Holders : RequestOf(h) \in Names <=> h \in Targets
<1>1. \A t \in Targets : Devices[t] \in Names
  BY DEF Targets
<1>2. Holders = Targets \cup {All} /\ All \notin Targets
  BY DEF Holders, Targets, All
<1> QED BY <1>1, <1>2 DEF RequestOf

-----------------------------------------------------------------------------
(* The connection. *)

\* Before it is connected the listener has asked for nothing but the connection.
Connection ==
  /\ pc = "setup" => ~connecting /\ ~connected
  /\ connecting => ~connected /\ pc \in {"loop", "process"}
  /\ pc \in {"loop", "process"} => connected \/ connecting
  /\ ~connected => /\ \A h \in Holders : req_id[h] = NoId
                   /\ \A id \in Ids : inflight[id] = "idle"

LEMMA ConnectionStep == Connection /\ [Next]_vars => Connection'
<1> SUFFICES ASSUME Connection, [Next]_vars PROVE Connection'
  OBVIOUS
<1> USE DEF Connection, targets, library
<1>1. CASE Setup
  BY <1>1 DEF Setup
<1>2. CASE Select
  BY <1>2 DEF Select
<1>3. CASE ProcessReturns
  BY <1>3 DEF ProcessReturns
<1>4. CASE ConnectFails
  BY <1>4 DEF ConnectFails
<1>5. CASE ConnectSucceeds
  BY <1>5 DEF ConnectSucceeds
<1>6. ASSUME NEW id \in Ids, SubscribedAll(id) PROVE Connection'
  <2>1. connected
    BY <1>6 DEF SubscribedAll
  <2> QED BY <1>6, <2>1 DEF SubscribedAll
<1>7. ASSUME NEW id \in Ids, NEW got \in BOOLEAN, Subscribed(id, got) PROVE Connection'
  <2>1. connected
    BY <1>7 DEF Subscribed
  <2> QED BY <1>7, <2>1 DEF Subscribed
<1>8. ASSUME NEW n \in Names, NEW s \in Statuses, StatusChanges(n, s) PROVE Connection'
  BY <1>8 DEF StatusChanges
<1>9. ASSUME NEW c \in SUBSET dirty \ {{}}, SubscriptionsChanged(c) PROVE Connection'
  BY <1>9 DEF SubscriptionsChanged
<1>10. CASE Finished \/ UNCHANGED vars
  BY <1>10 DEF Finished, vars
<1> QED BY <1>1, <1>2, <1>3, <1>4, <1>5, <1>6, <1>7, <1>8, <1>9, <1>10 DEF Next

LEMMA ConnectionInit == Init => Connection
BY DEF Init, Connection

\* The listener that runs is connected or has asked to be.
THEOREM NeverIdles == Spec => []NeverIdle
<1>1. Connection => NeverIdle
  BY DEF Connection, NeverIdle
<1> QED BY <1>1, ConnectionInit, ConnectionStep, PTL DEF Spec

-----------------------------------------------------------------------------
(* Types. *)

RequestType ==
  /\ req_id \in [Holders -> Ids \cup {NoId}]
  /\ inflight \in [Ids -> Names \cup {"all", "idle"}]

StatusType ==
  /\ sub \in [Targets -> SUBSET Names]
  /\ old_status \in [Targets -> Statuses] /\ found \in [Targets -> BOOLEAN]
  /\ status \in [Names -> Statuses] /\ dirty \subseteq Names

LEMMA AnsweredType ==
  ASSUME NEW id \in Ids, RequestType, Answered(id)
  PROVE  inflight' \in [Ids -> Names \cup {"all", "idle"}]
BY DEF RequestType, Answered

\* What the requests of a connection leave in the targets and at the library.
SentAs(sent, ids) ==
  /\ \A g, h \in sent : ids[g] = ids[h] => g = h
  /\ req_id' = [h \in Holders |-> IF h \in sent THEN ids[h] ELSE req_id[h]]
  /\ inflight' = [id \in Ids |-> IF \E h \in sent : ids[h] = id
                                   THEN RequestOf(CHOOSE h \in sent : ids[h] = id)
                                   ELSE inflight[id]]

LEMMA RequestsSent ==
  ASSUME RequestType, ConnectSucceeds
  PROVE  \E sent \in SUBSET Holders : \E ids \in [sent -> Ids] : SentAs(sent, ids)
<1>1. PICK sent \in Sent : \E ids \in Injection(sent, Ids) :
           /\ req_id' = [h \in Holders |-> IF h \in sent THEN ids[h] ELSE req_id[h]]
           /\ inflight' = [id \in Ids |-> IF \E h \in sent : ids[h] = id
                                            THEN RequestOf(CHOOSE h \in sent : ids[h] = id)
                                            ELSE inflight[id]]
  BY DEF ConnectSucceeds
<1>2. sent \in SUBSET Holders
  BY DEF Sent, Wanted
<1>3. PICK ids \in Injection(sent, Ids) :
           /\ req_id' = [h \in Holders |-> IF h \in sent THEN ids[h] ELSE req_id[h]]
           /\ inflight' = [id \in Ids |-> IF \E h \in sent : ids[h] = id
                                            THEN RequestOf(CHOOSE h \in sent : ids[h] = id)
                                            ELSE inflight[id]]
  BY <1>1
<1>4. ids \in [sent -> Ids] /\ \A g, h \in sent : ids[g] = ids[h] => g = h
  BY DEF Injection, IsInjective
<1>5. SentAs(sent, ids)
  BY <1>3, <1>4 DEF SentAs
<1> QED BY <1>2, <1>4, <1>5

LEMMA RequestStep == RequestType /\ [Next]_vars => RequestType'
<1> SUFFICES ASSUME RequestType, [Next]_vars PROVE RequestType'
  OBVIOUS
<1>1. CASE UNCHANGED <<req_id, inflight>>
  BY <1>1 DEF RequestType
<1>2. CASE Setup \/ Select \/ ProcessReturns \/ ConnectFails
  BY <1>1, <1>2 DEF Setup, Select, ProcessReturns, ConnectFails, targets, library
<1>3. CASE ConnectSucceeds
  <2>s. PICK sent \in SUBSET Holders : \E ids \in [sent -> Ids] : SentAs(sent, ids)
    BY <1>3, RequestsSent
  <2>1. PICK ids \in [sent -> Ids] :
           /\ req_id' = [h \in Holders |-> IF h \in sent THEN ids[h] ELSE req_id[h]]
           /\ inflight' = [id \in Ids |-> IF \E h \in sent : ids[h] = id
                                            THEN RequestOf(CHOOSE h \in sent : ids[h] = id)
                                            ELSE inflight[id]]
    BY <2>s DEF SentAs
  <2>2. req_id' \in [Holders -> Ids \cup {NoId}]
    BY <2>1 DEF RequestType
  <2>3. ASSUME NEW id \in Ids PROVE inflight'[id] \in Names \cup {"all", "idle"}
    <3>1. CASE \E h \in sent : ids[h] = id
      <4>1. inflight'[id] = RequestOf(CHOOSE h \in sent : ids[h] = id)
        BY <2>1, <3>1
      <4>2. (CHOOSE h \in sent : ids[h] = id) \in Holders
        BY <3>1
      <4> QED BY <4>1, <4>2, DeviceNames
    <3>2. CASE ~\E h \in sent : ids[h] = id
      BY <2>1, <3>2 DEF RequestType
    <3> QED BY <3>1, <3>2
  <2>4. inflight' \in [Ids -> Names \cup {"all", "idle"}]
    BY <2>1, <2>3
  <2> QED BY <2>2, <2>4 DEF RequestType
<1>4. ASSUME NEW id \in Ids, SubscribedAll(id) PROVE RequestType'
  BY <1>4, AnsweredType DEF SubscribedAll, RequestType
<1>5. ASSUME NEW id \in Ids, NEW got \in BOOLEAN, Subscribed(id, got) PROVE RequestType'
  <2>1. inflight' \in [Ids -> Names \cup {"all", "idle"}]
    BY <1>5, AnsweredType DEF Subscribed
  <2>2. req_id' = req_id \/ \E t \in Targets : req_id' = [req_id EXCEPT ![t] = NoId]
    BY <1>5 DEF Subscribed, Waiting
  <2> QED BY <2>1, <2>2 DEF RequestType
<1>6. ASSUME NEW n \in Names, NEW s \in Statuses, StatusChanges(n, s) PROVE RequestType'
  BY <1>1, <1>6 DEF StatusChanges, targets
<1>7. ASSUME NEW c \in SUBSET dirty \ {{}}, SubscriptionsChanged(c) PROVE RequestType'
  BY <1>1, <1>7 DEF SubscriptionsChanged
<1>8. CASE Finished \/ UNCHANGED vars
  BY <1>1, <1>8 DEF Finished, vars, targets, library
<1> QED BY <1>2, <1>3, <1>4, <1>5, <1>6, <1>7, <1>8 DEF Next

LEMMA StatusStep == StatusType /\ [Next]_vars => StatusType'
<1> SUFFICES ASSUME StatusType, [Next]_vars PROVE StatusType'
  OBVIOUS
<1>1. CASE UNCHANGED <<sub, old_status, found, status, dirty>>
  BY <1>1 DEF StatusType
<1>2. CASE Setup \/ Select \/ ProcessReturns \/ ConnectFails
  BY <1>1, <1>2 DEF Setup, Select, ProcessReturns, ConnectFails, targets, library
<1>3. CASE ConnectSucceeds
  BY <1>1, <1>3 DEF ConnectSucceeds
<1>4. ASSUME NEW id \in Ids, SubscribedAll(id) PROVE StatusType'
  BY <1>1, <1>4 DEF SubscribedAll
<1>5. ASSUME NEW id \in Ids, NEW got \in BOOLEAN, Subscribed(id, got) PROVE StatusType'
  <2>1. UNCHANGED <<old_status, found, status, dirty>>
    BY <1>5 DEF Subscribed
  <2>2. CASE UNCHANGED sub
    BY <2>1, <2>2 DEF StatusType
  <2>3. CASE \E t \in Targets : sub' = [sub EXCEPT ![t] = IF got THEN {Devices[t]} ELSE sub[t]]
    <3>1. PICK t \in Targets : sub' = [sub EXCEPT ![t] = IF got THEN {Devices[t]} ELSE sub[t]]
      BY <2>3
    <3>2. {Devices[t]} \in SUBSET Names
      BY DeviceNames
    <3>3. sub' \in [Targets -> SUBSET Names]
      BY <3>1, <3>2 DEF StatusType
    <3> QED BY <2>1, <3>3 DEF StatusType
  <2> QED BY <1>5, <2>2, <2>3 DEF Subscribed, Waiting
<1>6. ASSUME NEW n \in Names, NEW s \in Statuses, StatusChanges(n, s) PROVE StatusType'
  BY <1>6 DEF StatusChanges, targets, StatusType
<1>7. ASSUME NEW c \in SUBSET dirty \ {{}}, SubscriptionsChanged(c) PROVE StatusType'
  <2> DEFINE told == {t \in Targets : \E n \in c : t \in target_for_sub(n)}
             now  == [t \in Targets |-> status[Devices[t]]]
  <2>1. old_status' = [t \in Targets |-> IF t \in told THEN now[t] ELSE old_status[t]]
    BY <1>7 DEF SubscriptionsChanged
  <2>2. found' = [t \in Targets |-> IF t \in told /\ now[t] # old_status[t]
                                      THEN now[t] \in Active ELSE found[t]]
    BY <1>7 DEF SubscriptionsChanged
  <2>3. UNCHANGED <<sub, status>> /\ dirty' \subseteq dirty
    BY <1>7 DEF SubscriptionsChanged
  <2>4. \A t \in Targets : now[t] \in Statuses
    BY DeviceNames DEF StatusType
  <2>5. old_status' \in [Targets -> Statuses]
    BY <2>1, <2>4 DEF StatusType
  <2>6. ASSUME NEW t \in Targets PROVE found'[t] \in BOOLEAN
    <3>1. found[t] \in BOOLEAN
      BY DEF StatusType
    <3>2. CASE t \in told /\ now[t] # old_status[t]
      <4>1. found'[t] = (now[t] \in Active)
        BY <2>2, <3>2
      <4> QED BY <4>1
    <3>3. CASE ~(t \in told /\ now[t] # old_status[t])
      BY <2>2, <3>1, <3>3
    <3> QED BY <3>2, <3>3
  <2>7. found' \in [Targets -> BOOLEAN]
    BY <2>2, <2>6
  <2> QED BY <2>3, <2>5, <2>7 DEF StatusType
<1>8. CASE Finished \/ UNCHANGED vars
  BY <1>1, <1>8 DEF Finished, vars, targets, library
<1> QED BY <1>2, <1>3, <1>4, <1>5, <1>6, <1>7, <1>8 DEF Next

\* Every variable keeps its type, and only a client that lives has a connect request.
THEOREM TypeCorrect == Spec => []TypeOK
<1> DEFINE Rest == /\ all \in BOOLEAN /\ own \in Names
                   /\ pc \in {"setup", "loop", "process", "exit", "undefined"}
                   /\ connecting \in BOOLEAN /\ connected \in BOOLEAN
<1>1. Init => RequestType /\ StatusType /\ Rest
  <2>1. Init => RequestType
    BY DEF Init, RequestType
  <2>2. Init => StatusType
    BY DEF Init, StatusType
  <2>3. Init => Rest
    BY DEF Init
  <2> QED BY <2>1, <2>2, <2>3
<1>2. Rest /\ [Next]_vars => Rest'
  <2> SUFFICES ASSUME Rest, [Next]_vars PROVE Rest'
    OBVIOUS
  <2>1. CASE Setup
    BY <2>1 DEF Setup
  <2>2. CASE Select \/ ProcessReturns
    BY <2>2 DEF Select, ProcessReturns
  <2>3. CASE ConnectFails
    BY <2>3 DEF ConnectFails
  <2>4. CASE ConnectSucceeds
    BY <2>4 DEF ConnectSucceeds
  <2>5. ASSUME NEW id \in Ids, SubscribedAll(id) PROVE Rest'
    BY <2>5 DEF SubscribedAll
  <2>6. ASSUME NEW id \in Ids, NEW got \in BOOLEAN, Subscribed(id, got) PROVE Rest'
    BY <2>6 DEF Subscribed
  <2>7. ASSUME NEW n \in Names, NEW s \in Statuses, StatusChanges(n, s) PROVE Rest'
    BY <2>7 DEF StatusChanges
  <2>8. ASSUME NEW c \in SUBSET dirty \ {{}}, SubscriptionsChanged(c) PROVE Rest'
    BY <2>8 DEF SubscriptionsChanged
  <2>9. CASE Finished \/ UNCHANGED vars
    BY <2>9 DEF Finished, vars
  <2> QED BY <2>1, <2>2, <2>3, <2>4, <2>5, <2>6, <2>7, <2>8, <2>9 DEF Next
<1>3. RequestType /\ StatusType /\ Rest /\ Connection => TypeOK
  BY DEF TypeOK, RequestType, StatusType, Connection
<1> QED BY <1>1, <1>2, <1>3, RequestStep, StatusStep, ConnectionInit, ConnectionStep, PTL DEF Spec

-----------------------------------------------------------------------------
(* Responses and their targets. *)

\* The requests in flight and the ids that wait for them are the same.
Matched ==
  /\ \A id \in Ids : inflight[id] # "idle" =>
       \E h \in Holders : /\ req_id[h] = id /\ RequestOf(h) = inflight[id]
                          /\ \A g \in Holders \ {h} : req_id[g] # id
  /\ \A h \in Holders : req_id[h] # NoId => inflight[req_id[h]] = RequestOf(h)

\* A response takes away its request and the id that waited for it.
LEMMA Released ==
  ASSUME RequestType, Matched, NEW id \in Ids, NEW h \in Holders, req_id[h] = id,
         inflight[id] # "idle",
         req_id' = [req_id EXCEPT ![h] = NoId], inflight' = [inflight EXCEPT ![id] = "idle"]
  PROVE  Matched'
<1>1. \A g \in Holders \ {h} : req_id[g] # id
  BY DEF Matched
<1>2. req_id'[h] = NoId /\ \A g \in Holders \ {h} : req_id'[g] = req_id[g]
  BY DEF RequestType
<1>3. inflight'[id] = "idle" /\ \A i \in Ids \ {id} : inflight'[i] = inflight[i]
  BY DEF RequestType
<1>4. ASSUME NEW i \in Ids, inflight'[i] # "idle"
      PROVE  \E k \in Holders : /\ req_id'[k] = i /\ RequestOf(k) = inflight'[i]
                                /\ \A g \in Holders \ {k} : req_id'[g] # i
  <2>1. i # id /\ inflight[i] = inflight'[i]
    BY <1>3, <1>4
  <2>2. PICK k \in Holders : /\ req_id[k] = i /\ RequestOf(k) = inflight[i]
                             /\ \A g \in Holders \ {k} : req_id[g] # i
    BY <1>4, <2>1 DEF Matched
  <2>3. k # h
    BY <2>1, <2>2
  <2>4. \A g \in Holders \ {k} : req_id'[g] # i
    BY <1>2, <2>2
  <2> QED BY <1>2, <2>1, <2>2, <2>3, <2>4
<1>5. ASSUME NEW g \in Holders, req_id'[g] # NoId
      PROVE  inflight'[req_id'[g]] = RequestOf(g)
  <2>1. g # h /\ req_id'[g] = req_id[g]
    BY <1>2, <1>5
  <2>2. req_id[g] \in Ids \ {id}
    BY <1>1, <1>5, <2>1 DEF RequestType
  <2> QED BY <1>3, <1>5, <2>1, <2>2 DEF Matched
<1> QED BY <1>4, <1>5 DEF Matched

\* The requests of a connection are all new.
LEMMA SentMatched ==
  ASSUME RequestType, Connection, ~connected, NEW sent \in SUBSET Holders,
         NEW ids \in [sent -> Ids], SentAs(sent, ids)
  PROVE  Matched'
<1>1. \A h \in Holders : req_id[h] = NoId
  BY DEF Connection
<1>2. \A id \in Ids : inflight[id] = "idle"
  BY DEF Connection
<1>3. \A h \in Holders : req_id'[h] = IF h \in sent THEN ids[h] ELSE NoId
  BY <1>1 DEF SentAs
<1>4. ASSUME NEW h \in sent PROVE inflight'[ids[h]] = RequestOf(h)
  <2>1. ids[h] \in Ids
    OBVIOUS
  <2>2. inflight'[ids[h]] = RequestOf(CHOOSE k \in sent : ids[k] = ids[h])
    BY <2>1 DEF SentAs
  <2>3. (CHOOSE k \in sent : ids[k] = ids[h]) = h
    BY DEF SentAs
  <2> QED BY <2>2, <2>3
<1>5. ASSUME NEW id \in Ids, inflight'[id] # "idle" PROVE \E h \in sent : ids[h] = id
  BY <1>2, <1>5 DEF SentAs
<1>6. ASSUME NEW id \in Ids, inflight'[id] # "idle"
      PROVE  \E h \in Holders : /\ req_id'[h] = id /\ RequestOf(h) = inflight'[id]
                                /\ \A g \in Holders \ {h} : req_id'[g] # id
  <2>1. PICK h \in sent : ids[h] = id
    BY <1>5, <1>6
  <2>2. req_id'[h] = id /\ RequestOf(h) = inflight'[id]
    BY <1>3, <1>4, <2>1
  <2>3. ASSUME NEW g \in Holders \ {h} PROVE req_id'[g] # id
    <3>1. CASE g \in sent
      <4>1. ids[g] # ids[h]
        BY <2>3, <3>1 DEF SentAs
      <4> QED BY <1>3, <2>1, <3>1, <4>1
    <3>2. CASE g \notin sent
      BY <1>3, <3>2
    <3> QED BY <3>1, <3>2
  <2> QED BY <2>2, <2>3
<1>7. ASSUME NEW h \in Holders, req_id'[h] # NoId PROVE inflight'[req_id'[h]] = RequestOf(h)
  BY <1>3, <1>4, <1>7
<1> QED BY <1>6, <1>7 DEF Matched

LEMMA MatchedStep == RequestType /\ Connection /\ Matched /\ [Next]_vars => Matched'
<1> SUFFICES ASSUME RequestType, Connection, Matched, [Next]_vars PROVE Matched'
  OBVIOUS
<1>1. CASE UNCHANGED <<req_id, inflight>>
  BY <1>1 DEF Matched
<1>2. CASE Setup \/ Select \/ ProcessReturns \/ ConnectFails
  BY <1>1, <1>2 DEF Setup, Select, ProcessReturns, ConnectFails, targets, library
<1>3. CASE ConnectSucceeds
  <2>1. ~connected
    BY <1>3 DEF ConnectSucceeds, Connection
  <2>2. PICK sent \in SUBSET Holders : \E ids \in [sent -> Ids] : SentAs(sent, ids)
    BY <1>3, RequestsSent
  <2>3. PICK ids \in [sent -> Ids] : SentAs(sent, ids)
    BY <2>2
  <2> QED BY <2>1, <2>3, SentMatched
<1>4. ASSUME NEW id \in Ids, SubscribedAll(id) PROVE Matched'
  <2>1. inflight[id] = "all" /\ inflight' = [inflight EXCEPT ![id] = "idle"]
    BY <1>4 DEF SubscribedAll, Answered
  <2>2. PICK h \in Holders : req_id[h] = id /\ RequestOf(h) = "all"
    BY <2>1 DEF Matched
  <2>3. h = All
    BY <2>2, DeviceNames
  <2>4. req_id' = [req_id EXCEPT ![All] = NoId]
    BY <1>4, <2>2, <2>3 DEF SubscribedAll
  <2> QED BY <2>1, <2>2, <2>3, <2>4, Released
<1>5. ASSUME NEW id \in Ids, NEW got \in BOOLEAN, Subscribed(id, got) PROVE Matched'
  <2>1. inflight[id] \in Names /\ inflight' = [inflight EXCEPT ![id] = "idle"]
    BY <1>5 DEF Subscribed, Answered
  <2>2. PICK h \in Holders : /\ req_id[h] = id /\ RequestOf(h) = inflight[id]
                             /\ \A g \in Holders \ {h} : req_id[g] # id
    BY <2>1 DEF Matched
  <2>3. h \in Targets
    BY <2>1, <2>2, DeviceNames
  <2>4. Waiting(id) = {h}
    <3>1. \A t \in Targets : req_id[t] = id => t = h
      BY <2>2, DeviceNames
    <3>2. \A u \in 1 .. h - 1 : u \in Targets /\ u # h
      BY <2>3 DEF Targets
    <3> QED BY <2>2, <2>3, <3>1, <3>2 DEF Waiting
  <2>5. req_id' = [req_id EXCEPT ![h] = NoId]
    BY <1>5, <2>4 DEF Subscribed
  <2> QED BY <2>1, <2>2, <2>5, Released
<1>6. ASSUME NEW n \in Names, NEW s \in Statuses, StatusChanges(n, s) PROVE Matched'
  BY <1>1, <1>6 DEF StatusChanges, targets
<1>7. ASSUME NEW c \in SUBSET dirty \ {{}}, SubscriptionsChanged(c) PROVE Matched'
  BY <1>1, <1>7 DEF SubscriptionsChanged
<1>8. CASE Finished \/ UNCHANGED vars
  BY <1>1, <1>8 DEF Finished, vars, targets, library
<1> QED BY <1>2, <1>3, <1>4, <1>5, <1>6, <1>7, <1>8 DEF Next

\* How a response leaves the targets' subscriptions.
LEMMA SubGrows ==
  ASSUME StatusType, NEW id \in Ids, NEW got \in BOOLEAN, Subscribed(id, got)
  PROVE  \A t \in Targets : sub'[t] \in {sub[t], {Devices[t]}}
<1>1. CASE UNCHANGED sub
  BY <1>1
<1>2. CASE \E u \in Targets : sub' = [sub EXCEPT ![u] = IF got THEN {Devices[u]} ELSE sub[u]]
  BY <1>2 DEF StatusType
<1> QED BY <1>1, <1>2 DEF Subscribed, Waiting

OwnSubs == \A t \in Targets : sub[t] \subseteq {Devices[t]}

LEMMA OwnSubsStep == StatusType /\ OwnSubs /\ [Next]_vars => OwnSubs'
<1> SUFFICES ASSUME StatusType, OwnSubs, [Next]_vars PROVE OwnSubs'
  OBVIOUS
<1>1. CASE UNCHANGED sub
  BY <1>1 DEF OwnSubs
<1>2. ASSUME NEW id \in Ids, NEW got \in BOOLEAN, Subscribed(id, got) PROVE OwnSubs'
  BY <1>2, SubGrows DEF OwnSubs
<1>3. CASE Setup \/ Select \/ ProcessReturns \/ ConnectFails \/ ConnectSucceeds
  BY <1>1, <1>3 DEF Setup, Select, ProcessReturns, ConnectFails, ConnectSucceeds, targets
<1>4. ASSUME NEW id \in Ids, SubscribedAll(id) PROVE OwnSubs'
  BY <1>1, <1>4 DEF SubscribedAll
<1>5. ASSUME NEW n \in Names, NEW s \in Statuses, StatusChanges(n, s) PROVE OwnSubs'
  BY <1>1, <1>5 DEF StatusChanges, targets
<1>6. ASSUME NEW c \in SUBSET dirty \ {{}}, SubscriptionsChanged(c) PROVE OwnSubs'
  BY <1>1, <1>6 DEF SubscriptionsChanged
<1>7. CASE Finished \/ UNCHANGED vars
  BY <1>1, <1>7 DEF Finished, vars, targets
<1> QED BY <1>2, <1>3, <1>4, <1>5, <1>6, <1>7 DEF Next

\* Responses may come in any order: each finds the target that asked.
THEOREM ResponsesFindTargets == Spec => []ResponsesMatched
<1> DEFINE Inv == RequestType /\ StatusType /\ Connection /\ Matched /\ OwnSubs
<1>1. Init => Inv
  <2>1. Init => RequestType /\ Matched
    BY DEF Init, RequestType, Matched
  <2>2. Init => StatusType /\ OwnSubs
    BY DEF Init, StatusType, OwnSubs
  <2> QED BY <2>1, <2>2, ConnectionInit
<1>2. Inv /\ [Next]_vars => Inv'
  BY RequestStep, StatusStep, ConnectionStep, MatchedStep, OwnSubsStep
<1>3. Inv => ResponsesMatched
  BY DEF Matched, OwnSubs, ResponsesMatched
<1> QED BY <1>1, <1>2, <1>3, PTL DEF Spec

-----------------------------------------------------------------------------
(* What the targets have noticed. *)

\* A target notices only its own subscription, once it is recorded.
Notices ==
  \A t \in Targets :
    /\ found[t] <=> old_status[t] \in Active
    /\ sub[t] = {} => old_status[t] = "NONE"
    /\ t \in target_for_sub(Devices[t]) /\ Devices[t] \notin dirty /\ old_status[t] # "NONE"
         => old_status[t] = status[Devices[t]]

LEMMA NoticesStep == StatusType /\ OwnSubs /\ Notices /\ [Next]_vars => Notices'
<1> SUFFICES ASSUME StatusType, OwnSubs, Notices, [Next]_vars, NEW t \in Targets
             PROVE  /\ found'[t] <=> old_status'[t] \in Active
                    /\ sub'[t] = {} => old_status'[t] = "NONE"
                    /\ t \in target_for_sub(Devices[t])' /\ Devices[t] \notin dirty'
                         /\ old_status'[t] # "NONE" => old_status'[t] = status'[Devices[t]]
  BY DEF Notices
<1> DEFINE n == Devices[t]
<1>1. CASE UNCHANGED <<sub, old_status, found, status, dirty>>
  BY <1>1 DEF Notices, target_for_sub
<1>2. CASE Setup \/ Select \/ ProcessReturns \/ ConnectFails
  BY <1>1, <1>2 DEF Setup, Select, ProcessReturns, ConnectFails, targets, library
<1>3. CASE ConnectSucceeds
  BY <1>1, <1>3 DEF ConnectSucceeds
<1>4. ASSUME NEW id \in Ids, SubscribedAll(id)
      PROVE  UNCHANGED <<sub, old_status, found, status, dirty>>
  BY <1>4 DEF SubscribedAll
<1>5. CASE \E id \in Ids, got \in BOOLEAN : Subscribed(id, got)
  <2>1. UNCHANGED <<old_status, found, status, dirty>>
    BY <1>5 DEF Subscribed
  <2>2. \A u \in Targets : sub'[u] \in {sub[u], {Devices[u]}} /\ sub[u] \subseteq sub'[u]
    BY <1>5, SubGrows DEF OwnSubs
  <2>3. sub'[t] = {} => sub[t] = {}
    BY <2>2
  <2>4. ASSUME t \in target_for_sub(n)', old_status[t] # "NONE" PROVE t \in target_for_sub(n)
    <3>1. sub[t] = {n}
      BY <2>4 DEF Notices, OwnSubs
    <3>2. \A u \in 1 .. t - 1 : u \in Targets /\ n \notin sub'[u]
      BY <2>4 DEF target_for_sub, Targets
    <3>3. \A u \in 1 .. t - 1 : n \notin sub[u]
      BY <2>2, <3>2
    <3> QED BY <3>1, <3>3 DEF target_for_sub
  <2> QED BY <2>1, <2>3, <2>4 DEF Notices
<1>6. CASE \E m \in Names, s \in Statuses : StatusChanges(m, s)
  <2>1. PICK m \in Names, s \in Statuses : StatusChanges(m, s)
    BY <1>6
  <2>2. UNCHANGED <<sub, old_status, found>>
    BY <2>1 DEF StatusChanges, targets
  <2>3. dirty' = dirty \cup {m} /\ (n # m => status'[n] = status[n])
    BY <2>1, DeviceNames DEF StatusChanges, StatusType
  <2>4. target_for_sub(n)' = target_for_sub(n)
    BY <2>2 DEF target_for_sub
  <2> QED BY <2>2, <2>3, <2>4 DEF Notices
<1>7. CASE \E c \in SUBSET dirty \ {{}} : SubscriptionsChanged(c)
  <2>1. PICK c \in SUBSET dirty \ {{}} : SubscriptionsChanged(c)
    BY <1>7
  <2>2. UNCHANGED <<sub, status>> /\ dirty' = dirty \ c
    BY <2>1 DEF SubscriptionsChanged
  <2>3. target_for_sub(n)' = target_for_sub(n)
    BY <2>2 DEF target_for_sub
  <2>4. CASE \E m \in c : t \in target_for_sub(m)
    <3>1. old_status'[t] = status[n]
      BY <2>1, <2>4 DEF SubscriptionsChanged
    <3>2. found'[t] = IF status[n] # old_status[t] THEN status[n] \in Active ELSE found[t]
      BY <2>1, <2>4 DEF SubscriptionsChanged
    <3>3. sub[t] # {}
      BY <2>4 DEF target_for_sub
    <3>4. found'[t] <=> old_status'[t] \in Active
      BY <3>1, <3>2 DEF Notices
    <3> QED BY <2>2, <3>1, <3>3, <3>4
  <2>5. CASE ~\E m \in c : t \in target_for_sub(m)
    <3>1. old_status'[t] = old_status[t] /\ found'[t] = found[t]
      BY <2>1, <2>5 DEF SubscriptionsChanged
    <3>2. t \in target_for_sub(n) => n \notin c
      BY <2>5
    <3> QED BY <2>2, <2>3, <3>1, <3>2 DEF Notices
  <2> QED BY <2>4, <2>5
<1>8. CASE Finished \/ UNCHANGED vars
  BY <1>1, <1>8 DEF Finished, vars, targets, library
<1> QED BY <1>1, <1>2, <1>3, <1>4, <1>5, <1>6, <1>7, <1>8 DEF Next

\* Once it has noticed something, the first target with a device's subscription is never behind
\* with it.
THEOREM TargetsNotice == Spec => []StatusNoticed
<1> DEFINE Inv == StatusType /\ OwnSubs /\ Notices
<1>1. Init => Inv
  <2>1. Init => StatusType /\ OwnSubs
    BY DEF Init, StatusType, OwnSubs
  <2>2. Init => Notices
    BY DEF Init, Notices, Active
  <2> QED BY <2>1, <2>2
<1>2. Inv /\ [Next]_vars => Inv'
  BY StatusStep, OwnSubsStep, NoticesStep
<1>3. Inv => StatusNoticed
  BY DEF Notices, StatusNoticed
<1> QED BY <1>1, <1>2, <1>3, PTL DEF Spec

=============================================================================
