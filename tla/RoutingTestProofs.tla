------------------------- MODULE RoutingTestProofs -------------------------
(***************************************************************************)
(* Proofs about RoutingTest, for every table length, every set of ids and  *)
(* of sockets, and every number of components and channels.                *)
(***************************************************************************)
EXTENDS RoutingTest, FiniteSetTheorems, TLAPS

USE RoutingAssumption

-----------------------------------------------------------------------------
(* The request table, apart from the program that uses it. *)

TableType ==
  /\ slots \in [Slots -> [id : Ids \cup {NullId}, desc : Descs \cup {NoDesc}]]
  /\ pending \in [Ids -> Descs \cup {NoDesc}]

\* A description is never the empty one.
LEMMA DescsNotEmpty == \A d \in Descs : d # NoDesc
BY DEF Descs, NoDesc

\* A failing call leaves no id, or a fresh one.
LEMMA WrittenId ==
  /\ Written \subseteq Ids \cup {NullId}
  /\ ~WritesIdOnError => Written = {NullId}
BY DEF Written, FreshIds

\* A failed send that is released leaves a free slot, whatever the library wrote.
LEMMA ReleasedFrees ==
  ASSUME NEW i, Released(i)
  PROVE  slots' = [slots EXCEPT ![i] = FreeSlot] /\ UNCHANGED pending
BY DEF Released, Release

LEMMA SentType ==
  ASSUME NEW d \in Descs, NEW i \in FirstFree, TableType, Sent(i, d)
  PROVE  TableType'
<1>1. i \in Slots
  BY DEF FirstFree, FreeSlots
<1> QED BY <1>1 DEF Sent, TableType, FreshIds

LEMMA RequestType ==
  ASSUME NEW d \in Descs, TableType, Request(d)
  PROVE  TableType'
<1>1. CASE NoneFree
  BY <1>1 DEF NoneFree, reqs, TableType
<1>2. ASSUME NEW i \in FirstFree, Sent(i, d) PROVE TableType'
  BY <1>2, SentType
<1>3. ASSUME NEW i \in FirstFree, Released(i) PROVE TableType'
  BY <1>3, ReleasedFrees DEF TableType, FreeSlot
<1> QED BY <1>1, <1>2, <1>3 DEF Request

LEMMA RequestNoReleaseType ==
  ASSUME NEW d \in Descs, TableType, RequestNoRelease(d)
  PROVE  TableType'
<1>1. CASE NoneFree
  BY <1>1 DEF NoneFree, reqs, TableType
<1>2. ASSUME NEW i \in FirstFree, Sent(i, d) PROVE TableType'
  BY <1>2, SentType
<1>3. ASSUME NEW i \in FirstFree, Abandoned(i, d) PROVE TableType'
  <2>1. PICK id \in Ids \cup {NullId} : slots' = [slots EXCEPT ![i] = [id |-> id, desc |-> d]]
    BY <1>3, WrittenId DEF Abandoned
  <2>2. [id |-> id, desc |-> d] \in [id : Ids \cup {NullId}, desc : Descs \cup {NoDesc}]
    OBVIOUS
  <2> QED BY <1>3, <2>1, <2>2 DEF Abandoned, TableType
<1> QED BY <1>1, <1>2, <1>3 DEF RequestNoRelease

LEMMA UpdateType ==
  ASSUME NEW st \in SUBSET Components, TableType, Update(st)
  PROVE  TableType'
<1>1. PICK sent \in SUBSET st :
        \E slotOf \in [sent -> FreeSlots], idOf \in [sent -> FreshIds],
           refused \in SUBSET FreeSlots, wrote \in Written :
          Updated(sent, slotOf, idOf, refused, wrote)
  BY DEF Update
<1>2. PICK slotOf \in [sent -> FreeSlots], idOf \in [sent -> FreshIds],
           refused \in SUBSET FreeSlots, wrote \in Written :
        Updated(sent, slotOf, idOf, refused, wrote)
  BY <1>1
<1>3. \A c \in sent : <<"Update", c>> \in Descs /\ idOf[c] \in Ids
  BY DEF Descs, FreshIds
<1>4. slots' \in [Slots -> [id : Ids \cup {NullId}, desc : Descs \cup {NoDesc}]]
  BY <1>2, <1>3 DEF Updated, TableType, Release, FreeSlot
<1>5. pending' \in [Ids -> Descs \cup {NoDesc}]
  BY <1>2, <1>3 DEF Updated, TableType
<1> QED BY <1>4, <1>5 DEF TableType

LEMMA OnChannelType ==
  ASSUME NEW n, NEW d \in Descs, TableType, OnChannel(n, d)
  PROVE  TableType'
<1>1. CASE UNCHANGED reqs
  BY <1>1 DEF reqs, TableType
<1>2. CASE Request(d)
  BY <1>2, RequestType
<1> QED BY <1>1, <1>2 DEF OnChannel

LEMMA RequestCommandType ==
  ASSUME TableType, RequestCommand
  PROVE  TableType'
<1> USE DEF Descs, OpNames
<1>1. CASE UNCHANGED reqs
  BY <1>1 DEF reqs, TableType
<1>2. ASSUME NEW d \in Descs, Request(d) PROVE TableType'
  BY <1>2, RequestType
<1>3. ASSUME NEW d \in Descs, RequestNoRelease(d) PROVE TableType'
  BY <1>3, RequestNoReleaseType
<1>4. ASSUME NEW n, NEW d \in Descs, OnChannel(n, d) PROVE TableType'
  BY <1>4, OnChannelType
<1> QED BY <1>1, <1>2, <1>3, <1>4
  DEF RequestCommand, dr_test_ping, dr_test_store_config, dr_test_clear_config,
      dr_test_query_capabilities, dr_test_set_performance, dr_test_set_lockdown,
      dr_test_set_network_loopback, dr_test_remove_txlabel,
      dr_test_rxchannel_subscribe, dr_test_rxchannel_set_name,
      dr_test_rxchannel_set_muted, dr_test_txchannel_set_muted,
      dr_test_txchannel_set_enabled, dr_test_add_txlabel,
      dr_test_remove_txlabel_from_channel

LEMMA OnResponseType ==
  ASSUME NEW id \in Ids, TableType, OnResponse(id), pending' = [pending EXCEPT ![id] = NoDesc]
  PROVE  TableType'
<1>1. slots' \in [Slots -> [id : Ids \cup {NullId}, desc : Descs \cup {NoDesc}]]
  BY DEF OnResponse, TableType, Release, FreeSlot
<1>2. pending' \in [Ids -> Descs \cup {NoDesc}]
  BY DEF TableType
<1> QED BY <1>1, <1>2 DEF TableType

LEMMA StateChangedType ==
  ASSUME NEW s, TableType, OnDeviceStateChanged(s), stale' \subseteq Components
  PROVE  TableType'
<1>1. <<"QueryCapabilities">> \in Descs
  BY DEF Descs, OpNames
<1>2. CASE Request(<<"QueryCapabilities">>)
  BY <1>1, <1>2, RequestType
<1>3. CASE Update(stale')
  BY <1>3, UpdateType
<1>4. CASE UNCHANGED reqs
  BY <1>4 DEF reqs, TableType
<1> QED BY <1>2, <1>3, <1>4 DEF OnDeviceStateChanged, reqs

-----------------------------------------------------------------------------
(* The table and the library agree on what is in flight. *)

\* No two slots hold one id; what the library has in flight is described in a slot; what a
\* slot holds is in flight.
Match ==
  /\ \A i, j \in Slots : slots[i].id = slots[j].id /\ slots[i].id # NullId => i = j
  /\ \A id \in Ids : pending[id] # NoDesc =>
       \E i \in Slots : slots[i] = [id |-> id, desc |-> pending[id]]
  /\ \A i \in Slots : slots[i].id # NullId => pending[slots[i].id] # NoDesc

LEMMA SentMatch ==
  ASSUME NEW d \in Descs, NEW i \in FirstFree, TableType, Match, Sent(i, d)
  PROVE  Match'
<1>1. i \in Slots /\ slots[i].id = NullId
  BY DEF FirstFree, FreeSlots
<1>2. PICK id \in Ids :
        /\ pending[id] = NoDesc
        /\ slots' = [slots EXCEPT ![i] = [id |-> id, desc |-> d]]
        /\ pending' = [pending EXCEPT ![id] = d]
  BY DEF Sent, FreshIds
<1>3. \A k \in Slots : slots[k].id # id
  BY <1>2 DEF Match, TableType
<1>4. \A k \in Slots : slots'[k] = IF k = i THEN [id |-> id, desc |-> d] ELSE slots[k]
  BY <1>1, <1>2 DEF TableType
<1>5. \A x \in Ids : pending'[x] = IF x = id THEN d ELSE pending[x]
  BY <1>2 DEF TableType
<1>6. (\A k, j \in Slots : slots[k].id = slots[j].id /\ slots[k].id # NullId => k = j)'
  BY <1>3, <1>4 DEF Match
<1>7. (\A x \in Ids : pending[x] # NoDesc =>
         \E k \in Slots : slots[k] = [id |-> x, desc |-> pending[x]])'
  <2> SUFFICES ASSUME NEW x \in Ids, pending'[x] # NoDesc
               PROVE  \E k \in Slots : slots'[k] = [id |-> x, desc |-> pending'[x]]
    OBVIOUS
  <2>1. CASE x = id
    BY <2>1, <1>1, <1>4, <1>5
  <2>2. CASE x # id
    <3>1. PICK k \in Slots : slots[k] = [id |-> x, desc |-> pending[x]]
      BY <2>2, <1>5 DEF Match
    <3>2. k # i
      BY <3>1, <1>1, RoutingAssumption
    <3> QED BY <3>1, <3>2, <2>2, <1>4, <1>5
  <2> QED BY <2>1, <2>2
<1>8. (\A k \in Slots : slots[k].id # NullId => pending[slots[k].id] # NoDesc)'
  <2> SUFFICES ASSUME NEW k \in Slots, slots'[k].id # NullId
               PROVE  pending'[slots'[k].id] # NoDesc
    OBVIOUS
  <2>1. CASE k = i
    BY <2>1, <1>4, <1>5, DescsNotEmpty
  <2>2. CASE k # i
    BY <2>2, <1>4, <1>5, DescsNotEmpty DEF Match, TableType
  <2> QED BY <2>1, <2>2
<1> QED BY <1>6, <1>7, <1>8 DEF Match

\* A slot without an id may change its description: neither side of Match sees it.
LEMMA FreeSlotMatch ==
  ASSUME TableType, Match, NEW i \in Slots, NEW s, slots[i].id = NullId, s.id = NullId,
         slots' = [slots EXCEPT ![i] = s], UNCHANGED pending
  PROVE  Match'
<1>1. \A k \in Slots : slots'[k] = IF k = i THEN s ELSE slots[k]
  BY DEF TableType
<1>2. (\A k, j \in Slots : slots[k].id = slots[j].id /\ slots[k].id # NullId => k = j)'
  BY <1>1 DEF Match
<1>3. (\A x \in Ids : pending[x] # NoDesc =>
         \E k \in Slots : slots[k] = [id |-> x, desc |-> pending[x]])'
  <2> SUFFICES ASSUME NEW x \in Ids, pending[x] # NoDesc
               PROVE  \E k \in Slots : slots'[k] = [id |-> x, desc |-> pending[x]]
    OBVIOUS
  <2>1. PICK k \in Slots : slots[k] = [id |-> x, desc |-> pending[x]]
    BY DEF Match
  <2>2. k # i
    BY <2>1, RoutingAssumption
  <2> QED BY <2>1, <2>2, <1>1
<1>4. (\A k \in Slots : slots[k].id # NullId => pending[slots[k].id] # NoDesc)'
  BY <1>1 DEF Match
<1> QED BY <1>2, <1>3, <1>4 DEF Match

LEMMA RequestMatch ==
  ASSUME NEW d \in Descs, TableType, Match, Request(d)
  PROVE  Match'
<1>1. CASE NoneFree
  BY <1>1 DEF NoneFree, reqs, Match
<1>2. ASSUME NEW i \in FirstFree, Sent(i, d) PROVE Match'
  BY <1>2, SentMatch
<1>3. ASSUME NEW i \in FirstFree, Released(i) PROVE Match'
  BY <1>3, ReleasedFrees, FreeSlotMatch DEF FirstFree, FreeSlots, FreeSlot
<1> QED BY <1>1, <1>2, <1>3 DEF Request

LEMMA RequestNoReleaseMatch ==
  ASSUME ~WritesIdOnError, NEW d \in Descs, TableType, Match, RequestNoRelease(d)
  PROVE  Match'
<1>1. CASE NoneFree
  BY <1>1 DEF NoneFree, reqs, Match
<1>2. ASSUME NEW i \in FirstFree, Sent(i, d) PROVE Match'
  BY <1>2, SentMatch
<1>3. ASSUME NEW i \in FirstFree, Abandoned(i, d) PROVE Match'
  <2>1. i \in Slots /\ slots[i].id = NullId
    BY DEF FirstFree, FreeSlots
  <2>2. slots' = [slots EXCEPT ![i] = [id |-> NullId, desc |-> d]] /\ UNCHANGED pending
    BY <1>3, WrittenId DEF Abandoned
  <2> QED BY <2>1, <2>2, FreeSlotMatch
<1> QED BY <1>1, <1>2, <1>3 DEF RequestNoRelease

LEMMA OnResponseMatch ==
  ASSUME NEW id \in Ids, TableType, Match, pending[id] # NoDesc, OnResponse(id),
         pending' = [pending EXCEPT ![id] = NoDesc]
  PROVE  Match'
<1>1. PICK i \in Slots : slots[i] = [id |-> id, desc |-> pending[id]]
  BY DEF Match
<1>2. \A k \in Slots : slots[k].id = id => k = i
  BY <1>1, RoutingAssumption DEF Match
<1>3. slots' = [slots EXCEPT ![i] = FreeSlot]
  BY <1>1, <1>2 DEF OnResponse, Release
<1>4. \A k \in Slots : slots'[k] = IF k = i THEN FreeSlot ELSE slots[k]
  BY <1>3 DEF TableType
<1>5. \A x \in Ids : pending'[x] = IF x = id THEN NoDesc ELSE pending[x]
  BY DEF TableType
<1>6. (\A k, j \in Slots : slots[k].id = slots[j].id /\ slots[k].id # NullId => k = j)'
  BY <1>4 DEF Match, FreeSlot
<1>7. (\A x \in Ids : pending[x] # NoDesc =>
         \E k \in Slots : slots[k] = [id |-> x, desc |-> pending[x]])'
  <2> SUFFICES ASSUME NEW x \in Ids, pending'[x] # NoDesc
               PROVE  \E k \in Slots : slots'[k] = [id |-> x, desc |-> pending'[x]]
    OBVIOUS
  <2>1. x # id /\ pending'[x] = pending[x]
    BY <1>5
  <2>2. PICK k \in Slots : slots[k] = [id |-> x, desc |-> pending[x]]
    BY <2>1 DEF Match
  <2>3. k # i
    BY <2>1, <2>2, <1>1
  <2> QED BY <2>1, <2>2, <2>3, <1>4
<1>8. (\A k \in Slots : slots[k].id # NullId => pending[slots[k].id] # NoDesc)'
  <2> SUFFICES ASSUME NEW k \in Slots, slots'[k].id # NullId
               PROVE  pending'[slots'[k].id] # NoDesc
    OBVIOUS
  <2>1. k # i
    BY <1>4 DEF FreeSlot
  <2>2. slots'[k] = slots[k] /\ slots[k].id # id /\ slots[k].id \in Ids
    BY <2>1, <1>2, <1>4 DEF TableType
  <2> QED BY <2>2, <1>5 DEF Match
<1> QED BY <1>6, <1>7, <1>8 DEF Match

\* What an update does, seen from the components it sends requests for.
UpdateWrites(sent, slotOf, idOf) ==
  /\ \A c, d \in sent : c # d => slotOf[c] # slotOf[d] /\ idOf[c] # idOf[d]
  /\ \A c \in sent : /\ slotOf[c] \in Slots /\ slots[slotOf[c]].id = NullId
                     /\ idOf[c] \in Ids /\ pending[idOf[c]] = NoDesc
  /\ \A c \in sent : slots'[slotOf[c]] = [id |-> idOf[c], desc |-> <<"Update", c>>]
  /\ \A c \in sent : slots'[slotOf[c]].id = idOf[c]
  /\ \A k \in Slots : (\A c \in sent : slotOf[c] # k) =>
       slots'[k] = slots[k] \/ (slots[k].id = NullId /\ slots'[k].id = NullId)
  /\ \A c \in sent : pending'[idOf[c]] = <<"Update", c>>
  /\ \A x \in Ids : (\A c \in sent : idOf[c] # x) => pending'[x] = pending[x]

LEMMA UpdateEffect ==
  ASSUME NEW st \in SUBSET Components, Update(st)
  PROVE  \E sent, slotOf, idOf : UpdateWrites(sent, slotOf, idOf)
<1>1. PICK sent \in SUBSET st :
        \E slotOf \in [sent -> FreeSlots], idOf \in [sent -> FreshIds],
           refused \in SUBSET FreeSlots, wrote \in Written :
          /\ \A c, d \in sent : c < d => slotOf[c] < slotOf[d] /\ idOf[c] # idOf[d]
          /\ Updated(sent, slotOf, idOf, refused, wrote)
  BY DEF Update
<1>2. PICK slotOf \in [sent -> FreeSlots], idOf \in [sent -> FreshIds],
           refused \in SUBSET FreeSlots, wrote \in Written :
        /\ \A c, d \in sent : c < d => slotOf[c] < slotOf[d] /\ idOf[c] # idOf[d]
        /\ Updated(sent, slotOf, idOf, refused, wrote)
  BY <1>1
<1>3. \A c, d \in sent : c # d => slotOf[c] # slotOf[d] /\ idOf[c] # idOf[d]
  <2> TAKE c, d \in sent
  <2>1. c \in Nat /\ d \in Nat
    BY DEF Components
  <2>2. slotOf[c] \in Nat /\ slotOf[d] \in Nat
    BY DEF FreeSlots, Slots
  <2>3. CASE c < d
    BY <2>3, <2>2, <1>2
  <2>4. CASE d < c
    BY <2>4, <2>2, <1>2
  <2> QED BY <2>1, <2>3, <2>4
<1>4. \A c \in sent : /\ slotOf[c] \in Slots /\ slots[slotOf[c]].id = NullId
                      /\ idOf[c] \in Ids /\ pending[idOf[c]] = NoDesc
  BY DEF FreeSlots, FreshIds
<1>5. \A c \in sent : slots'[slotOf[c]] = [id |-> idOf[c], desc |-> <<"Update", c>>]
  BY <1>2, <1>3, <1>4 DEF Updated
<1>5a. \A c \in sent : slots'[slotOf[c]].id = idOf[c]
  <2> TAKE c \in sent
  <2> DEFINE r == [id |-> idOf[c], desc |-> <<"Update", c>>]
  <2>1. slots'[slotOf[c]] = r
    BY <1>5
  <2>2. r.id = idOf[c]
    OBVIOUS
  <2> HIDE DEF r
  <2> QED BY <2>1, <2>2
<1>6. \A k \in Slots : (\A c \in sent : slotOf[c] # k) =>
        slots'[k] = slots[k] \/ (slots[k].id = NullId /\ slots'[k].id = NullId)
  <2> SUFFICES ASSUME NEW k \in Slots, \A c \in sent : slotOf[c] # k
               PROVE  slots'[k] = slots[k] \/ (slots[k].id = NullId /\ slots'[k].id = NullId)
    OBVIOUS
  <2>1. CASE k \in refused
    <3>1. slots[k].id = NullId
      BY <2>1 DEF FreeSlots
    <3>2. slots'[k] = FreeSlot
      BY <1>2, <2>1 DEF Updated, Release
    <3> QED BY <3>1, <3>2 DEF FreeSlot
  <2>2. CASE k \notin refused
    BY <1>2, <2>2 DEF Updated
  <2> QED BY <2>1, <2>2
<1>7. \A c \in sent : pending'[idOf[c]] = <<"Update", c>>
  BY <1>2, <1>3, <1>4 DEF Updated
<1>8. \A x \in Ids : (\A c \in sent : idOf[c] # x) => pending'[x] = pending[x]
  BY <1>2 DEF Updated
<1> QED BY <1>3, <1>4, <1>5, <1>5a, <1>6, <1>7, <1>8 DEF UpdateWrites

LEMMA UpdateMatch ==
  ASSUME NEW st \in SUBSET Components, TableType, Match, Update(st)
  PROVE  Match'
<1>1. PICK sent, slotOf, idOf : UpdateWrites(sent, slotOf, idOf)
  BY UpdateEffect
<1>3. \A c, d \in sent : c # d => slotOf[c] # slotOf[d] /\ idOf[c] # idOf[d]
  BY <1>1 DEF UpdateWrites
<1>4. \A c \in sent : /\ slotOf[c] \in Slots /\ slots[slotOf[c]].id = NullId
                      /\ idOf[c] \in Ids /\ pending[idOf[c]] = NoDesc
  BY <1>1 DEF UpdateWrites
<1>5. \A c \in sent : slots'[slotOf[c]] = [id |-> idOf[c], desc |-> <<"Update", c>>]
  BY <1>1 DEF UpdateWrites
<1>5a. \A c \in sent : slots'[slotOf[c]].id = idOf[c]
  BY <1>1 DEF UpdateWrites
<1>6. \A k \in Slots : (\A c \in sent : slotOf[c] # k) =>
        slots'[k] = slots[k] \/ (slots[k].id = NullId /\ slots'[k].id = NullId)
  BY <1>1 DEF UpdateWrites
<1>7. \A c \in sent : pending'[idOf[c]] = <<"Update", c>>
  BY <1>1 DEF UpdateWrites
<1>8. \A x \in Ids : (\A c \in sent : idOf[c] # x) => pending'[x] = pending[x]
  BY <1>1 DEF UpdateWrites
<1>9. \A c \in sent, k \in Slots : slots[k].id # idOf[c]
  BY <1>4 DEF Match, TableType
<1>10. (\A k, j \in Slots : slots[k].id = slots[j].id /\ slots[k].id # NullId => k = j)'
  <2> SUFFICES ASSUME NEW k \in Slots, NEW j \in Slots, slots'[k].id = slots'[j].id,
                      slots'[k].id # NullId
               PROVE  k = j
    OBVIOUS
  <2>1. CASE \E c \in sent : slotOf[c] = k
    <3>1. PICK c \in sent : slotOf[c] = k
      BY <2>1
    <3>2. slots'[k].id = idOf[c]
      BY <3>1, <1>5a
    <3>3. CASE \E d \in sent : slotOf[d] = j
      <4>1. PICK d \in sent : slotOf[d] = j
        BY <3>3
      <4>2. slots'[j].id = idOf[d]
        BY <4>1, <1>5a
      <4>3. idOf[c] = idOf[d]
        BY <3>2, <4>2
      <4> QED BY <4>1, <4>3, <3>1, <1>3
    <3>4. CASE \A d \in sent : slotOf[d] # j
      <4>1. slots'[j] = slots[j]
        BY <3>4, <1>6
      <4>2. slots[j].id = idOf[c]
        BY <3>2, <4>1
      <4> QED BY <4>2, <1>9
    <3> QED BY <3>3, <3>4
  <2>2. CASE \A c \in sent : slotOf[c] # k
    <3>1. slots'[k] = slots[k]
      BY <2>2, <1>6
    <3>2. CASE \E d \in sent : slotOf[d] = j
      <4>1. PICK d \in sent : slotOf[d] = j
        BY <3>2
      <4>2. slots'[j].id = idOf[d]
        BY <4>1, <1>5a
      <4>3. slots[k].id = idOf[d]
        BY <3>1, <4>2
      <4> QED BY <4>3, <1>9
    <3>3. CASE \A d \in sent : slotOf[d] # j
      BY <3>1, <3>3, <1>6 DEF Match
    <3> QED BY <3>2, <3>3
  <2> QED BY <2>1, <2>2
<1>11. (\A x \in Ids : pending[x] # NoDesc =>
          \E k \in Slots : slots[k] = [id |-> x, desc |-> pending[x]])'
  <2> SUFFICES ASSUME NEW x \in Ids, pending'[x] # NoDesc
               PROVE  \E k \in Slots : slots'[k] = [id |-> x, desc |-> pending'[x]]
    OBVIOUS
  <2>1. CASE \E c \in sent : idOf[c] = x
    BY <2>1, <1>4, <1>5, <1>7
  <2>2. CASE \A c \in sent : idOf[c] # x
    <3>1. pending'[x] = pending[x]
      BY <2>2, <1>8
    <3>2. PICK k \in Slots : slots[k] = [id |-> x, desc |-> pending[x]]
      BY <3>1 DEF Match
    <3>3. \A c \in sent : slotOf[c] # k
      BY <3>2, <1>4, RoutingAssumption
    <3> QED BY <3>1, <3>2, <3>3, <1>6
  <2> QED BY <2>1, <2>2
<1>12. (\A k \in Slots : slots[k].id # NullId => pending[slots[k].id] # NoDesc)'
  <2> SUFFICES ASSUME NEW k \in Slots, slots'[k].id # NullId
               PROVE  pending'[slots'[k].id] # NoDesc
    OBVIOUS
  <2>1. CASE \E c \in sent : slotOf[c] = k
    <3>1. PICK c \in sent : slotOf[c] = k
      BY <2>1
    <3>2. pending'[slots'[k].id] = <<"Update", c>>
      <4>1. slots'[k].id = idOf[c]
        BY <3>1, <1>5a
      <4> QED BY <4>1, <1>7
    <3> QED BY <3>2 DEF NoDesc
  <2>2. CASE \A c \in sent : slotOf[c] # k
    <3>1. slots'[k] = slots[k] /\ slots[k].id \in Ids
      BY <2>2, <1>6 DEF TableType
    <3> QED BY <3>1, <1>8, <1>9 DEF Match
  <2> QED BY <2>1, <2>2
<1> QED BY <1>10, <1>11, <1>12 DEF Match

LEMMA OnChannelMatch ==
  ASSUME NEW n, NEW d \in Descs, TableType, Match, OnChannel(n, d)
  PROVE  Match'
<1>1. CASE UNCHANGED reqs
  BY <1>1 DEF reqs, Match
<1>2. CASE Request(d)
  BY <1>2, RequestMatch
<1> QED BY <1>1, <1>2 DEF OnChannel

LEMMA RequestCommandMatch ==
  ASSUME ~WritesIdOnError, TableType, Match, RequestCommand
  PROVE  Match'
<1> USE DEF Descs, OpNames
<1>1. CASE UNCHANGED reqs
  BY <1>1 DEF reqs, Match
<1>2. ASSUME NEW d \in Descs, Request(d) PROVE Match'
  BY <1>2, RequestMatch
<1>3. ASSUME NEW d \in Descs, RequestNoRelease(d) PROVE Match'
  BY <1>3, RequestNoReleaseMatch
<1>4. ASSUME NEW n, NEW d \in Descs, OnChannel(n, d) PROVE Match'
  BY <1>4, OnChannelMatch
<1> QED BY <1>1, <1>2, <1>3, <1>4
  DEF RequestCommand, dr_test_ping, dr_test_store_config, dr_test_clear_config,
      dr_test_query_capabilities, dr_test_set_performance, dr_test_set_lockdown,
      dr_test_set_network_loopback, dr_test_remove_txlabel,
      dr_test_rxchannel_subscribe, dr_test_rxchannel_set_name,
      dr_test_rxchannel_set_muted, dr_test_txchannel_set_muted,
      dr_test_txchannel_set_enabled, dr_test_add_txlabel,
      dr_test_remove_txlabel_from_channel

LEMMA StateChangedMatch ==
  ASSUME NEW s, TableType, Match, OnDeviceStateChanged(s), stale' \subseteq Components
  PROVE  Match'
<1>1. <<"QueryCapabilities">> \in Descs
  BY DEF Descs, OpNames
<1>2. CASE Request(<<"QueryCapabilities">>)
  BY <1>1, <1>2, RequestMatch
<1>3. CASE Update(stale')
  BY <1>3, UpdateMatch
<1>4. CASE UNCHANGED reqs
  BY <1>4 DEF reqs, Match
<1> QED BY <1>2, <1>3, <1>4 DEF OnDeviceStateChanged, reqs

-----------------------------------------------------------------------------
(* Type correctness. *)

LEMMA TypeOKTable == TypeOK => TableType
BY DEF TypeOK, TableType

\* The same table is well typed.
LEMMA TableUnchanged ==
  ASSUME TableType, UNCHANGED reqs
  PROVE  TableType'
BY DEF TableType, reqs

\* Every step leaves the request table well typed.
LEMMA NextTableType ==
  ASSUME TypeOK, [Next]_vars
  PROVE  TableType'
<1>0. TableType
  BY TypeOKTable
<1>1. CASE UNCHANGED reqs
  BY <1>0, <1>1, TableUnchanged
<1>2. CASE Open
  <2>1. CASE OnDeviceStateChanged(devState') /\ stale' = Components
    BY <1>0, <2>1, StateChangedType
  <2>2. CASE UNCHANGED reqs
    BY <2>2, <1>1
  <2> QED BY <1>2, <2>1, <2>2 DEF Open, idle, reqs
<1>3. ASSUME NEW id \in Ids, Response(id) PROVE TableType'
  BY <1>0, <1>3, OnResponseType DEF Response
<1>4. ASSUME NEW s \in DevStates, DeviceChanged(s) PROVE TableType'
  <2>1. stale' \subseteq Components
    BY <1>4 DEF DeviceChanged, DeviceEnters, TypeOK
  <2> QED BY <1>0, <1>4, <2>1, StateChangedType DEF DeviceChanged
<1>5. CASE RequestCommand
  BY <1>0, <1>5, RequestCommandType
<1>6. CASE UpdateCommand
  <2>1. stale' \subseteq Components
    BY <1>6 DEF UpdateCommand, AllMarked, TypeOK
  <2> QED BY <1>0, <1>6, <2>1, UpdateType DEF UpdateCommand
<1>7. CASE RxflowErrorsCommand
  <2>1. <<"UpdateRxflowErrors">> \in Descs
    BY DEF Descs, OpNames
  <2>2. CASE dr_test_update_rxflow_errors
    BY <1>0, <2>1, <2>2, RequestType DEF dr_test_update_rxflow_errors
  <2> QED BY <1>1, <1>7, <2>2 DEF RxflowErrorsCommand
<1>8. CASE FallThrough
  BY <1>0, <1>8, UpdateType DEF FallThrough, TypeOK
<1>9. CASE RenameCommand
  BY <1>0, <1>9 DEF RenameCommand, dr_test_rename, TableType
<1>10. CASE Cleanup
  BY <1>0, <1>10 DEF Cleanup, TableType
<1>11. CASE EnvSetup \/ DevicesNew \/ SetOptions
  BY <1>1, <1>11 DEF EnvSetup, DevicesNew, SetOptions, idle, reqs
<1>12. CASE Loop
  BY <1>1, <1>12
  DEF Loop, StartLoop, Top, SelectIdle, SelectReady, ProcessReturns, NoInput, rest, reqs
<1>13. CASE Operator \/ MarkCommand \/ QuitCommand \/ Finished \/ UNCHANGED vars
  BY <1>1, <1>13 DEF Operator, ReadLine, MarkCommand, QuitCommand, Finished, vars, rest, reqs
<1>14. ASSUME NEW c \in Components, ComponentChanged(c) PROVE TableType'
  BY <1>1, <1>14 DEF ComponentChanged, reqs
<1>15. ASSUME NEW S \in SUBSET Socks, SocketsChanged(S) PROVE TableType'
  BY <1>1, <1>15 DEF SocketsChanged, reqs
<1> QED BY <1>2, <1>3, <1>4, <1>5, <1>6, <1>7, <1>8, <1>9, <1>10, <1>11, <1>12, <1>13,
           <1>14, <1>15 DEF Next, Setup, ProcessLine, Library

\* The state of the program and of the library's device apart from the table.
RestType ==
  /\ pc \in InLoop \cup {"env", "devices", "options", "open", "cleanup", "done"}
  /\ running \in BOOLEAN
  /\ buf \in Lines \cup {NoLine}
  /\ ptrs \subseteq Handles
  /\ live \subseteq Handles
  /\ stale \subseteq Components
  /\ devState \in DevStates
  /\ chans \in Counts
  /\ devChans \in Counts
  /\ socketsChanged \in BOOLEAN
  /\ allSockets \subseteq Socks \cup {StdIn}
  /\ devSockets \subseteq Socks
  /\ ready \subseteq Socks \cup {StdIn}

LEMMA NextRestType ==
  ASSUME TypeOK, [Next]_vars
  PROVE  RestType'
<1> USE DEF TypeOK, RestType, InLoop
<1>0. NoChannels \in Counts
  BY DEF NoChannels, Counts
<1>1. CASE EnvSetup \/ DevicesNew \/ SetOptions
  BY <1>1 DEF EnvSetup, DevicesNew, SetOptions, Create, idle, Handles
<1>2. CASE Open
  BY <1>0, <1>2 DEF Open, idle, Handles, OnDeviceStateChanged
<1>3. CASE Loop
  BY <1>3 DEF Loop, StartLoop, Top, UpdateSockets, SelectIdle, SelectReady, ProcessReturns,
              NoInput, rest
<1>4. CASE Library
  <2>1. ASSUME NEW id \in Ids, Response(id) PROVE RestType'
    BY <2>1 DEF Response
  <2>2. ASSUME NEW s \in DevStates, DeviceChanged(s) PROVE RestType'
    BY <2>2 DEF DeviceChanged, DeviceEnters, OnDeviceStateChanged
  <2>3. ASSUME NEW c \in Components, ComponentChanged(c) PROVE RestType'
    BY <2>3 DEF ComponentChanged
  <2>4. ASSUME NEW S \in SUBSET Socks, SocketsChanged(S) PROVE RestType'
    BY <2>4 DEF SocketsChanged
  <2> QED BY <1>4, <2>1, <2>2, <2>3, <2>4 DEF Library
<1>5. CASE Operator
  BY <1>5 DEF Operator, ReadLine, rest
<1>6. CASE RequestCommand \/ MarkCommand \/ UpdateCommand \/ RxflowErrorsCommand \/ FallThrough
  BY <1>6 DEF RequestCommand, MarkCommand, UpdateCommand, RxflowErrorsCommand, FallThrough,
              NextLine, atRest, AllMarked
<1>7. CASE RenameCommand \/ QuitCommand
  BY <1>7 DEF RenameCommand, QuitCommand, NextLine, dr_test_rename
<1>8. CASE Cleanup
  BY <1>8 DEF Cleanup
<1>9. CASE Finished \/ UNCHANGED vars
  BY <1>9 DEF Finished, vars
<1> QED BY <1>1, <1>2, <1>3, <1>4, <1>5, <1>6, <1>7, <1>8, <1>9
  DEF Next, Setup, ProcessLine

\* Every variable keeps its type, whatever the constants.
THEOREM TypeCorrect == Spec => []TypeOK
<1>1. Init => TypeOK
  <2> SUFFICES ASSUME Init PROVE TypeOK
    OBVIOUS
  <2>1. NoChannels \in Counts
    BY DEF NoChannels, Counts
  <2>2. slots \in [Slots -> [id : Ids \cup {NullId}, desc : Descs \cup {NoDesc}]]
    BY DEF Init, FreeSlot
  <2>3. pending \in [Ids -> Descs \cup {NoDesc}]
    BY DEF Init
  <2> QED BY <2>1, <2>2, <2>3 DEF Init, TypeOK, DevStates
<1>2. TypeOK /\ [Next]_vars => TypeOK'
  BY NextTableType, NextRestType DEF TypeOK, TableType, RestType
<1> QED BY <1>1, <1>2, PTL DEF Spec

-----------------------------------------------------------------------------
(* The handles main owns. *)

SetupPcs == {"env", "devices", "options", "open"}

\* HandlesSound, and no device before dr_test_open.
HandleInv == HandlesSound /\ (pc \in SetupPcs => ~DeviceIsOpen)

LEMMA NextHandleInv ==
  ASSUME TypeOK, HandleInv, [Next]_vars
  PROVE  HandleInv'
<1> USE DEF HandleInv, HandlesSound, DeviceIsOpen, SetupPcs, InLoop
<1>1. CASE EnvSetup \/ DevicesNew \/ SetOptions
  BY <1>1 DEF EnvSetup, DevicesNew, SetOptions, Create, idle
<1>2. CASE Open
  BY <1>2 DEF Open, idle
<1>3. CASE Loop
  BY <1>3 DEF Loop, StartLoop, Top, SelectIdle, SelectReady, ProcessReturns, NoInput, rest
<1>4. CASE Library
  BY <1>4 DEF Library, Response, DeviceChanged, ComponentChanged, SocketsChanged
<1>5. CASE Operator
  BY <1>5 DEF Operator, ReadLine, rest
<1>6. CASE RequestCommand \/ MarkCommand \/ UpdateCommand \/ RxflowErrorsCommand \/ FallThrough
  BY <1>6 DEF RequestCommand, MarkCommand, UpdateCommand, RxflowErrorsCommand, FallThrough,
              NextLine, atRest
<1>7. CASE RenameCommand
  BY <1>7 DEF RenameCommand, dr_test_rename
<1>8. CASE QuitCommand
  BY <1>8 DEF QuitCommand, NextLine
<1>9. CASE Cleanup
  BY <1>9 DEF Cleanup
<1>10. CASE Finished \/ UNCHANGED vars
  BY <1>10 DEF Finished, vars
<1> QED BY <1>1, <1>2, <1>3, <1>4, <1>5, <1>6, <1>7, <1>8, <1>9, <1>10
  DEF Next, Setup, ProcessLine

LEMMA HandleInvariant == Spec => []HandleInv
<1>1. Init => HandleInv
  BY DEF Init, HandleInv, HandlesSound, DeviceIsOpen, InLoop
<1>2. TypeOK /\ HandleInv /\ [Next]_vars => HandleInv'
  BY NextHandleInv
<1> QED BY <1>1, <1>2, TypeCorrect, PTL DEF Spec

\* No handle is used after it was closed or closed twice, the loop always has its device,
\* and main leaves nothing behind: renaming, failing and quitting included.
THEOREM HandlesAreSound == Spec => []HandlesSound
<1>1. HandleInv => HandlesSound
  BY DEF HandleInv
<1> QED BY <1>1, HandleInvariant, PTL

-----------------------------------------------------------------------------
(* The table agrees with the library for as long as there is a device. *)

TableInv == pc \in SetupPcs \/ DeviceIsOpen => Match

LEMMA NextTableInv ==
  ASSUME ~WritesIdOnError, TypeOK, HandleInv, TableInv, [Next]_vars
  PROVE  TableInv'
<1>0. TableType
  BY TypeOKTable
<1>a. ASSUME Match' PROVE TableInv'
  BY <1>a DEF TableInv
<1>b. ASSUME Match, UNCHANGED reqs PROVE TableInv'
  BY <1>b, <1>a DEF Match, reqs
<1>1. CASE EnvSetup \/ DevicesNew \/ SetOptions
  <2>1. Match
    BY <1>1 DEF TableInv, SetupPcs, EnvSetup, DevicesNew, SetOptions, Create
  <2> QED BY <1>1, <1>b, <2>1 DEF EnvSetup, DevicesNew, SetOptions, idle, reqs
<1>2. CASE Open
  <2>1. Match
    BY <1>2 DEF TableInv, SetupPcs, Open
  <2>2. CASE OnDeviceStateChanged(devState') /\ stale' = Components
    BY <1>0, <1>a, <2>1, <2>2, StateChangedMatch
  <2>3. CASE UNCHANGED reqs
    BY <1>b, <2>1, <2>3
  <2> QED BY <1>2, <2>2, <2>3 DEF Open, idle, reqs
<1>3. CASE pc \in InLoop
  <2>0. Match
    BY <1>3 DEF HandleInv, HandlesSound, TableInv
  <2>1. ASSUME NEW id \in Ids, Response(id) PROVE TableInv'
    BY <1>0, <1>a, <2>0, <2>1, OnResponseMatch DEF Response
  <2>2. ASSUME NEW s \in DevStates, DeviceChanged(s) PROVE TableInv'
    <3>1. stale' \subseteq Components
      BY <2>2 DEF DeviceChanged, DeviceEnters, TypeOK
    <3> QED BY <1>0, <1>a, <2>0, <2>2, <3>1, StateChangedMatch DEF DeviceChanged
  <2>3. CASE RequestCommand
    BY <1>0, <1>a, <2>0, <2>3, RequestCommandMatch
  <2>4. CASE UpdateCommand
    <3>1. stale' \subseteq Components
      BY <2>4 DEF UpdateCommand, AllMarked, TypeOK
    <3> QED BY <1>0, <1>a, <2>0, <2>4, <3>1, UpdateMatch DEF UpdateCommand
  <2>5. CASE RxflowErrorsCommand
    <3>1. <<"UpdateRxflowErrors">> \in Descs
      BY DEF Descs, OpNames
    <3>2. CASE dr_test_update_rxflow_errors
      BY <1>0, <1>a, <2>0, <3>1, <3>2, RequestMatch DEF dr_test_update_rxflow_errors
    <3> QED BY <1>b, <2>0, <2>5, <3>2 DEF RxflowErrorsCommand
  <2>6. CASE FallThrough
    BY <1>0, <1>a, <2>0, <2>6, UpdateMatch DEF FallThrough, TypeOK
  <2>7. CASE RenameCommand
    <3>1. CASE UNCHANGED pending
      BY <1>b, <2>0, <2>7, <3>1 DEF RenameCommand, reqs
    <3>2. CASE ~DeviceIsOpen'
      BY <2>7, <3>2 DEF RenameCommand, TableInv, SetupPcs
    <3> QED BY <2>7, <3>1, <3>2 DEF RenameCommand, dr_test_rename, DeviceIsOpen
  <2>8. CASE Loop \/ Operator \/ MarkCommand \/ QuitCommand \/ Finished \/ UNCHANGED vars
    BY <1>b, <2>0, <2>8
    DEF Loop, StartLoop, Top, SelectIdle, SelectReady, ProcessReturns, NoInput, Operator,
        ReadLine, MarkCommand, QuitCommand, Finished, vars, rest, reqs
  <2>9. ASSUME NEW c \in Components, ComponentChanged(c) PROVE TableInv'
    BY <1>b, <2>0, <2>9 DEF ComponentChanged, reqs
  <2>10. ASSUME NEW S \in SUBSET Socks, SocketsChanged(S) PROVE TableInv'
    BY <1>b, <2>0, <2>10 DEF SocketsChanged, reqs
  <2>11. ~Cleanup
    BY <1>3 DEF Cleanup, InLoop
  <2> QED BY <1>1, <1>2, <2>1, <2>2, <2>3, <2>4, <2>5, <2>6, <2>7, <2>8, <2>9, <2>10, <2>11
    DEF Next, Setup, ProcessLine, Library
<1>4. CASE Cleanup
  BY <1>4 DEF Cleanup, TableInv, SetupPcs, DeviceIsOpen, HandleInv, HandlesSound
<1>5. CASE Finished \/ UNCHANGED vars
  BY <1>5 DEF Finished, vars, TableInv, DeviceIsOpen, Match
<1>6. pc \in InLoop \/ EnvSetup \/ DevicesNew \/ SetOptions \/ Open \/ Cleanup \/ Finished
      \/ UNCHANGED vars
  BY DEF Next, Setup, ProcessLine, Library, Loop, Operator, InLoop, StartLoop, Top, SelectIdle,
         SelectReady, ProcessReturns, NoInput, ReadLine, MarkCommand, QuitCommand,
         RequestCommand, UpdateCommand, RxflowErrorsCommand, FallThrough, RenameCommand,
         Response, DeviceChanged, ComponentChanged, SocketsChanged, Processing
<1> QED BY <1>1, <1>2, <1>3, <1>4, <1>5, <1>6

LEMMA TableInvariant == ~WritesIdOnError => (Spec => []TableInv)
<1> SUFFICES ASSUME ~WritesIdOnError PROVE Spec => []TableInv
  OBVIOUS
<1>1. Init => TableInv
  BY DEF Init, TableInv, Match, FreeSlot
<1>2. TypeOK /\ HandleInv /\ TableInv /\ [Next]_vars => TableInv'
  BY NextTableInv
<1> QED BY <1>1, <1>2, TypeCorrect, HandleInvariant, PTL DEF Spec

\* When a failed library call writes no id, every completion is announced with the
\* description of the request it completes.
THEOREM CompletionsAreNamed == ~WritesIdOnError => (Spec => []CompletionNamesItsRequest)
<1>1. TypeOK /\ TableInv => CompletionNamesItsRequest
  <2> SUFFICES ASSUME TypeOK, TableInv, DeviceIsOpen, NEW id \in Ids, pending[id] # NoDesc
               PROVE  \E i \in Slots :
                        /\ slots[i] = [id |-> id, desc |-> pending[id]]
                        /\ \A j \in Slots : slots[j].id = id => j = i
    BY DEF CompletionNamesItsRequest
  <2>1. PICK i \in Slots : slots[i] = [id |-> id, desc |-> pending[id]]
    BY DEF TableInv, Match
  <2>2. slots[i].id = id /\ id # NullId
    BY <2>1, RoutingAssumption
  <2> QED BY <2>1, <2>2 DEF TableInv, Match
<1> QED BY <1>1, TableInvariant, TypeCorrect, PTL

-----------------------------------------------------------------------------
(* The channel arrays. *)

ChannelsInv ==
  /\ ChannelsCurrent
  /\ pc \in SetupPcs => chans = NoChannels /\ devChans = NoChannels

LEMMA NextChannelsInv ==
  ASSUME ChannelsInv, [Next]_vars
  PROVE  ChannelsInv'
<1> USE DEF ChannelsInv, ChannelsCurrent, SetupPcs, InLoop
<1>1. CASE EnvSetup \/ DevicesNew \/ SetOptions
  BY <1>1 DEF EnvSetup, DevicesNew, SetOptions, Create, idle
<1>2. CASE Open
  <2>1. CASE pc' = "start"
    BY <1>2, <2>1 DEF Open, OnDeviceStateChanged
  <2>2. CASE pc' = "cleanup"
    BY <2>2
  <2> QED BY <1>2, <2>1, <2>2 DEF Open
<1>3. CASE Loop
  BY <1>3 DEF Loop, StartLoop, Top, SelectIdle, SelectReady, ProcessReturns, NoInput, rest
<1>4. ASSUME NEW s \in DevStates, DeviceChanged(s) PROVE ChannelsInv'
  <2>1. chans' = devChans'
    BY <1>4 DEF DeviceChanged, DeviceEnters, OnDeviceStateChanged, Processing
  <2> QED BY <1>4, <2>1 DEF DeviceChanged, Processing
<1>5. CASE Library
  BY <1>4, <1>5 DEF Library, Response, ComponentChanged, SocketsChanged
<1>6. CASE Operator
  BY <1>6 DEF Operator, ReadLine, rest
<1>7. CASE ProcessLine
  BY <1>7 DEF ProcessLine, RequestCommand, MarkCommand, UpdateCommand, RxflowErrorsCommand,
              FallThrough, RenameCommand, QuitCommand, NextLine, atRest
<1>8. CASE Cleanup
  BY <1>8 DEF Cleanup
<1>9. CASE Finished \/ UNCHANGED vars
  BY <1>9 DEF Finished, vars
<1> QED BY <1>1, <1>2, <1>3, <1>5, <1>6, <1>7, <1>8, <1>9 DEF Next, Setup

\* However often the device leaves ACTIVE and comes back with other channels, the arrays
\* the commands index are its present ones.
THEOREM ChannelsAreCurrent == Spec => []ChannelsCurrent
<1>1. Init => ChannelsInv
  BY DEF Init, ChannelsInv, ChannelsCurrent, InLoop
<1>2. ChannelsInv /\ [Next]_vars => ChannelsInv'
  BY NextChannelsInv
<1>3. ChannelsInv => ChannelsCurrent
  BY DEF ChannelsInv
<1> QED BY <1>1, <1>2, <1>3, PTL DEF Spec

-----------------------------------------------------------------------------
(* The sockets select() waits for. *)

\* Between two visits of the head of the loop the flag says whether all_sockets is old.
SocketsInv ==
  /\ pc \in InLoop \ {"start"} /\ ~socketsChanged => allSockets = devSockets \cup {StdIn}
  /\ SocketsTracked

LEMMA NextSocketsInv ==
  ASSUME SocketsInv, [Next]_vars
  PROVE  SocketsInv'
<1> USE DEF SocketsInv, SocketsTracked, InLoop
<1>1. CASE Setup
  BY <1>1 DEF Setup, EnvSetup, DevicesNew, SetOptions, Open, Create, idle
<1>2. CASE Loop
  BY <1>2 DEF Loop, StartLoop, Top, UpdateSockets, SelectIdle, SelectReady, ProcessReturns,
              NoInput, rest
<1>3. CASE Library
  BY <1>3 DEF Library, Response, DeviceChanged, ComponentChanged, SocketsChanged, Processing
<1>4. CASE Operator
  BY <1>4 DEF Operator, ReadLine, rest
<1>5. CASE ProcessLine
  BY <1>5 DEF ProcessLine, RequestCommand, MarkCommand, UpdateCommand, RxflowErrorsCommand,
              FallThrough, RenameCommand, QuitCommand, NextLine, atRest
<1>6. CASE Cleanup
  BY <1>6 DEF Cleanup
<1>7. CASE Finished \/ UNCHANGED vars
  BY <1>7 DEF Finished, vars
<1> QED BY <1>1, <1>2, <1>3, <1>4, <1>5, <1>6, <1>7 DEF Next

\* select() never waits for a set of sockets that the library has since changed, except
\* when the library failed to list them, and then the flag makes the loop ask again.
THEOREM SocketsAreTracked == Spec => []SocketsTracked
<1>1. Init => SocketsInv
  BY DEF Init, SocketsInv, SocketsTracked, InLoop
<1>2. SocketsInv /\ [Next]_vars => SocketsInv'
  BY NextSocketsInv
<1>3. SocketsInv => SocketsTracked
  BY DEF SocketsInv
<1> QED BY <1>1, <1>2, <1>3, PTL DEF Spec

-----------------------------------------------------------------------------
(* Whatever the library writes when a call fails. *)

Held == \A id \in Ids : pending[id] # NoDesc => \E i \in Slots : slots[i].id = id

\* Writing free slots only, and holding what is newly in flight, is enough.
LEMMA HeldStep ==
  ASSUME Held,
         \A i \in Slots : slots[i].id # NullId => slots'[i].id = slots[i].id,
         \A id \in Ids : pending'[id] # NoDesc =>
           pending[id] # NoDesc \/ \E i \in Slots : slots'[i].id = id
  PROVE  Held'
BY RoutingAssumption DEF Held

LEMMA SentHeld ==
  ASSUME NEW d, NEW i \in FirstFree, TableType, Held, Sent(i, d)
  PROVE  Held'
<1>1. i \in Slots /\ slots[i].id = NullId
  BY DEF FirstFree, FreeSlots
<1>2. PICK id \in Ids :
        /\ slots' = [slots EXCEPT ![i] = [id |-> id, desc |-> d]]
        /\ pending' = [pending EXCEPT ![id] = d]
  BY DEF Sent, FreshIds
<1>3. \A k \in Slots : slots[k].id # NullId => slots'[k].id = slots[k].id
  BY <1>1, <1>2 DEF TableType
<1>4. slots'[i].id = id
  BY <1>1, <1>2 DEF TableType
<1>5. \A x \in Ids : x # id => pending'[x] = pending[x]
  BY <1>2 DEF TableType
<1> QED BY <1>1, <1>3, <1>4, <1>5, HeldStep

LEMMA FreeSlotHeld ==
  ASSUME NEW i \in FirstFree, NEW s, TableType, Held,
         slots' = [slots EXCEPT ![i] = s], UNCHANGED pending
  PROVE  Held'
<1>1. i \in Slots /\ slots[i].id = NullId
  BY DEF FirstFree, FreeSlots
<1>2. \A k \in Slots : slots[k].id # NullId => slots'[k].id = slots[k].id
  BY <1>1 DEF TableType
<1> QED BY <1>2, HeldStep

LEMMA RequestHeld ==
  ASSUME NEW d, TableType, Held, Request(d) \/ RequestNoRelease(d)
  PROVE  Held'
<1>1. CASE NoneFree
  BY <1>1 DEF NoneFree, reqs, Held
<1>2. ASSUME NEW i \in FirstFree, Sent(i, d) PROVE Held'
  BY <1>2, SentHeld
<1>3. ASSUME NEW i \in FirstFree, Released(i) PROVE Held'
  BY <1>3, ReleasedFrees, FreeSlotHeld
<1>4. ASSUME NEW i \in FirstFree, Abandoned(i, d) PROVE Held'
  BY <1>4, FreeSlotHeld DEF Abandoned
<1> QED BY <1>1, <1>2, <1>3, <1>4 DEF Request, RequestNoRelease

LEMMA UpdateHeld ==
  ASSUME NEW st \in SUBSET Components, TableType, Held, Update(st)
  PROVE  Held'
<1>1. PICK sent, slotOf, idOf : UpdateWrites(sent, slotOf, idOf)
  BY UpdateEffect
<1>2. \A k \in Slots : slots[k].id # NullId => slots'[k].id = slots[k].id
  BY <1>1 DEF UpdateWrites
<1>3. \A x \in Ids : pending'[x] # NoDesc =>
        pending[x] # NoDesc \/ \E k \in Slots : slots'[k].id = x
  BY <1>1 DEF UpdateWrites
<1> QED BY <1>2, <1>3, HeldStep

LEMMA OnResponseHeld ==
  ASSUME NEW id \in Ids, TableType, Held, OnResponse(id),
         pending' = [pending EXCEPT ![id] = NoDesc]
  PROVE  Held'
<1>1. \A k \in Slots : slots[k].id # id => slots'[k].id = slots[k].id
  BY DEF OnResponse, Release, TableType
<1>2. \A x \in Ids : pending'[x] = IF x = id THEN NoDesc ELSE pending[x]
  BY DEF TableType
<1> QED BY <1>1, <1>2 DEF Held

LEMMA StateChangedHeld ==
  ASSUME NEW s, TableType, Held, OnDeviceStateChanged(s), stale' \subseteq Components
  PROVE  Held'
<1>1. CASE UNCHANGED reqs
  BY <1>1 DEF reqs, Held
<1> QED BY <1>1, RequestHeld, UpdateHeld DEF OnDeviceStateChanged, reqs

LEMMA RequestCommandHeld ==
  ASSUME TableType, Held, RequestCommand
  PROVE  Held'
<1>1. CASE UNCHANGED reqs
  BY <1>1 DEF reqs, Held
<1>2. ASSUME NEW d, Request(d) \/ RequestNoRelease(d) PROVE Held'
  BY <1>2, RequestHeld
<1>3. ASSUME NEW n, NEW d, OnChannel(n, d) PROVE Held'
  BY <1>1, <1>2, <1>3 DEF OnChannel
<1> QED BY <1>1, <1>2, <1>3
  DEF RequestCommand, dr_test_ping, dr_test_store_config, dr_test_clear_config,
      dr_test_query_capabilities, dr_test_set_performance, dr_test_set_lockdown,
      dr_test_set_network_loopback, dr_test_remove_txlabel,
      dr_test_rxchannel_subscribe, dr_test_rxchannel_set_name,
      dr_test_rxchannel_set_muted, dr_test_txchannel_set_muted,
      dr_test_txchannel_set_enabled, dr_test_add_txlabel,
      dr_test_remove_txlabel_from_channel

LEMMA NextHeld ==
  ASSUME TypeOK, Held, [Next]_vars
  PROVE  Held'
<1>0. TableType
  BY TypeOKTable
<1>1. CASE UNCHANGED reqs
  BY <1>1 DEF reqs, Held
<1>2. ASSUME NEW d, Request(d) PROVE Held'
  BY <1>0, <1>2, RequestHeld
<1>3. CASE Setup
  BY <1>0, <1>1, <1>3, StateChangedHeld
  DEF Setup, EnvSetup, DevicesNew, SetOptions, Open, idle, reqs
<1>4. CASE Library
  <2>1. ASSUME NEW id \in Ids, Response(id) PROVE Held'
    BY <1>0, <2>1, OnResponseHeld DEF Response
  <2>2. ASSUME NEW s \in DevStates, DeviceChanged(s) PROVE Held'
    <3>1. stale' \subseteq Components
      BY <2>2 DEF DeviceChanged, DeviceEnters, TypeOK
    <3> QED BY <1>0, <2>2, <3>1, StateChangedHeld DEF DeviceChanged
  <2> QED BY <1>1, <1>4, <2>1, <2>2 DEF Library, ComponentChanged, SocketsChanged, reqs
<1>5. CASE RequestCommand
  BY <1>0, <1>5, RequestCommandHeld
<1>6. CASE UpdateCommand \/ FallThrough
  <2>1. stale \subseteq Components /\ stale' \subseteq Components
    BY <1>6 DEF UpdateCommand, FallThrough, AllMarked, TypeOK
  <2> QED BY <1>0, <1>6, <2>1, UpdateHeld DEF UpdateCommand, FallThrough
<1>7. CASE RxflowErrorsCommand
  BY <1>1, <1>2, <1>7 DEF RxflowErrorsCommand, dr_test_update_rxflow_errors
<1>8. CASE RenameCommand \/ Cleanup
  BY <1>8 DEF RenameCommand, dr_test_rename, Cleanup, Held
<1>9. CASE Loop \/ Operator \/ MarkCommand \/ QuitCommand \/ Finished \/ UNCHANGED vars
  BY <1>1, <1>9
  DEF Loop, StartLoop, Top, SelectIdle, SelectReady, ProcessReturns, NoInput, Operator,
      ReadLine, MarkCommand, QuitCommand, Finished, vars, rest, reqs
<1> QED BY <1>3, <1>4, <1>5, <1>6, <1>7, <1>8, <1>9 DEF Next, ProcessLine

\* on_response never meets an id that no slot holds, even if a failed call may write an id
\* and store_config and clear_config then leave it in the table.
THEOREM RequestsAreHeld == Spec => []EveryRequestIsHeld
<1>1. Init => Held
  BY DEF Init, Held
<1>2. TypeOK /\ Held /\ [Next]_vars => Held'
  BY NextHeld
<1>3. Held => EveryRequestIsHeld
  BY DEF Held, EveryRequestIsHeld
<1> QED BY <1>1, <1>2, <1>3, TypeCorrect, PTL DEF Spec

-----------------------------------------------------------------------------
(* The slots that nothing will free, whatever the library writes when a call fails. *)

\* There are as many requests in flight as slots at most, and as many busy slots.
LEMMA CountsOf ==
  ASSUME NEW p \in [Ids -> Descs \cup {NoDesc}],
         NEW s \in [Slots -> [id : Ids \cup {NullId}, desc : Descs \cup {NoDesc}]],
         \A id \in Ids : p[id] # NoDesc => \E i \in Slots : s[i].id = id
  PROVE  LET B == {i \in Slots : s[i].id # NullId}
             F == {id \in Ids : p[id] # NoDesc}
         IN  /\ IsFiniteSet(B) /\ Cardinality(B) \in Nat
             /\ IsFiniteSet(F) /\ Cardinality(F) \in Nat
<1> DEFINE B == {i \in Slots : s[i].id # NullId}
           F == {id \in Ids : p[id] # NoDesc}
           holder == [id \in F |-> CHOOSE i \in Slots : s[i].id = id]
<1>1. IsFiniteSet(Slots)
  BY FS_Interval DEF Slots
<1>2. IsFiniteSet(B)
  BY <1>1, FS_Subset
<1>3. \A id \in F : holder[id] \in Slots /\ s[holder[id]].id = id
  OBVIOUS
<1> HIDE DEF holder
<1>4. holder \in [F -> Slots]
  BY <1>3 DEF holder
<1>5. holder \in Injection(F, Slots)
  BY <1>3, <1>4 DEF Injection, IsInjective
<1>6. IsFiniteSet(F)
  BY <1>1, <1>5, FS_Injection
<1> QED BY <1>2, <1>6, FS_CardinalityType

LEMMA CountsFinite ==
  ASSUME TableType, Held
  PROVE  /\ IsFiniteSet(Busy) /\ Cardinality(Busy) \in Nat
         /\ IsFiniteSet(InFlight) /\ Cardinality(InFlight) \in Nat
BY CountsOf DEF TableType, Held, Busy, InFlight

LEMMA NextCountsFinite ==
  ASSUME TableType', Held'
  PROVE  /\ IsFiniteSet(Busy') /\ Cardinality(Busy') \in Nat
         /\ IsFiniteSet(InFlight') /\ Cardinality(InFlight') \in Nat
BY CountsOf DEF TableType, Held, Busy, InFlight

\* The number of lost slots is a number, before a step and after it.
LEMMA LossIsInteger ==
  /\ TableType /\ Held => SlotsLost \in Int
  /\ TableType' /\ Held' => SlotsLost' \in Int
<1>1. ASSUME TableType, Held PROVE SlotsLost \in Int
  BY <1>1, CountsFinite DEF SlotsLost
<1>2. ASSUME TableType', Held' PROVE SlotsLost' \in Int
  BY <1>2, NextCountsFinite DEF SlotsLost
<1> QED BY <1>1, <1>2

\* A step loses no slot when every slot it makes busy holds an id of its own that the same
\* step puts in flight.
LEMMA LossStep ==
  ASSUME TableType, TableType', Held, Held',
         Busy \subseteq Busy', InFlight \subseteq InFlight',
         \A i \in Busy' \ Busy : slots'[i].id \in InFlight' \ InFlight,
         \A i, j \in Busy' \ Busy : slots'[i].id = slots'[j].id => i = j
  PROVE  SlotsLost' <= SlotsLost
<1> DEFINE New == Busy' \ Busy
           Sending == InFlight' \ InFlight
           f == [i \in New |-> slots'[i].id]
<1>1. /\ IsFiniteSet(Busy) /\ Cardinality(Busy) \in Nat
      /\ IsFiniteSet(InFlight) /\ Cardinality(InFlight) \in Nat
  BY CountsFinite
<1>2. /\ IsFiniteSet(Busy') /\ Cardinality(Busy') \in Nat
      /\ IsFiniteSet(InFlight') /\ Cardinality(InFlight') \in Nat
  BY NextCountsFinite
<1>3. IsFiniteSet(Sending) /\ Cardinality(Sending) = Cardinality(InFlight') - Cardinality(InFlight)
  <2>1. InFlight' \cap InFlight = InFlight
    OBVIOUS
  <2> QED BY <1>2, <2>1, FS_Difference
<1>4. IsFiniteSet(New) /\ Cardinality(New) = Cardinality(Busy') - Cardinality(Busy)
  <2>1. Busy' \cap Busy = Busy
    OBVIOUS
  <2> QED BY <1>2, <2>1, FS_Difference
<1>5. f \in Injection(New, Sending)
  BY DEF Injection, IsInjective
<1> HIDE DEF New, Sending, f
<1>6. Cardinality(New) <= Cardinality(Sending)
  BY <1>3, <1>5, FS_Injection
<1> QED BY <1>1, <1>2, <1>3, <1>4, <1>6 DEF SlotsLost

\* The same table, the same slots lost.
LEMMA UnchangedLoss ==
  ASSUME TableType, Held, UNCHANGED reqs
  PROVE  SlotsLost' <= SlotsLost
<1>1. Busy' = Busy /\ InFlight' = InFlight
  BY DEF Busy, InFlight, reqs
<1> QED BY <1>1, CountsFinite DEF SlotsLost

LEMMA SentLoss ==
  ASSUME NEW d \in Descs, NEW i \in FirstFree, TableType, Held, Sent(i, d)
  PROVE  SlotsLost' <= SlotsLost
<1>1. i \in Slots /\ slots[i].id = NullId
  BY DEF FirstFree, FreeSlots
<1>2. PICK id \in Ids :
        /\ pending[id] = NoDesc
        /\ slots' = [slots EXCEPT ![i] = [id |-> id, desc |-> d]]
        /\ pending' = [pending EXCEPT ![id] = d]
  BY DEF Sent, FreshIds
<1>3. TableType' /\ Held'
  BY SentType, SentHeld
<1>4. slots'[i].id = id /\ (\A k \in Slots : k # i => slots'[k] = slots[k])
  BY <1>1, <1>2 DEF TableType
<1>5. pending'[id] # NoDesc /\ (\A x \in Ids : x # id => pending'[x] = pending[x])
  BY <1>2, DescsNotEmpty DEF TableType
<1>6. Busy \subseteq Busy' /\ Busy' \ Busy \subseteq {i}
  BY <1>1, <1>4 DEF Busy
<1>7. InFlight \subseteq InFlight' /\ id \in InFlight' \ InFlight
  BY <1>2, <1>5 DEF InFlight
<1> QED BY <1>3, <1>4, <1>6, <1>7, LossStep

\* A free slot that stays free loses nothing.
LEMMA FreeSlotLoss ==
  ASSUME NEW i \in FirstFree, NEW s, s.id = NullId, TableType, TableType', Held,
         slots' = [slots EXCEPT ![i] = s], UNCHANGED pending
  PROVE  SlotsLost' <= SlotsLost
<1>1. i \in Slots /\ slots[i].id = NullId
  BY DEF FirstFree, FreeSlots
<1>2. Busy' = Busy
  BY <1>1 DEF Busy, TableType
<1>3. InFlight' = InFlight
  BY DEF InFlight
<1> QED BY <1>2, <1>3, CountsFinite DEF SlotsLost

LEMMA RequestLoss ==
  ASSUME NEW d \in Descs, TableType, Held, Request(d)
  PROVE  SlotsLost' <= SlotsLost
<1>1. CASE NoneFree
  BY <1>1, UnchangedLoss DEF NoneFree
<1>2. ASSUME NEW i \in FirstFree, Sent(i, d) PROVE SlotsLost' <= SlotsLost
  BY <1>2, SentLoss
<1>3. ASSUME NEW i \in FirstFree, Released(i) PROVE SlotsLost' <= SlotsLost
  BY <1>3, RequestType, ReleasedFrees, FreeSlotLoss DEF Request, FreeSlot
<1> QED BY <1>1, <1>2, <1>3 DEF Request

\* store_config and clear_config lose at most the slot they allocated, and only when a
\* failing call may write an id.
LEMMA RequestNoReleaseLoss ==
  ASSUME NEW d \in Descs, TableType, Held, RequestNoRelease(d)
  PROVE  SlotsLost' <= SlotsLost + (IF WritesIdOnError THEN 1 ELSE 0)
<1>0. SlotsLost \in Int
  BY LossIsInteger
<1>1. CASE SlotsLost' <= SlotsLost
  <2>1. TableType' /\ Held'
    BY RequestNoReleaseType, RequestHeld
  <2>2. SlotsLost' \in Int
    BY <2>1, LossIsInteger
  <2> QED BY <1>0, <1>1, <2>2
<1>2. ASSUME NEW i \in FirstFree, Sent(i, d) PROVE SlotsLost' <= SlotsLost
  BY <1>2, SentLoss
<1>3. ASSUME NEW i \in FirstFree, NEW id \in Written, UNCHANGED pending,
             slots' = [slots EXCEPT ![i] = [id |-> id, desc |-> d]]
      PROVE  SlotsLost' <= SlotsLost + (IF WritesIdOnError THEN 1 ELSE 0)
  <2>1. CASE id = NullId
    <3>1. TableType'
      BY RequestNoReleaseType
    <3> QED BY <1>1, <1>3, <2>1, <3>1, FreeSlotLoss
  <2>2. CASE id # NullId
    <3>1. WritesIdOnError
      BY <2>2, WrittenId
    <3>2. i \in Slots /\ slots[i].id = NullId
      BY DEF FirstFree, FreeSlots
    <3>3. Busy' = Busy \cup {i}
      BY <1>3, <2>2, <3>2 DEF Busy, TableType
    <3>4. Cardinality(Busy \cup {i}) <= Cardinality(Busy) + 1
      <4>1. IsFiniteSet(Busy) /\ Cardinality(Busy) \in Nat
        BY CountsFinite
      <4>2. Cardinality(Busy \cup {i}) =
              IF i \in Busy THEN Cardinality(Busy) ELSE Cardinality(Busy) + 1
        BY <4>1, FS_AddElement
      <4> QED BY <4>1, <4>2
    <3>5. InFlight' = InFlight
      BY <1>3 DEF InFlight
    <3>6. Cardinality(Busy \cup {i}) \in Nat
      BY CountsFinite, FS_AddElement, FS_CardinalityType
    <3> QED BY <3>1, <3>3, <3>4, <3>5, <3>6, CountsFinite DEF SlotsLost
  <2> QED BY <2>1, <2>2
<1>4. CASE NoneFree
  BY <1>1, <1>4, UnchangedLoss DEF NoneFree
<1> QED BY <1>1, <1>2, <1>3, <1>4 DEF RequestNoRelease, Abandoned

LEMMA UpdateLoss ==
  ASSUME NEW st \in SUBSET Components, TableType, Held, Update(st)
  PROVE  SlotsLost' <= SlotsLost
<1>1. PICK sent, slotOf, idOf : UpdateWrites(sent, slotOf, idOf)
  BY UpdateEffect
<1>2. TableType' /\ Held'
  BY UpdateType, UpdateHeld
<1>3. Busy \subseteq Busy'
  BY <1>1, RoutingAssumption DEF UpdateWrites, Busy
<1>4. InFlight \subseteq InFlight'
  BY <1>1 DEF UpdateWrites, InFlight
<1>5. \A i \in Busy' \ Busy : \E c \in sent : slotOf[c] = i /\ slots'[i].id = idOf[c]
  BY <1>1 DEF UpdateWrites, Busy
<1>6. \A c \in sent : idOf[c] \in InFlight' \ InFlight
  <2> TAKE c \in sent
  <2>1. idOf[c] \in Ids /\ pending[idOf[c]] = NoDesc /\ pending'[idOf[c]] = <<"Update", c>>
    BY <1>1 DEF UpdateWrites
  <2>2. pending'[idOf[c]] # NoDesc
    BY <2>1 DEF NoDesc
  <2> QED BY <2>1, <2>2 DEF InFlight
<1>7. \A c, d \in sent : idOf[c] = idOf[d] => c = d
  BY <1>1 DEF UpdateWrites
<1>8. \A i, j \in Busy' \ Busy : slots'[i].id = slots'[j].id => i = j
  BY <1>5, <1>7
<1>9. \A i \in Busy' \ Busy : slots'[i].id \in InFlight' \ InFlight
  BY <1>5, <1>6
<1> QED BY <1>2, <1>3, <1>4, <1>8, <1>9, LossStep

\* An answer takes one request out of flight and frees one slot that held it.
LEMMA OnResponseLoss ==
  ASSUME NEW id \in Ids, TableType, Held, pending[id] # NoDesc, OnResponse(id),
         pending' = [pending EXCEPT ![id] = NoDesc]
  PROVE  SlotsLost' <= SlotsLost
<1>1. PICK i \in Slots : slots[i].id = id /\ slots' = [slots EXCEPT ![i] = FreeSlot]
  BY DEF OnResponse, Release, Held
<1>2. i \in Busy /\ Busy' = Busy \ {i}
  BY <1>1, RoutingAssumption DEF Busy, FreeSlot, TableType
<1>3. id \in InFlight /\ InFlight' = InFlight \ {id}
  BY DEF InFlight, TableType
<1>4. Cardinality(Busy') = Cardinality(Busy) - 1
  BY <1>2, CountsFinite, FS_RemoveElement
<1>5. Cardinality(InFlight') = Cardinality(InFlight) - 1
  BY <1>3, CountsFinite, FS_RemoveElement
<1> QED BY <1>4, <1>5, CountsFinite DEF SlotsLost

LEMMA StateChangedLoss ==
  ASSUME NEW s, TableType, Held, OnDeviceStateChanged(s), stale' \subseteq Components
  PROVE  SlotsLost' <= SlotsLost
<1>1. <<"QueryCapabilities">> \in Descs
  BY DEF Descs, OpNames
<1> QED BY <1>1, UnchangedLoss, RequestLoss, UpdateLoss DEF OnDeviceStateChanged, reqs

LEMMA RequestCommandLoss ==
  ASSUME TableType, Held, RequestCommand
  PROVE  \/ SlotsLost' <= SlotsLost
         \/ ConfigLine /\ SlotsLost' <= SlotsLost + 1
<1> USE DEF Descs, OpNames
<1>1. CASE UNCHANGED reqs
  BY <1>1, UnchangedLoss
<1>2. ASSUME NEW d \in Descs, Request(d) PROVE SlotsLost' <= SlotsLost
  BY <1>2, RequestLoss
<1>3. ASSUME NEW d \in Descs, RequestNoRelease(d), pc = "line", buf \in {"c +", "c -"}
      PROVE  \/ SlotsLost' <= SlotsLost
             \/ ConfigLine /\ SlotsLost' <= SlotsLost + 1
  <2>1. SlotsLost \in Int
    BY LossIsInteger
  <2>2. SlotsLost' <= SlotsLost + (IF WritesIdOnError THEN 1 ELSE 0)
    BY <1>3, RequestNoReleaseLoss
  <2>3. CASE WritesIdOnError
    BY <1>3, <2>2, <2>3 DEF ConfigLine
  <2>4. CASE ~WritesIdOnError
    BY <2>1, <2>2, <2>4
  <2> QED BY <2>3, <2>4
<1>4. ASSUME NEW n, NEW d \in Descs, OnChannel(n, d) PROVE SlotsLost' <= SlotsLost
  BY <1>1, <1>2, <1>4, UnchangedLoss DEF OnChannel
<1> QED BY <1>1, <1>2, <1>3, <1>4
  DEF RequestCommand, dr_test_ping, dr_test_store_config, dr_test_clear_config,
      dr_test_query_capabilities, dr_test_set_performance, dr_test_set_lockdown,
      dr_test_set_network_loopback, dr_test_remove_txlabel,
      dr_test_rxchannel_subscribe, dr_test_rxchannel_set_name,
      dr_test_rxchannel_set_muted, dr_test_txchannel_set_muted,
      dr_test_txchannel_set_enabled, dr_test_add_txlabel,
      dr_test_remove_txlabel_from_channel

LEMMA NextLoss ==
  ASSUME TypeOK, HandleInv, Held, [Next]_vars, DeviceIsOpen'
  PROVE  \/ SlotsLost' <= SlotsLost
         \/ ConfigLine /\ SlotsLost' <= SlotsLost + 1
<1>0. TableType
  BY TypeOKTable
<1>1. CASE UNCHANGED reqs
  BY <1>0, <1>1, UnchangedLoss
<1>3. CASE Setup
  BY <1>0, <1>1, <1>3, StateChangedLoss
  DEF Setup, EnvSetup, DevicesNew, SetOptions, Open, idle, reqs
<1>4. CASE Library
  <2>1. ASSUME NEW id \in Ids, Response(id) PROVE SlotsLost' <= SlotsLost
    BY <1>0, <2>1, OnResponseLoss DEF Response
  <2>2. ASSUME NEW s \in DevStates, DeviceChanged(s) PROVE SlotsLost' <= SlotsLost
    <3>1. stale' \subseteq Components
      BY <2>2 DEF DeviceChanged, DeviceEnters, TypeOK
    <3> QED BY <1>0, <2>2, <3>1, StateChangedLoss DEF DeviceChanged
  <2> QED BY <1>1, <1>4, <2>1, <2>2 DEF Library, ComponentChanged, SocketsChanged, reqs
<1>5. CASE RequestCommand
  BY <1>0, <1>5, RequestCommandLoss
<1>6. CASE UpdateCommand \/ FallThrough
  <2>1. stale \subseteq Components /\ stale' \subseteq Components
    BY <1>6 DEF UpdateCommand, FallThrough, AllMarked, TypeOK
  <2> QED BY <1>0, <1>6, <2>1, UpdateLoss DEF UpdateCommand, FallThrough
<1>7. CASE RxflowErrorsCommand
  <2>1. <<"UpdateRxflowErrors">> \in Descs
    BY DEF Descs, OpNames
  <2> QED BY <1>0, <1>1, <1>7, <2>1, RequestLoss
          DEF RxflowErrorsCommand, dr_test_update_rxflow_errors
<1>8. CASE RenameCommand
  BY <1>1, <1>8 DEF RenameCommand, dr_test_rename, DeviceIsOpen, reqs
<1>9. ~Cleanup
  BY DEF Cleanup, HandleInv, HandlesSound, DeviceIsOpen
<1>10. CASE Loop \/ Operator \/ MarkCommand \/ QuitCommand \/ Finished \/ UNCHANGED vars
  BY <1>1, <1>10
  DEF Loop, StartLoop, Top, SelectIdle, SelectReady, ProcessReturns, NoInput, Operator,
      ReadLine, MarkCommand, QuitCommand, Finished, vars, rest, reqs
<1> QED BY <1>3, <1>4, <1>5, <1>6, <1>7, <1>8, <1>9, <1>10 DEF Next, ProcessLine

LEMMA HeldInvariant == Spec => []Held
<1>1. Init => Held
  BY DEF Init, Held
<1>2. TypeOK /\ Held /\ [Next]_vars => Held'
  BY NextHeld
<1> QED BY <1>1, <1>2, TypeCorrect, PTL DEF Spec

\* Whatever a failing library call writes: nothing but a store_config or clear_config loses
\* a slot to a request that nothing will answer, and each of them one at most.
THEOREM OnlyConfigLosesSlots == Spec => OnlyConfigLeaks
<1> DEFINE Step == DeviceIsOpen' => SlotsLost' <= SlotsLost + (IF ConfigLine THEN 1 ELSE 0)
<1>1. TypeOK /\ TypeOK' /\ HandleInv /\ Held /\ Held' /\ [Next]_vars => Step
  <2> SUFFICES ASSUME TypeOK, TypeOK', HandleInv, Held, Held', [Next]_vars, DeviceIsOpen'
               PROVE  SlotsLost' <= SlotsLost + (IF ConfigLine THEN 1 ELSE 0)
    OBVIOUS
  <2>1. SlotsLost \in Int
    BY TypeOKTable, LossIsInteger
  <2>2. SlotsLost' \in Int
    <3>1. TableType'
      BY DEF TypeOK, TableType
    <3> QED BY <3>1, LossIsInteger
  <2> QED BY <2>1, <2>2, NextLoss
<1>2. TypeOK /\ TypeOK' /\ HandleInv /\ Held /\ Held' /\ [Next]_vars => [Step]_vars
  BY <1>1
<1> HIDE DEF Step
<1>3. Spec => [][Step]_vars
  BY <1>2, TypeCorrect, HandleInvariant, HeldInvariant, PTL DEF Spec
<1> QED BY <1>3 DEF OnlyConfigLeaks, Step

-----------------------------------------------------------------------------
(* The table implements the abstract set of outstanding requests. *)

\* As many requests can be in flight as there are slots.
LEMMA AtMostTheSlots ==
  ASSUME NEW p \in [Ids -> Descs \cup {NoDesc}],
         NEW s \in [Slots -> [id : Ids \cup {NullId}, desc : Descs \cup {NoDesc}]],
         \A id \in Ids : p[id] # NoDesc => \E i \in Slots : s[i].id = id
  PROVE  Cardinality({id \in Ids : p[id] # NoDesc}) <= MaxRequests
<1> DEFINE Flying == {id \in Ids : p[id] # NoDesc}
           holder == [id \in Flying |-> CHOOSE i \in Slots : s[i].id = id]
<1>1. \A id \in Flying : holder[id] \in Slots /\ s[holder[id]].id = id
  OBVIOUS
<1> HIDE DEF holder
<1>2. holder \in [Flying -> Slots]
  BY <1>1 DEF holder
<1>3. holder \in Injection(Flying, Slots)
  BY <1>1, <1>2 DEF Injection, IsInjective
<1>4. IsFiniteSet(Slots) /\ Cardinality(Slots) = MaxRequests
  BY FS_Interval DEF Slots
<1> QED BY <1>3, <1>4, FS_Injection

\* Seen through its slots, the table shows what the library has in flight.
LEMMA OpenView ==
  ASSUME TableType, Match, DeviceIsOpen
  PROVE  TableView = pending
<1> SUFFICES ASSUME NEW id \in Ids PROVE TableView[id] = pending[id]
  BY DEF TableView, TableType
<1>1. CASE pending[id] = NoDesc
  <2>1. Holders(id) = {}
    BY <1>1, RoutingAssumption DEF Match, Holders
  <2> QED BY <1>1, <2>1 DEF TableView
<1>2. CASE pending[id] # NoDesc
  <2>1. PICK i \in Slots : slots[i] = [id |-> id, desc |-> pending[id]]
    BY <1>2 DEF Match
  <2>2. Holders(id) = {i}
    BY <2>1, RoutingAssumption DEF Match, Holders
  <2>3. (CHOOSE k \in Holders(id) : \A j \in Holders(id) : k <= j) = i
    <3>1. i <= i
      BY DEF Slots
    <3> QED BY <2>2, <3>1
  <2>4. slots[i].desc = pending[id] /\ Holders(id) # {}
    BY <2>1, <2>2
  <2>5. TableView[id] = slots[CHOOSE k \in Holders(id) : \A j \in Holders(id) : k <= j].desc
    BY <2>4 DEF TableView
  <2> QED BY <2>3, <2>4, <2>5
<1> QED BY <1>1, <1>2

View == DeviceIsOpen => TableView = pending

LEMMA ClosedView ==
  ASSUME ~DeviceIsOpen PROVE TableView = [id \in Ids |-> NoDesc]
BY DEF TableView

\* No request in flight is overwritten.
Grows == \A id \in Ids : pending[id] # NoDesc => pending'[id] = pending[id]

LEMMA RequestGrows ==
  ASSUME NEW d, TableType, Request(d) \/ RequestNoRelease(d)
  PROVE  Grows
<1>1. ASSUME NEW i, Sent(i, d) PROVE Grows
  BY <1>1 DEF Sent, FreshIds, Grows, TableType
<1> QED BY <1>1 DEF Request, RequestNoRelease, NoneFree, reqs, Released, Abandoned, Grows

LEMMA UpdateGrows ==
  ASSUME NEW st \in SUBSET Components, Update(st)
  PROVE  Grows
<1>1. PICK sent, slotOf, idOf : UpdateWrites(sent, slotOf, idOf)
  BY UpdateEffect
<1> QED BY <1>1 DEF UpdateWrites, Grows

LEMMA StateChangedGrows ==
  ASSUME NEW s, TableType, OnDeviceStateChanged(s), stale' \subseteq Components
  PROVE  Grows
<1>1. CASE UNCHANGED reqs
  BY <1>1 DEF reqs, Grows
<1> QED BY <1>1, RequestGrows, UpdateGrows DEF OnDeviceStateChanged, reqs

LEMMA RequestCommandGrows ==
  ASSUME TableType, RequestCommand
  PROVE  Grows
<1>1. CASE UNCHANGED reqs
  BY <1>1 DEF reqs, Grows
<1>2. ASSUME NEW d, Request(d) \/ RequestNoRelease(d) PROVE Grows
  BY <1>2, RequestGrows
<1>3. ASSUME NEW n, NEW d, OnChannel(n, d) PROVE Grows
  BY <1>1, <1>2, <1>3 DEF OnChannel
<1> QED BY <1>1, <1>2, <1>3
  DEF RequestCommand, dr_test_ping, dr_test_store_config, dr_test_clear_config,
      dr_test_query_capabilities, dr_test_set_performance, dr_test_set_lockdown,
      dr_test_set_network_loopback, dr_test_remove_txlabel,
      dr_test_rxchannel_subscribe, dr_test_rxchannel_set_name,
      dr_test_rxchannel_set_muted, dr_test_txchannel_set_muted,
      dr_test_txchannel_set_enabled, dr_test_add_txlabel,
      dr_test_remove_txlabel_from_channel

\* Only a response, a rename and the end take a request out of flight.
LEMMA NextGrows ==
  ASSUME TypeOK, [Next]_vars
  PROVE  Grows \/ RenameCommand \/ Cleanup \/ \E id \in Ids : Response(id)
<1>0. TableType
  BY TypeOKTable
<1>1. CASE UNCHANGED reqs
  BY <1>1 DEF reqs, Grows
<1>2. CASE Setup
  BY <1>0, <1>1, <1>2, StateChangedGrows
  DEF Setup, EnvSetup, DevicesNew, SetOptions, Open, idle, reqs
<1>3. CASE Library
  <2>1. ASSUME NEW s \in DevStates, DeviceChanged(s) PROVE Grows
    <3>1. stale' \subseteq Components
      BY <2>1 DEF DeviceChanged, DeviceEnters, TypeOK
    <3> QED BY <1>0, <2>1, <3>1, StateChangedGrows DEF DeviceChanged
  <2> QED BY <1>1, <1>3, <2>1 DEF Library, ComponentChanged, SocketsChanged, reqs
<1>4. CASE RequestCommand
  BY <1>0, <1>4, RequestCommandGrows
<1>5. CASE UpdateCommand \/ FallThrough
  <2>1. stale \subseteq Components /\ stale' \subseteq Components
    BY <1>5 DEF UpdateCommand, FallThrough, AllMarked, TypeOK
  <2> QED BY <1>5, <2>1, UpdateGrows DEF UpdateCommand, FallThrough
<1>6. CASE RxflowErrorsCommand
  BY <1>0, <1>1, <1>6, RequestGrows DEF RxflowErrorsCommand, dr_test_update_rxflow_errors
<1>7. CASE Loop \/ Operator \/ MarkCommand \/ QuitCommand \/ Finished \/ UNCHANGED vars
  BY <1>1, <1>7
  DEF Loop, StartLoop, Top, SelectIdle, SelectReady, ProcessReturns, NoInput, Operator,
      ReadLine, MarkCommand, QuitCommand, Finished, vars, rest, reqs
<1> QED BY <1>2, <1>3, <1>4, <1>5, <1>6, <1>7 DEF Next, ProcessLine

\* A step that overwrites nothing issues requests, within the bound.
LEMMA IssueStep ==
  ASSUME NEW p \in [Ids -> Descs \cup {NoDesc}], TableView = p,
         \A id \in Ids : p[id] # NoDesc => pending'[id] = p[id],
         TableType', Match', TableView' = pending'
  PROVE  Outstanding!Issue
<1>1. Cardinality({id \in Ids : pending'[id] # NoDesc}) <= MaxRequests
  <2>1. ASSUME NEW id \in Ids, pending'[id] # NoDesc PROVE \E i \in Slots : slots'[i].id = id
    <3>1. PICK i \in Slots : slots'[i] = [id |-> id, desc |-> pending'[id]]
      BY <2>1 DEF Match
    <3> QED BY <3>1
  <2>2. /\ pending' \in [Ids -> Descs \cup {NoDesc}]
        /\ slots' \in [Slots -> [id : Ids \cup {NullId}, desc : Descs \cup {NoDesc}]]
    BY DEF TableType
  <2> QED BY <2>1, <2>2, AtMostTheSlots
<1>2. pending' \in [Ids -> Descs \cup {NoDesc}]
  BY DEF TableType
<1>3. Outstanding!Cardinality({id \in Ids : pending'[id] # NoDesc})
        = Cardinality({id \in Ids : pending'[id] # NoDesc})
  BY DEF Outstanding!Cardinality, Cardinality
<1> QED BY <1>1, <1>2, <1>3 DEF Outstanding!Issue, Outstanding!OutstandingIds

LEMMA StepOutstanding ==
  ASSUME TypeOK, TypeOK', HandleInv, TableInv, TableInv', View, View', [Next]_vars
  PROVE  [Outstanding!Next]_TableView
<1>0. TableType /\ TableType'
  BY TypeOKTable DEF TypeOK, TableType
<1>1. CASE ~DeviceIsOpen /\ ~DeviceIsOpen'
  BY <1>1 DEF TableView
<1>2. CASE DeviceIsOpen /\ ~DeviceIsOpen'
  <2>1. TableView' = [id \in Ids |-> NoDesc]
    BY <1>2 DEF TableView
  <2> QED BY <2>1 DEF Outstanding!Next, Outstanding!Close
<1>3. CASE DeviceIsOpen'
  <2>1. Match' /\ TableView' = pending'
    BY <1>3 DEF TableInv, View
  <2>2. CASE ~DeviceIsOpen
    <3>1. TableView = [id \in Ids |-> NoDesc]
      BY <2>2, ClosedView
    <3>2. Outstanding!Issue
      BY <1>0, <2>1, <3>1, IssueStep
    <3> QED BY <3>2 DEF Outstanding!Next
  <2>3. CASE DeviceIsOpen
    <3>1. TableView = pending
      BY <2>3 DEF View
    <3>2. CASE Grows \/ RenameCommand
      <4>1. Grows
        BY <1>3, <3>2, <2>3 DEF RenameCommand, dr_test_rename, DeviceIsOpen, Grows
      <4>2. Outstanding!Issue
        BY <1>0, <2>1, <3>1, <4>1, IssueStep DEF Grows, TableType
      <4> QED BY <4>2 DEF Outstanding!Next
    <3>3. ASSUME NEW id \in Ids, Response(id) PROVE Outstanding!Complete(id)
      <4>1. pending[id] # NoDesc /\ pending' = [pending EXCEPT ![id] = NoDesc]
        BY <3>3 DEF Response
      <4> QED BY <2>1, <3>1, <4>1 DEF Outstanding!Complete, Outstanding!OutstandingIds
    <3>4. ~Cleanup
      BY <1>3, <2>3 DEF Cleanup, HandleInv, HandlesSound, DeviceIsOpen
    <3> QED BY <3>2, <3>3, <3>4, NextGrows DEF Outstanding!Next
  <2> QED BY <2>2, <2>3
<1> QED BY <1>1, <1>2, <1>3

\* When a failed library call writes no id, the table implements a bounded set of outstanding
\* requests: none is overwritten or renamed, each ends by itself, and all when the device does.
THEOREM TableImplementsOutstanding == ~WritesIdOnError => (Spec => ImplementsOutstanding)
<1> SUFFICES ASSUME ~WritesIdOnError PROVE Spec => ImplementsOutstanding
  OBVIOUS
<1>1. Init => Outstanding!Init
  BY DEF Init, Outstanding!Init, TableView, DeviceIsOpen
<1>2. TypeOK /\ TableInv => View
  BY OpenView, TypeOKTable DEF TableInv, View
<1>3. /\ TypeOK /\ TypeOK' /\ HandleInv /\ TableInv /\ TableInv' /\ View /\ View'
      /\ [Next]_vars
      => [Outstanding!Next]_TableView
  BY StepOutstanding
<1> QED BY <1>1, <1>2, <1>3, TypeCorrect, HandleInvariant, TableInvariant, PTL
        DEF Spec, ImplementsOutstanding, Outstanding!Spec

=============================================================================
