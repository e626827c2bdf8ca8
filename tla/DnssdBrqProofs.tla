--------------------------- MODULE DnssdBrqProofs ---------------------------
(***************************************************************************)
(* Proofs about DnssdBrq, for any number of browses and slots, any names,  *)
(* hosts and interfaces, and every option.                                 *)
(***************************************************************************)
EXTENDS DnssdBrq, FiniteSetTheorems, TLAPS

USE BrqAssumption

-----------------------------------------------------------------------------
(* References and slots. *)

LEMMA SlotShape ==
  ASSUME NEW s \in Slots
  PROVE  s[1] \in Browses /\ s[2] \in 1 .. MaxAdverts /\ s = <<s[1], s[2]>>
BY DEF Slots

LEMMA RefShape ==
  ASSUME NEW r \in Refs
  PROVE  /\ r[1] \in Browses
         /\ r[3] = "browse" => r = BrowseRef(r[1])
         /\ r[3] = "resolve" => SlotOf(r) \in Slots /\ r = ResolveRef(SlotOf(r))
         /\ r[3] = "query" => SlotOf(r) \in Slots /\ r = QueryRef(SlotOf(r))
BY SlotShape DEF Refs, BrowseRef, ResolveRef, QueryRef, SlotOf

LEMMA SlotRefsAreRefs ==
  ASSUME NEW s \in Slots
  PROVE  /\ ResolveRef(s) \in Refs /\ QueryRef(s) \in Refs
         /\ SlotRefs(s) \subseteq Refs
         /\ ResolveRef(s) # QueryRef(s)
BY DEF Refs, SlotRefs, ResolveRef, QueryRef

LEMMA RefsDiffer ==
  ASSUME NEW s \in Slots, NEW t \in Slots
  PROVE  /\ ResolveRef(s) # QueryRef(t)
         /\ ResolveRef(s) = ResolveRef(t) => s = t
         /\ QueryRef(s) = QueryRef(t) => s = t
         /\ \A b : BrowseRef(b) # ResolveRef(s) /\ BrowseRef(b) # QueryRef(s)
BY SlotShape DEF ResolveRef, QueryRef, BrowseRef

LEMMA BrowseRefsAreRefs == \A b \in Browses : BrowseRef(b) \in Refs
BY DEF Refs

LEMMA BeforeIrreflexive == \A r \in Refs : ~Before(r, r)
<1> SUFFICES ASSUME NEW r \in Refs PROVE ~Before(r, r)
  OBVIOUS
<1>1. r[1] \in Nat
  BY RefShape DEF Browses
<1>2. r[2] \in Nat
  BY SlotShape DEF Refs, BrowseRef, ResolveRef, QueryRef
<1> QED BY <1>1, <1>2 DEF Before

LEMMA SlotNamedInSlots ==
  ASSUME NEW b \in Browses, NEW n, NEW s \in SlotNamed(b, n)
  PROVE  s \in Slots
BY DEF SlotNamed, Slots

-----------------------------------------------------------------------------
(* Types. *)

RefType ==
  /\ ref \in [Refs -> Fds \cup {NoFd}]
  /\ selected \subseteq Refs
  /\ serving \in [Fds -> Service \cup {Idle}]
  /\ hasData \subseteq Fds

AdvertType == adverts \in [Slots -> Adverts]

RestType ==
  /\ opt \in Options
  /\ pc \in {"browse", "loop", "select", "process", "result", "stats", "done"}
  /\ running \in BOOLEAN
  /\ fdset \subseteq Fds
  /\ todo \subseteq Refs
  /\ cur \in Refs
  /\ announced \in [Browses -> SUBSET (Names \X Interfaces)]
  /\ highest \in Fds \cup {NoFd}
  /\ processed \in Nat
  /\ last \in [DOMAIN NoStats -> Nat]
  /\ stable \in 0 .. 2

LEMMA TypeParts == TypeOK <=> RefType /\ AdvertType /\ RestType
BY DEF TypeOK, RefType, AdvertType, RestType

LEMMA CloseType ==
  ASSUME NEW R, RefType, Close(R)
  PROVE  RefType'
<1>1. ref' \in [Refs -> Fds \cup {NoFd}]
  BY DEF RefType, Close
<1>2. serving' \in [Fds -> Service \cup {Idle}]
  BY DEF RefType, Close
<1> QED BY <1>1, <1>2 DEF RefType, Close, Deselected

LEMMA ReopenType ==
  ASSUME NEW R \in SUBSET Refs, NEW r \in Refs, NEW x \in Names \cup Hosts \cup {NoName},
         RefType, Reopen(R, r, x)
  PROVE  RefType'
<1>1. <<r, x>> \in Service
  BY DEF Service
<1>2. ClosedFds(R) \subseteq Fds
  BY DEF ClosedFds, RefType
<1>3. PICK fd \in {f \in Fds : serving[f] = Idle} \cup ClosedFds(R) :
        /\ ref' = [q \in Refs |-> IF q = r THEN fd ELSE IF q \in R THEN NoFd ELSE ref[q]]
        /\ serving' = [f \in Fds |-> IF f = fd THEN <<r, x>>
                                     ELSE IF f \in ClosedFds(R) THEN Idle ELSE serving[f]]
        /\ hasData' = hasData \ ClosedFds(R)
        /\ selected' = selected \ R
  BY DEF Reopen, Deselected
<1>4. fd \in Fds
  BY <1>2
<1>5. ref' \in [Refs -> Fds \cup {NoFd}]
  BY <1>3, <1>4 DEF RefType
<1>6. serving' \in [Fds -> Service \cup {Idle}]
  BY <1>1, <1>3 DEF RefType
<1> QED BY <1>3, <1>5, <1>6 DEF RefType

LEMMA FoundType ==
  ASSUME NEW n \in Names \cup {NoName}, NEW i \in Interfaces \cup {0}
  PROVE  Found(n, i) \in Adverts
BY DEF Found, Adverts

LEMMA BlankType == Blank \in Adverts
BY FoundType DEF Blank

LEMMA RetargetedType ==
  ASSUME NEW v \in Adverts, NEW h \in Hosts, NEW t \in BOOLEAN
  PROVE  Retargeted(v, h, t) \in Adverts
BY DEF Retargeted, Adverts

LEMMA AddressedType ==
  ASSUME NEW v \in Adverts, NEW h \in Hosts \cup {NoHost}
  PROVE  Addressed(v, h) \in Adverts
BY DEF Addressed, Adverts

\* What resolve_common does to the types, and to one slot.
LEMMA ResolveCommonType ==
  ASSUME NEW s \in Slots, NEW R \in SUBSET Refs, NEW h \in Hosts, NEW txt \in BOOLEAN,
         RefType, AdvertType, resolve_common(s, R, h, txt)
  PROVE  RefType' /\ AdvertType'
<1>1. QueryRef(s) \in Refs
  BY SlotRefsAreRefs
<1>2. RefType'
  <2>1. CASE Close(R \cup {QueryRef(s)})
    BY <2>1, CloseType
  <2>2. CASE Reopen(R \cup {QueryRef(s)}, QueryRef(s), h)
    BY <2>2, <1>1, ReopenType
  <2> QED BY <2>1, <2>2 DEF resolve_common
<1>3. adverts[s] \in Adverts
  BY DEF AdvertType
<1>4. adverts[s].txt \in BOOLEAN
  BY <1>3 DEF Adverts
<1>5. PICK t \in BOOLEAN : adverts' = [adverts EXCEPT ![s] = Retargeted(adverts[s], h, t)]
  BY <1>4 DEF resolve_common
<1>6. AdvertType'
  BY <1>3, <1>5, RetargetedType DEF AdvertType
<1> QED BY <1>2, <1>6

\* The counts of the statistics are numbers.
LEMMA StatsType ==
  ASSUME RestType
  PROVE  Stats \in [DOMAIN NoStats -> Nat]
<1>1. IsFiniteSet(Slots)
  <2>1. IsFiniteSet(1 .. NumBrowses) /\ IsFiniteSet(1 .. MaxAdverts)
    BY FS_Interval
  <2> QED BY <2>1, FS_Product DEF Slots, Browses
<1>2. \A S : S \subseteq Slots => Cardinality(S) \in Nat
  BY <1>1, FS_Subset, FS_CardinalityType
<1>3. /\ Browsed \subseteq Slots /\ Resolving \subseteq Slots /\ Resolved \subseteq Slots
      /\ Querying \subseteq Slots /\ Queried \subseteq Slots
  BY DEF Browsed, Resolving, Resolved, Querying, Queried
<1>4. highest \in Nat /\ processed \in Nat
  BY DEF RestType, Fds, NoFd
<1>5. /\ Cardinality(Browsed) \in Nat /\ Cardinality(Resolving) \in Nat
      /\ Cardinality(Resolved) \in Nat /\ Cardinality(Querying) \in Nat
      /\ Cardinality(Queried) \in Nat
  BY <1>2, <1>3
<1> QED BY <1>4, <1>5 DEF Stats, NoStats

PartType == RefType /\ RestType

\* Everything but the adverts keeps its type, whatever the adverts are.
LEMMA NextPartType ==
  ASSUME PartType, [Next]_vars
  PROVE  PartType'
<1> USE DEF PartType
<1>1. ASSUME NEW b \in Browses, Browse(b) PROVE PartType'
  <2>1. RefType'
    <3>1. CASE Reopen({}, BrowseRef(b), NoName)
      BY <3>1, ReopenType, BrowseRefsAreRefs
    <3>2. CASE UNCHANGED table
      BY <3>2 DEF table, RefType
    <3> QED BY <1>1, <3>1, <3>2 DEF Browse
  <2> QED BY <2>1, <1>1 DEF Browse, RestType, around, count
<1>2. CASE Browsing
  BY <1>2 DEF Browsing, RefType, RestType, around, count, table
<1>3. CASE SelectRefs
  BY <1>3 DEF SelectRefs, RefType, RestType
<1>4. CASE Select
  <2>1. fdset' \subseteq Fds /\ todo' \subseteq Refs /\ processed' \in Nat
    BY <1>4 DEF Select, RefType, RestType
  <2> QED BY <1>4, <2>1 DEF Select, RefType, RestType, table
<1>5. CASE EndWalk
  BY <1>5 DEF EndWalk, RefType, RestType, count
<1>6. CASE Tail
  BY <1>6, StatsType DEF Tail, RefType, RestType, table
<1>7. ASSUME NEW r \in Refs, Visit(r) PROVE PartType'
  BY <1>7 DEF Visit, RefType, RestType
<1>8. CASE ProcessReturns
  BY <1>8 DEF ProcessReturns, RefType, RestType, around, count
<1>9. ASSUME NEW n \in Names, NEW i \in Interfaces, BrowseAdd(n, i) PROVE PartType'
  <2>1. RefType'
    <3>1. CASE UNCHANGED table
      BY <3>1 DEF table, RefType
    <3>2. ASSUME NEW s \in Slots, Close(SlotRefs(s)) PROVE RefType'
      BY <3>2, CloseType
    <3>3. ASSUME NEW s \in Slots, Reopen(SlotRefs(s), ResolveRef(s), n) PROVE RefType'
      BY <3>3, ReopenType, SlotRefsAreRefs
    <3>4. cur[1] \in Browses
      BY RefShape DEF RestType
    <3>5. \A s \in SlotNamed(cur[1], NoName) : s \in Slots
      BY <3>4, SlotNamedInSlots
    <3>6. CASE ~Ignored(i)
      <4>1. PICK s \in SlotNamed(cur[1], NoName) :
              Close(SlotRefs(s)) \/ Reopen(SlotRefs(s), ResolveRef(s), n)
        BY <1>9, <3>6 DEF BrowseAdd
      <4> QED BY <4>1, <3>2, <3>3, <3>5
    <3>7. CASE Ignored(i)
      BY <1>9, <3>1, <3>7 DEF BrowseAdd
    <3> QED BY <3>6, <3>7
  <2>2. announced' \in [Browses -> SUBSET (Names \X Interfaces)]
    <3>1. announced' = [announced EXCEPT ![cur[1]] = announced[cur[1]] \cup {<<n, i>>}]
      BY <1>9 DEF BrowseAdd
    <3>2. announced[cur[1]] \cup {<<n, i>>} \subseteq Names \X Interfaces
      BY RefShape DEF RestType
    <3> QED BY <3>1, <3>2 DEF RestType
  <2>3. pc' \in {pc, "done"}
    BY <1>9 DEF BrowseAdd
  <2> QED BY <1>9, <2>1, <2>2, <2>3 DEF BrowseAdd, RestType, around, count
<1>10. ASSUME NEW n \in Names, NEW i \in Interfaces, BrowseRemove(n, i) PROVE PartType'
  <2>1. RefType'
    <3>1. CASE UNCHANGED table
      BY <3>1 DEF table, RefType
    <3>2. ASSUME NEW s, Close(SlotRefs(s)) PROVE RefType'
      BY <3>2, CloseType
    <3> QED BY <1>10, <3>1, <3>2 DEF BrowseRemove
  <2>2. announced' \in [Browses -> SUBSET (Names \X Interfaces)]
    <3>1. announced' = [announced EXCEPT ![cur[1]] = announced[cur[1]] \ {<<n, i>>}]
      BY <1>10 DEF BrowseRemove
    <3>2. announced[cur[1]] \ {<<n, i>>} \subseteq Names \X Interfaces
      BY RefShape DEF RestType
    <3> QED BY <3>1, <3>2 DEF RestType
  <2> QED BY <1>10, <2>1, <2>2 DEF BrowseRemove, RestType, around, count
<1>11. CASE Reply
  <2>1. RefType'
    <3>1. ASSUME NEW s \in Slots, NEW R \in SUBSET Refs, NEW h \in Hosts, NEW t \in BOOLEAN,
                 resolve_common(s, R, h, t)
          PROVE  RefType'
      BY <3>1, CloseType, ReopenType, SlotRefsAreRefs DEF resolve_common
    <3>2. {cur} \subseteq Refs /\ {} \subseteq Refs
      BY DEF RestType
    <3>3. cur[3] = "resolve" => SlotOf(cur) \in Slots
      BY RefShape DEF RestType
    <3>4. CASE ResolveReply
      BY <3>1, <3>2, <3>3, <3>4, CloseType DEF ResolveReply, Answering
    <3>5. CASE LlqReply
      BY <3>1, <3>2, <3>3, <3>5 DEF LlqReply, Answering
    <3>6. CASE GetAddrInfoReply
      BY <3>6, CloseType DEF GetAddrInfoReply
    <3>7. CASE QueryReply
      BY <3>7, CloseType DEF QueryReply
    <3> QED BY <1>11, <3>4, <3>5, <3>6, <3>7 DEF Reply
  <2> QED BY <1>11, <2>1 DEF Reply, ResolveReply, LlqReply, GetAddrInfoReply, QueryReply,
                             RestType, around, count
<1>12. CASE Interrupt
  BY <1>12 DEF Interrupt, RefType, RestType, count, table
<1>13. ASSUME NEW fd \in Fds, DataArrives(fd) PROVE PartType'
  BY <1>13 DEF DataArrives, RefType, RestType, around, count
<1>14. CASE UNCHANGED vars
  BY <1>14 DEF vars, RefType, RestType
<1> QED BY <1>1, <1>2, <1>3, <1>4, <1>5, <1>6, <1>7, <1>8, <1>9, <1>10, <1>11, <1>12, <1>13,
           <1>14 DEF Next, Main, Finished

LEMMA InitPartType ==
  ASSUME Init
  PROVE  PartType
<1>1. BrowseRef(1) \in Refs
  BY BrowseRefsAreRefs DEF Browses
<1> QED BY <1>1 DEF Init, PartType, RefType, RestType, NoFd, NoStats

LEMMA PartTypeCorrect == Spec => []PartType
<1>1. Init => PartType
  BY InitPartType
<1>2. PartType /\ [Next]_vars => PartType'
  BY NextPartType
<1> QED BY <1>1, <1>2, PTL DEF Spec

-----------------------------------------------------------------------------
(* References and descriptors. *)

\* An open descriptor belongs to one reference.
LEMMA OneOwner ==
  ASSUME RefsOwned, NEW q \in Refs, NEW r \in Refs, ref[q] = ref[r], ref[q] # NoFd
  PROVE  q = r
BY DEF RefsOwned

\* What closing the references of R does to the others: nothing.
LEMMA CloseEffect ==
  ASSUME RefType, RefsOwned, NEW R \in SUBSET Refs, Close(R)
  PROVE  /\ \A q \in R : ref'[q] = NoFd
         /\ \A q \in Refs \ R :
              ref'[q] = ref[q] /\ (Open(q) => serving'[ref[q]] = serving[ref[q]])
         /\ RefsOwned'
<1>1. \A q \in R : ref'[q] = NoFd
  BY DEF Close
<1>2. ASSUME NEW q \in Refs \ R, Open(q)
      PROVE  ref[q] \notin ClosedFds(R) /\ ref[q] \in Fds
  BY <1>2, OneOwner DEF ClosedFds, RefType, Open
<1>3. \A q \in Refs \ R :
        ref'[q] = ref[q] /\ (Open(q) => serving'[ref[q]] = serving[ref[q]])
  BY <1>2 DEF Close
<1>4. \A r \in Refs : ref'[r] # NoFd => serving'[ref'[r]] # Idle /\ serving'[ref'[r]][1] = r
  BY <1>1, <1>3 DEF RefsOwned, Open
<1>5. ASSUME NEW fd \in Fds, serving'[fd] # Idle
      PROVE  ref'[serving'[fd][1]] = fd
  <2>1. fd \notin ClosedFds(R) /\ serving'[fd] = serving[fd]
    BY <1>5 DEF Close
  <2>2. ref[serving[fd][1]] = fd
    BY <1>5, <2>1 DEF RefsOwned
  <2>3. serving[fd][1] \in Refs
    BY <1>5, <2>1 DEF RefType, Service
  <2>4. fd # NoFd
    BY DEF Fds, NoFd
  <2>5. serving[fd][1] \notin R
    BY <2>1, <2>2, <2>3, <2>4 DEF ClosedFds
  <2> QED BY <1>3, <2>1, <2>2, <2>3, <2>5
<1> QED BY <1>1, <1>3, <1>4, <1>5 DEF RefsOwned

\* What opening a service about x for r does, after closing the references of R.
LEMMA ReopenEffect ==
  ASSUME RefType, RefsOwned, NEW R \in SUBSET Refs, NEW r \in Refs, NEW x,
         r \in R \/ ~Open(r), Reopen(R, r, x)
  PROVE  /\ \A q \in R \ {r} : ref'[q] = NoFd
         /\ \A q \in Refs \ (R \cup {r}) :
              ref'[q] = ref[q] /\ (Open(q) => serving'[ref[q]] = serving[ref[q]])
         /\ ref'[r] # NoFd /\ serving'[ref'[r]] = <<r, x>>
         /\ <<r, x>> # Idle => RefsOwned'
<1>1. ClosedFds(R) \subseteq Fds
  BY DEF ClosedFds, RefType
<1>2. PICK fd \in {f \in Fds : serving[f] = Idle} \cup ClosedFds(R) :
        /\ ref' = [q \in Refs |-> IF q = r THEN fd ELSE IF q \in R THEN NoFd ELSE ref[q]]
        /\ serving' = [f \in Fds |-> IF f = fd THEN <<r, x>>
                                     ELSE IF f \in ClosedFds(R) THEN Idle ELSE serving[f]]
  BY DEF Reopen
<1>3. fd \in Fds /\ fd # NoFd
  BY <1>1, <1>2 DEF Fds, NoFd
<1>4. \A q \in R \ {r} : ref'[q] = NoFd
  BY <1>2
<1>5. ref'[r] = fd /\ serving'[fd] = <<r, x>>
  BY <1>2, <1>3
<1>6. ASSUME NEW q \in Refs \ (R \cup {r}), Open(q)
      PROVE  ref[q] \notin ClosedFds(R) /\ ref[q] \in Fds /\ ref[q] # fd
  <2>1. ref[q] \notin ClosedFds(R) /\ ref[q] \in Fds
    BY <1>6, OneOwner DEF ClosedFds, RefType, Open
  <2>2. serving[ref[q]] # Idle
    BY <1>6 DEF RefsOwned, Open
  <2> QED BY <1>2, <2>1, <2>2
<1>7. \A q \in Refs \ (R \cup {r}) :
        ref'[q] = ref[q] /\ (Open(q) => serving'[ref[q]] = serving[ref[q]])
  BY <1>2, <1>6
<1>8. ASSUME <<r, x>> # Idle PROVE RefsOwned'
  <2>1. \A q \in Refs : ref'[q] # NoFd => serving'[ref'[q]] # Idle /\ serving'[ref'[q]][1] = q
    <3>1. serving'[ref'[r]] # Idle /\ serving'[ref'[r]][1] = r
      BY <1>5, <1>8
    <3>2. ASSUME NEW q \in Refs \ (R \cup {r}), ref'[q] # NoFd
          PROVE  serving'[ref'[q]] # Idle /\ serving'[ref'[q]][1] = q
      BY <1>7, <3>2 DEF RefsOwned, Open
    <3> QED BY <1>4, <3>1, <3>2
  <2>2. ASSUME NEW f \in Fds, serving'[f] # Idle, f # fd
        PROVE  ref'[serving'[f][1]] = f
    <3>1. f \notin ClosedFds(R) /\ serving'[f] = serving[f]
      BY <1>2, <2>2
    <3>2. ref[serving[f][1]] = f
      BY <2>2, <3>1 DEF RefsOwned
    <3>3. serving[f][1] \in Refs
      BY <2>2, <3>1 DEF RefType, Service
    <3>4. f # NoFd
      BY DEF Fds, NoFd
    <3>5. serving[f][1] \notin R
      BY <3>1, <3>2, <3>3, <3>4 DEF ClosedFds
    <3>6. serving[f][1] # r
      BY <3>2, <3>4, <3>5 DEF Open
    <3> QED BY <1>7, <3>1, <3>2, <3>3, <3>5, <3>6
  <2> QED BY <1>5, <2>1, <2>2 DEF RefsOwned
<1> QED BY <1>3, <1>4, <1>5, <1>7, <1>8

\* The three things a step may do to the references.
ReopenStep == \E R \in SUBSET Refs, r \in Refs, x \in Names \cup Hosts \cup {NoName} :
                (r \in R \/ ~Open(r)) /\ Reopen(R, r, x)
CloseStep  == \E R \in SUBSET Refs : Close(R)

LEMMA ResolveCommonStep ==
  ASSUME NEW s \in Slots, NEW R \in SUBSET Refs, NEW h \in Hosts, NEW txt \in BOOLEAN,
         resolve_common(s, R, h, txt)
  PROVE  CloseStep \/ ReopenStep
<1>1. R \cup {QueryRef(s)} \in SUBSET Refs /\ QueryRef(s) \in Refs
  BY SlotRefsAreRefs
<1>2. CASE Close(R \cup {QueryRef(s)})
  BY <1>1, <1>2 DEF CloseStep
<1>3. CASE Reopen(R \cup {QueryRef(s)}, QueryRef(s), h)
  BY <1>1, <1>3 DEF ReopenStep
<1> QED BY <1>2, <1>3 DEF resolve_common

LEMMA ReplyStep ==
  ASSUME PartType, Reply
  PROVE  CloseStep \/ ReopenStep
<1>1. {cur} \in SUBSET Refs /\ {} \in SUBSET Refs
  BY DEF PartType, RestType
<1>2. cur[3] = "resolve" => SlotOf(cur) \in Slots
  BY RefShape DEF PartType, RestType
<1>3. CASE Close({cur})
  BY <1>1, <1>3 DEF CloseStep
<1>4. CASE ResolveReply
  BY <1>1, <1>2, <1>3, <1>4, ResolveCommonStep DEF ResolveReply, Answering
<1>5. CASE LlqReply
  BY <1>1, <1>2, <1>5, ResolveCommonStep DEF LlqReply, Answering
<1> QED BY <1>3, <1>4, <1>5 DEF Reply, GetAddrInfoReply, QueryReply

LEMMA BrowseReplyStep ==
  ASSUME PartType, NEW n \in Names, NEW i \in Interfaces,
         BrowseAdd(n, i) \/ BrowseRemove(n, i)
  PROVE  CloseStep \/ ReopenStep \/ UNCHANGED table
<1>1. \A m : \A s \in SlotNamed(cur[1], m) : s \in Slots
  BY RefShape, SlotNamedInSlots DEF PartType, RestType
<1>2. ASSUME NEW s \in Slots, Close(SlotRefs(s)) PROVE CloseStep
  BY <1>2, SlotRefsAreRefs DEF CloseStep
<1>3. ASSUME NEW s \in Slots, Reopen(SlotRefs(s), ResolveRef(s), n) PROVE ReopenStep
  <2>1. SlotRefs(s) \in SUBSET Refs /\ ResolveRef(s) \in Refs /\ ResolveRef(s) \in SlotRefs(s)
    BY SlotRefsAreRefs DEF SlotRefs
  <2> QED BY <1>3, <2>1 DEF ReopenStep
<1>4. CASE Ignored(i)
  BY <1>4 DEF BrowseAdd, BrowseRemove
<1>5. CASE ~Ignored(i) /\ BrowseAdd(n, i)
  <2>1. PICK s \in SlotNamed(cur[1], NoName) :
          Close(SlotRefs(s)) \/ Reopen(SlotRefs(s), ResolveRef(s), n)
    BY <1>5 DEF BrowseAdd
  <2> QED BY <1>1, <1>2, <1>3, <2>1
<1>6. CASE ~Ignored(i) /\ BrowseRemove(n, i)
  <2>1. PICK s \in SlotNamed(cur[1], n) : Close(SlotRefs(s))
    BY <1>6 DEF BrowseRemove
  <2> QED BY <1>1, <1>2, <2>1
<1> QED BY <1>4, <1>5, <1>6

LEMMA BrowseStep ==
  ASSUME PartType, NEW b \in Browses, Browse(b)
  PROVE  ReopenStep \/ UNCHANGED table
<1>1. CASE Reopen({}, BrowseRef(b), NoName)
  <2>1. BrowseRef(b) \in Refs /\ ~Open(BrowseRef(b)) /\ {} \in SUBSET Refs
    BY BrowseRefsAreRefs DEF Browse, Open
  <2> QED BY <1>1, <2>1 DEF ReopenStep
<1> QED BY <1>1 DEF Browse

LEMMA CloseStepOwned ==
  ASSUME PartType, RefsOwned, CloseStep \/ ReopenStep
  PROVE  RefsOwned'
<1>1. CASE CloseStep
  BY <1>1, CloseEffect DEF CloseStep, PartType
<1>2. CASE ReopenStep
  <2>1. PICK R \in SUBSET Refs, r \in Refs, x \in Names \cup Hosts \cup {NoName} :
          (r \in R \/ ~Open(r)) /\ Reopen(R, r, x)
    BY <1>2 DEF ReopenStep
  <2>2. <<r, x>> # Idle
    BY DEF Service
  <2> QED BY <2>1, <2>2, ReopenEffect DEF PartType
<1> QED BY <1>1, <1>2

LEMMA NextOwned ==
  ASSUME PartType, RefsOwned, [Next]_vars
  PROVE  RefsOwned'
<1>1. CASE UNCHANGED <<ref, serving>>
  BY <1>1 DEF RefsOwned
<1>2. CASE UNCHANGED table
  BY <1>1, <1>2 DEF table
<1>3. ASSUME NEW b \in Browses, Browse(b) PROVE RefsOwned'
  BY <1>2, <1>3, BrowseStep, CloseStepOwned
<1>4. CASE Reply
  BY <1>4, ReplyStep, CloseStepOwned
<1>5. ASSUME NEW n \in Names, NEW i \in Interfaces, BrowseAdd(n, i) \/ BrowseRemove(n, i)
      PROVE  RefsOwned'
  BY <1>2, <1>5, BrowseReplyStep, CloseStepOwned
<1>6. CASE Browsing \/ SelectRefs \/ Select \/ EndWalk \/ Tail \/ ProcessReturns \/ Interrupt
             \/ Finished \/ UNCHANGED vars
  BY <1>1, <1>6 DEF Browsing, SelectRefs, Select, EndWalk, Tail, ProcessReturns, Interrupt,
                    Finished, table, vars
<1>7. ASSUME NEW r \in Refs, Visit(r) PROVE RefsOwned'
  BY <1>1, <1>7 DEF Visit
<1>8. ASSUME NEW fd \in Fds, DataArrives(fd) PROVE RefsOwned'
  BY <1>1, <1>8 DEF DataArrives
<1> QED BY <1>3, <1>4, <1>5, <1>6, <1>7, <1>8 DEF Next, Main

\* References and open descriptors are the same thing, on every path of browse_callback,
\* resolve_common and the other callbacks, for any number of slots.
THEOREM ReferencesAreOwned == Spec => []RefsOwned
<1>1. Init => RefsOwned
  BY DEF Init, RefsOwned
<1>2. PartType /\ RefsOwned /\ [Next]_vars => RefsOwned'
  BY NextOwned
<1> QED BY <1>1, <1>2, PartTypeCorrect, PTL DEF Spec

-----------------------------------------------------------------------------
(* The walk. *)

\* What select() and the walk rely on: no closed reference is selected, the selected ones
\* are still ahead, and those that can be read when they are reached were readable when
\* select() returned and have not been read since.
WalkInv ==
  /\ \A r \in selected : Open(r)
  /\ pc \in {"browse", "loop", "stats"} => selected = {}
  /\ pc \in {"process", "result"} => selected \subseteq todo
  /\ pc \in {"process", "result"} => \A r \in selected : ref[r] \in fdset => ref[r] \in hasData
  /\ pc = "result" => cur \notin selected

\* Closing and opening references deselects them, and touches the data of no other.
LEMMA CloseStepWalk ==
  ASSUME PartType, RefsOwned, WalkInv, CloseStep \/ ReopenStep, pc' \in {pc, "done"},
         UNCHANGED <<todo, fdset, cur>>
  PROVE  WalkInv'
<1>1. /\ selected' \subseteq selected
      /\ \A r \in selected' : /\ ref[r] # NoFd /\ ref'[r] = ref[r]
                              /\ ref[r] \in hasData => ref[r] \in hasData'
  <2>1. ASSUME NEW R \in SUBSET Refs, Close(R)
        PROVE  /\ selected' = selected \ R
               /\ \A r \in selected' : /\ ref[r] # NoFd /\ ref'[r] = ref[r]
                                       /\ ref[r] \in hasData => ref[r] \in hasData'
    <3>1. selected' = selected \ R /\ hasData' = hasData \ ClosedFds(R)
      BY <2>1 DEF Close, Deselected
    <3>2. ASSUME NEW r \in selected'
          PROVE  r \in Refs \ R /\ Open(r) /\ ref'[r] = ref[r] /\ ref[r] \notin ClosedFds(R)
      <4>1. r \in Refs \ R /\ Open(r)
        BY <3>1 DEF WalkInv, PartType, RefType
      <4>2. ref[r] \notin ClosedFds(R)
        BY <4>1, OneOwner DEF ClosedFds, Open
      <4> QED BY <2>1, <4>1, <4>2, CloseEffect DEF PartType
    <3> QED BY <3>1, <3>2 DEF Open
  <2>2. ASSUME NEW R \in SUBSET Refs, NEW r \in Refs, NEW x, r \in R \/ ~Open(r), Reopen(R, r, x)
        PROVE  /\ selected' = selected \ R
               /\ \A q \in selected' : /\ ref[q] # NoFd /\ ref'[q] = ref[q]
                                       /\ ref[q] \in hasData => ref[q] \in hasData'
    <3>1. selected' = selected \ R /\ hasData' = hasData \ ClosedFds(R)
      BY <2>2 DEF Reopen, Deselected
    <3>2. ASSUME NEW q \in selected'
          PROVE  q \in Refs \ R /\ Open(q) /\ ref'[q] = ref[q] /\ ref[q] \notin ClosedFds(R)
      <4>1. q \in Refs \ R /\ Open(q)
        BY <3>1 DEF WalkInv, PartType, RefType
      <4>2. ref[q] \notin ClosedFds(R)
        BY <4>1, OneOwner DEF ClosedFds, Open
      <4>3. q # r
        BY <2>2, <4>1
      <4>4. ref'[q] = ref[q]
        <5>1. PICK fd \in Fds \cup ClosedFds(R) :
                ref' = [p \in Refs |-> IF p = r THEN fd ELSE IF p \in R THEN NoFd ELSE ref[p]]
          BY <2>2 DEF Reopen
        <5> QED BY <4>1, <4>3, <5>1
      <4> QED BY <4>1, <4>2, <4>4
    <3> QED BY <3>1, <3>2 DEF Open
  <2> QED BY <2>1, <2>2 DEF CloseStep, ReopenStep
<1>2. CASE pc' = pc
  <2>1. pc \in {"process", "result"} => \A r \in selected' : ref'[r] \in fdset' => ref'[r] \in hasData'
    <3> SUFFICES ASSUME pc \in {"process", "result"}, NEW r \in selected', ref'[r] \in fdset'
                 PROVE  ref'[r] \in hasData'
      OBVIOUS
    <3> QED BY <1>1 DEF WalkInv
  <2>2. \A r \in selected' : ref'[r] # NoFd
    BY <1>1
  <2>3. /\ pc \in {"browse", "loop", "stats"} => selected' = {}
        /\ pc \in {"process", "result"} => selected' \subseteq todo'
        /\ pc = "result" => cur' \notin selected'
    BY <1>1 DEF WalkInv
  <2> QED BY <1>2, <2>1, <2>2, <2>3 DEF WalkInv, Open
<1>3. CASE pc' = "done"
  BY <1>1, <1>3 DEF WalkInv, Open
<1> QED BY <1>2, <1>3

LEMMA NextWalk ==
  ASSUME PartType, RefsOwned, WalkInv, [Next]_vars
  PROVE  WalkInv'
<1>1. ASSUME UNCHANGED <<ref, selected, hasData, fdset, todo, cur>>, pc' \in {pc, "done"}
      PROVE  WalkInv'
  BY <1>1 DEF WalkInv, Open
<1>2. ASSUME NEW b \in Browses, Browse(b) PROVE WalkInv'
  BY <1>1, <1>2, BrowseStep, CloseStepWalk DEF Browse, around, table
<1>3. CASE Browsing
  BY <1>3 DEF Browsing, WalkInv, Open, around, table
<1>4. CASE SelectRefs
  BY <1>4 DEF SelectRefs, WalkInv, Open
<1>5. CASE Select
  <2>1. CASE pc' = "done"
    BY <1>1, <1>5, <2>1 DEF Select, table, WalkInv, Open
  <2>2. CASE pc' = "process"
    BY <1>5, <2>2 DEF Select, table, WalkInv, Open, PartType, RefType
  <2> QED BY <1>5, <2>1, <2>2 DEF Select
<1>6. CASE EndWalk
  BY <1>6 DEF EndWalk, WalkInv, Open
<1>7. CASE Tail
  BY <1>7 DEF Tail, WalkInv, Open, table
<1>8. ASSUME NEW r \in Refs, Visit(r) PROVE WalkInv'
  <2>1. selected' = selected \ {q \in todo : Open(q) /\ ~Before(r, q)}
        /\ todo' = {q \in todo : Before(r, q)} /\ cur' = r /\ r \in todo /\ Open(r)
        /\ UNCHANGED <<ref, hasData, fdset>> /\ pc = "process" /\ pc' = "result"
    BY <1>8 DEF Visit, Eligible, Readable
  <2>2. selected' \subseteq todo' /\ selected' \subseteq selected
    BY <2>1 DEF WalkInv
  <2>3. r \notin selected'
    BY <2>1, BeforeIrreflexive
  <2> QED BY <2>1, <2>2, <2>3 DEF WalkInv, Open
<1>9. CASE ProcessReturns
  <2>1. ASSUME NEW r \in selected PROVE ref[r] # ref[cur]
    BY <1>9, OneOwner DEF ProcessReturns, WalkInv, Open, PartType, RefType, RestType
  <2> QED BY <1>9, <2>1 DEF ProcessReturns, WalkInv, Open, around
<1>10. ASSUME NEW n \in Names, NEW i \in Interfaces, BrowseAdd(n, i) \/ BrowseRemove(n, i)
       PROVE  WalkInv'
  <2>1. pc' \in {pc, "done"} /\ UNCHANGED <<todo, fdset, cur>>
    BY <1>10 DEF BrowseAdd, BrowseRemove, around
  <2>2. CASE UNCHANGED table
    BY <1>1, <2>1, <2>2 DEF table
  <2> QED BY <1>10, <2>1, <2>2, BrowseReplyStep, CloseStepWalk
<1>11. CASE Reply
  <2>1. UNCHANGED <<pc, todo, fdset, cur>>
    BY <1>11 DEF Reply, ResolveReply, LlqReply, GetAddrInfoReply, QueryReply, around
  <2> QED BY <1>11, <2>1, ReplyStep, CloseStepWalk
<1>12. CASE Interrupt \/ Finished \/ UNCHANGED vars
  BY <1>1, <1>12 DEF Interrupt, Finished, vars, table
<1>13. ASSUME NEW fd \in Fds, DataArrives(fd) PROVE WalkInv'
  BY <1>13 DEF DataArrives, WalkInv, Open, around
<1> QED BY <1>2, <1>3, <1>4, <1>5, <1>6, <1>7, <1>8, <1>9, <1>10, <1>11, <1>12, <1>13
        DEF Next, Main

LEMMA WalkInvariant == Spec => []WalkInv
<1>1. Init => WalkInv
  BY DEF Init, WalkInv
<1>2. PartType /\ RefsOwned /\ WalkInv /\ [Next]_vars => WalkInv'
  BY NextWalk
<1> QED BY <1>1, <1>2, PartTypeCorrect, ReferencesAreOwned, PTL DEF Spec

\* The assertions of process_ref hold: a closed reference is never selected, and no
\* reference is when main selects them again.
THEOREM SelectionIsSound == Spec => []SelectedSound
<1>1. WalkInv => SelectedSound
  BY DEF WalkInv, SelectedSound
<1> QED BY <1>1, WalkInvariant, PTL

\* process_ref never calls DNSServiceProcessResult for a socket without data, although
\* descriptor numbers are used again between select() and the visit.
THEOREM ProcessingNeverBlocks == Spec => NeverBlocks
<1>1. WalkInv /\ [Next]_vars => [pc' = "result" /\ pc # "result" => ref[cur'] \in hasData]_vars
  <2> SUFFICES ASSUME WalkInv, [Next]_vars, pc' = "result", pc # "result"
               PROVE  ref[cur'] \in hasData
    OBVIOUS
  <2>1. PICK r \in Refs : Visit(r)
    BY DEF Next, Main, Browse, Browsing, SelectRefs, Select, EndWalk, Tail, ProcessReturns, Reply,
           ResolveReply, LlqReply, GetAddrInfoReply, QueryReply, Interrupt, Finished, BrowseAdd,
           BrowseRemove, DataArrives, vars, Answering
  <2> QED BY <2>1 DEF Visit, Eligible, Readable, WalkInv
<1> QED BY <1>1, WalkInvariant, PTL DEF Spec, NeverBlocks

-----------------------------------------------------------------------------
(* What the references are open for. *)

\* With -r a query starts only when its slot's resolve has ended, and an address is found
\* only after that.
SlotFit(s) ==
  /\ Open(ResolveRef(s)) => serving[ref[ResolveRef(s)]][2] = adverts[s].name
  /\ Open(QueryRef(s)) => serving[ref[QueryRef(s)]][2] = adverts[s].target
  /\ opt.mode = "-r" /\ adverts[s].addr # NoHost => adverts[s].addr = adverts[s].target
  /\ opt.mode = "-r" /\ Open(ResolveRef(s)) => adverts[s].addr = NoHost /\ ~Open(QueryRef(s))

FitInv == \A s \in Slots : SlotFit(s)

\* A step that leaves a reference as it is, or closes it.
Kept(q) == ref'[q] = NoFd \/ (ref'[q] = ref[q] /\ serving'[ref[q]] = serving[ref[q]])

LEMMA CloseKeeps ==
  ASSUME PartType, RefsOwned, NEW R \in SUBSET Refs, Close(R)
  PROVE  \A q \in Refs : Kept(q)
BY CloseEffect DEF PartType, Kept, Open

LEMMA ReopenKeeps ==
  ASSUME PartType, RefsOwned, NEW R \in SUBSET Refs, NEW r \in Refs, NEW x,
         r \in R \/ ~Open(r), Reopen(R, r, x)
  PROVE  \A q \in Refs \ {r} : Kept(q)
<1> RefType
  BY DEF PartType
<1>1. \A q \in R \ {r} : ref'[q] = NoFd
  BY DEF Reopen
<1>2. \A q \in Refs \ (R \cup {r}) :
        ref'[q] = ref[q] /\ (Open(q) => serving'[ref[q]] = serving[ref[q]])
  BY ReopenEffect, Zenon
<1> QED BY <1>1, <1>2 DEF Kept, Open

\* Both ways of renewing the references of R, of which r may be opened again.
LEMMA RenewEffect ==
  ASSUME PartType, RefsOwned, NEW R \in SUBSET Refs, NEW r \in R, NEW x,
         Close(R) \/ Reopen(R, r, x)
  PROVE  /\ \A q \in Refs \ {r} : Kept(q)
         /\ \A q \in R \ {r} : ref'[q] = NoFd
         /\ ref'[r] = NoFd \/ serving'[ref'[r]] = <<r, x>>
<1> RefType
  BY DEF PartType
<1> r \in Refs
  OBVIOUS
<1>1. CASE Close(R)
  <2>1. \A q \in R : ref'[q] = NoFd
    BY <1>1, CloseEffect
  <2> QED BY <1>1, <2>1, CloseKeeps
<1>2. CASE Reopen(R, r, x)
  <2>1. \A q \in R \ {r} : ref'[q] = NoFd
    BY <1>2 DEF Reopen
  <2>2. serving'[ref'[r]] = <<r, x>>
    <3>1. PICK fd \in {f \in Fds : serving[f] = Idle} \cup ClosedFds(R) :
            /\ ref' = [q \in Refs |-> IF q = r THEN fd ELSE IF q \in R THEN NoFd ELSE ref[q]]
            /\ serving' = [f \in Fds |-> IF f = fd THEN <<r, x>>
                                         ELSE IF f \in ClosedFds(R) THEN Idle ELSE serving[f]]
      BY <1>2 DEF Reopen
    <3>2. fd \in Fds
      BY DEF ClosedFds, RefType
    <3> QED BY <3>1, <3>2
  <2> QED BY <1>2, <2>1, <2>2, ReopenKeeps
<1> QED BY <1>1, <1>2

LEMMA KeepsFit ==
  ASSUME NEW s \in Slots, SlotFit(s), adverts'[s] = adverts[s], opt' = opt,
         Kept(ResolveRef(s)), Kept(QueryRef(s))
  PROVE  SlotFit(s)'
BY DEF SlotFit, Kept, Open

\* resolve_common fits its slot to the new target.
LEMMA ResolveCommonFits ==
  ASSUME PartType, AdvertType, RefsOwned, FitInv, opt' = opt,
         NEW s \in Slots, NEW R \in SUBSET {ResolveRef(s)}, NEW h \in Hosts,
         NEW txt \in BOOLEAN, resolve_common(s, R, h, txt),
         opt.mode = "-r" => Open(ResolveRef(s)) /\ R = {ResolveRef(s)}
  PROVE  FitInv'
<1> DEFINE Q == R \cup {QueryRef(s)}
<1>1. Q \in SUBSET Refs /\ QueryRef(s) \in Refs /\ ResolveRef(s) \in Refs
      /\ ResolveRef(s) # QueryRef(s)
  BY SlotRefsAreRefs
<1>2. PICK t : adverts' = [adverts EXCEPT ![s] = Retargeted(adverts[s], h, t)]
  BY DEF resolve_common
<1>3. Close(Q) \/ Reopen(Q, QueryRef(s), h)
  BY DEF resolve_common
<1> HIDE DEF Q
<1>e. /\ \A q \in Refs \ {QueryRef(s)} : Kept(q)
      /\ \A q \in Q \ {QueryRef(s)} : ref'[q] = NoFd
      /\ ref'[QueryRef(s)] = NoFd \/ serving'[ref'[QueryRef(s)]] = <<QueryRef(s), h>>
  <2>1. QueryRef(s) \in Q
    BY DEF Q
  <2> QED BY <1>1, <1>3, <2>1, RenewEffect
<1>4. \A q \in Refs \ {QueryRef(s)} : Kept(q)
  BY <1>e
<1>5. ref'[QueryRef(s)] = NoFd \/ serving'[ref'[QueryRef(s)]] = <<QueryRef(s), h>>
  BY <1>e
<1>6. ASSUME ResolveRef(s) \in R
      PROVE  ref'[ResolveRef(s)] = NoFd
  BY <1>1, <1>6, <1>e DEF Q
<1>7. /\ adverts'[s].name = adverts[s].name /\ adverts'[s].target = h
      /\ adverts'[s].addr = adverts[s].addr
  BY <1>2 DEF AdvertType, Retargeted
<1>8. SlotFit(s)'
  <2>1. Kept(ResolveRef(s)) /\ SlotFit(s)
    BY <1>1, <1>4 DEF FitInv
  <2>2. Open(ResolveRef(s))' => serving'[ref'[ResolveRef(s)]][2] = adverts'[s].name
    BY <1>7, <2>1 DEF SlotFit, Kept, Open
  <2>3. Open(QueryRef(s))' => serving'[ref'[QueryRef(s)]][2] = adverts'[s].target
    BY <1>5, <1>7 DEF Open
  <2>4. opt.mode = "-r" => adverts'[s].addr = NoHost /\ ~Open(ResolveRef(s))'
    BY <1>6, <1>7, <2>1 DEF SlotFit, Open
  <2> QED BY <2>2, <2>3, <2>4 DEF SlotFit
<1>9. ASSUME NEW u \in Slots, u # s PROVE SlotFit(u)'
  <2>1. Kept(ResolveRef(u)) /\ Kept(QueryRef(u))
    BY <1>4, <1>9, SlotRefsAreRefs, RefsDiffer
  <2>2. adverts'[u] = adverts[u] /\ SlotFit(u)
    BY <1>2, <1>9 DEF AdvertType, FitInv
  <2> QED BY <2>1, <2>2, KeepsFit
<1> QED BY <1>8, <1>9 DEF FitInv

\* A slot that gets a new advert has its own references closed, but for a resolve of it.
LEMMA NewAdvertFits ==
  ASSUME PartType, AdvertType, RefsOwned, FitInv, opt' = opt,
         NEW s \in Slots, NEW n \in Names \cup {NoName}, NEW i,
         adverts' = [adverts EXCEPT ![s] = Found(n, i)],
         Close(SlotRefs(s)) \/ Reopen(SlotRefs(s), ResolveRef(s), n)
  PROVE  FitInv'
<1>1. SlotRefs(s) \in SUBSET Refs /\ ResolveRef(s) \in Refs /\ QueryRef(s) \in Refs
      /\ ResolveRef(s) # QueryRef(s)
      /\ ResolveRef(s) \in SlotRefs(s) /\ QueryRef(s) \in SlotRefs(s)
  BY SlotRefsAreRefs DEF SlotRefs
<1>e. /\ \A q \in Refs \ {ResolveRef(s)} : Kept(q)
      /\ \A q \in SlotRefs(s) \ {ResolveRef(s)} : ref'[q] = NoFd
      /\ ref'[ResolveRef(s)] = NoFd
           \/ serving'[ref'[ResolveRef(s)]] = <<ResolveRef(s), n>>
  BY <1>1, RenewEffect
<1>2. \A q \in Refs \ {ResolveRef(s)} : Kept(q)
  BY <1>e
<1>3. ref'[QueryRef(s)] = NoFd
  BY <1>1, <1>e
<1>4. ref'[ResolveRef(s)] = NoFd \/ serving'[ref'[ResolveRef(s)]] = <<ResolveRef(s), n>>
  BY <1>e
<1>5. adverts'[s].name = n /\ adverts'[s].addr = NoHost
  BY DEF AdvertType, Found
<1>6. SlotFit(s)'
  BY <1>3, <1>4, <1>5 DEF SlotFit, Open
<1>7. ASSUME NEW u \in Slots, u # s PROVE SlotFit(u)'
  <2>1. Kept(ResolveRef(u)) /\ Kept(QueryRef(u))
    BY <1>2, <1>7, SlotRefsAreRefs, RefsDiffer
  <2>2. adverts'[u] = adverts[u] /\ SlotFit(u)
    BY <1>7 DEF AdvertType, FitInv
  <2> QED BY <2>1, <2>2, KeepsFit
<1> QED BY <1>6, <1>7 DEF FitInv

LEMMA KeepsAllFit ==
  ASSUME FitInv, adverts' = adverts, opt' = opt, \A q \in Refs : Kept(q)
  PROVE  FitInv'
BY KeepsFit, SlotRefsAreRefs DEF FitInv

LEMMA NextFit ==
  ASSUME PartType, AdvertType, RefsOwned, FitInv, [Next]_vars
  PROVE  AdvertType' /\ FitInv'
<1>c. /\ cur \in Refs
      /\ cur[3] = "resolve" => SlotOf(cur) \in Slots /\ cur = ResolveRef(SlotOf(cur))
      /\ cur[3] = "query" => SlotOf(cur) \in Slots /\ cur = QueryRef(SlotOf(cur))
  BY RefShape DEF PartType, RestType
<1>k. ASSUME UNCHANGED <<opt, adverts, ref, serving>> PROVE AdvertType' /\ FitInv'
  BY <1>k DEF AdvertType, FitInv, SlotFit, Open
<1>1. ASSUME NEW b \in Browses, Browse(b) PROVE AdvertType' /\ FitInv'
  <2>1. CASE Reopen({}, BrowseRef(b), NoName)
    <3>1. \A q \in Refs \ {BrowseRef(b)} : Kept(q)
      <4>1. ~Open(BrowseRef(b)) /\ BrowseRef(b) \in Refs
        BY <1>1, BrowseRefsAreRefs DEF Browse, Open
      <4> QED BY <2>1, <4>1, ReopenKeeps
    <3>2. adverts' = adverts /\ opt' = opt
      BY <1>1 DEF Browse, around
    <3>3. ASSUME NEW s \in Slots PROVE SlotFit(s)'
      <4>1. Kept(ResolveRef(s)) /\ Kept(QueryRef(s))
        BY <3>1, SlotRefsAreRefs, RefsDiffer
      <4> QED BY <3>2, <4>1, KeepsFit DEF FitInv
    <3> QED BY <3>2, <3>3 DEF AdvertType, FitInv
  <2>2. CASE UNCHANGED table
    BY <1>1, <1>k, <2>2 DEF Browse, table, around
  <2> QED BY <1>1, <2>1, <2>2 DEF Browse
<1>2. ASSUME NEW n \in Names, NEW i \in Interfaces, BrowseAdd(n, i)
      PROVE  AdvertType' /\ FitInv'
  <2>1. CASE Ignored(i)
    BY <1>2, <1>k, <2>1 DEF BrowseAdd, table, around
  <2>2. CASE ~Ignored(i)
    <3>1. PICK s \in SlotNamed(cur[1], NoName) :
            /\ adverts' = [adverts EXCEPT ![s] = Found(n, i)]
            /\ Close(SlotRefs(s)) \/ Reopen(SlotRefs(s), ResolveRef(s), n)
      BY <1>2, <2>2 DEF BrowseAdd
    <3>2. s \in Slots
      BY <1>c, RefShape, SlotNamedInSlots
    <3>3. opt' = opt
      BY <1>2 DEF BrowseAdd, around
    <3>4. AdvertType'
      BY <3>1, <3>2, FoundType DEF AdvertType
    <3>5. n \in Names \cup {NoName}
      OBVIOUS
    <3> QED BY <3>1, <3>2, <3>3, <3>4, <3>5, NewAdvertFits
  <2> QED BY <2>1, <2>2
<1>3. ASSUME NEW n \in Names, NEW i \in Interfaces, BrowseRemove(n, i)
      PROVE  AdvertType' /\ FitInv'
  <2>1. CASE Ignored(i)
    BY <1>3, <1>k, <2>1 DEF BrowseRemove, table, around
  <2>2. CASE ~Ignored(i)
    <3>1. PICK s \in SlotNamed(cur[1], n) :
            adverts' = [adverts EXCEPT ![s] = Blank] /\ Close(SlotRefs(s))
      BY <1>3, <2>2 DEF BrowseRemove
    <3>2. s \in Slots
      BY <1>c, RefShape, SlotNamedInSlots
    <3>3. opt' = opt
      BY <1>3 DEF BrowseRemove, around
    <3>4. AdvertType'
      BY <3>1, <3>2, BlankType DEF AdvertType
    <3>5. adverts' = [adverts EXCEPT ![s] = Found(NoName, 0)] /\ NoName \in Names \cup {NoName}
      BY <3>1 DEF Blank
    <3> QED BY <3>1, <3>2, <3>3, <3>4, <3>5, NewAdvertFits
  <2> QED BY <2>1, <2>2
<1>4. CASE ResolveReply
  <2>1. cur[3] = "resolve" /\ opt' = opt /\ opt.mode = "-r" /\ Open(cur)
    BY <1>4 DEF ResolveReply, Answering, around, Open
  <2>2. CASE Close({cur}) /\ UNCHANGED adverts
    <3>1. \A q \in Refs : Kept(q)
      BY <1>c, <2>2, CloseKeeps
    <3> QED BY <2>1, <2>2, <3>1, KeepsAllFit DEF AdvertType
  <2>3. ASSUME NEW h \in Hosts, NEW txt \in BOOLEAN, resolve_common(SlotOf(cur), {cur}, h, txt)
        PROVE  AdvertType' /\ FitInv'
    <3>1. AdvertType'
      BY <1>c, <2>1, <2>3, ResolveCommonType DEF PartType
    <3>2. {cur} \in SUBSET {ResolveRef(SlotOf(cur))}
      BY <1>c, <2>1
    <3> QED BY <1>c, <2>1, <2>3, <3>1, <3>2, ResolveCommonFits
  <2> QED BY <1>4, <2>2, <2>3 DEF ResolveReply
<1>5. CASE LlqReply
  <2>1. cur[3] = "resolve" /\ opt' = opt /\ opt.mode = "-rl"
    BY <1>5 DEF LlqReply, Answering, around
  <2>2. PICK h \in Hosts : resolve_common(SlotOf(cur), {}, h, FALSE)
    BY <1>5 DEF LlqReply
  <2>3. AdvertType'
    BY <1>c, <2>1, <2>2, ResolveCommonType DEF PartType
  <2>4. {} \in SUBSET {ResolveRef(SlotOf(cur))}
    OBVIOUS
  <2> QED BY <1>c, <2>1, <2>2, <2>3, <2>4, ResolveCommonFits
<1>6. ASSUME GetAddrInfoReply \/ QueryReply PROVE AdvertType' /\ FitInv'
  <2>1. Close({cur}) /\ opt' = opt
    BY <1>6 DEF GetAddrInfoReply, QueryReply, around
  <2>2. \A q \in Refs : Kept(q)
    BY <1>c, <2>1, CloseKeeps
  <2>3. CASE UNCHANGED adverts
    BY <2>1, <2>2, <2>3, KeepsAllFit DEF AdvertType
  <2>4. ASSUME NEW s \in Slots, s = SlotOf(cur), NEW h \in Hosts \cup {NoHost},
               adverts' = [adverts EXCEPT ![s] = Addressed(adverts[s], h)],
               opt.mode = "-r" => h = adverts[s].target /\ ~Open(ResolveRef(s))
        PROVE  AdvertType' /\ FitInv'
    <3>1. AdvertType'
      BY <2>4, AddressedType DEF AdvertType
    <3>2. /\ adverts'[s].name = adverts[s].name /\ adverts'[s].target = adverts[s].target
          /\ adverts'[s].addr = h
      BY <2>4 DEF AdvertType, Addressed
    <3>3. SlotFit(s)'
      <4>1. Kept(ResolveRef(s)) /\ Kept(QueryRef(s)) /\ SlotFit(s)
        BY <2>2, SlotRefsAreRefs DEF FitInv
      <4> QED BY <2>1, <2>4, <3>2, <4>1 DEF SlotFit, Kept, Open
    <3>4. ASSUME NEW u \in Slots, u # s PROVE SlotFit(u)'
      <4>1. adverts'[u] = adverts[u] /\ SlotFit(u)
        BY <2>4, <3>4 DEF AdvertType, FitInv
      <4>2. Kept(ResolveRef(u)) /\ Kept(QueryRef(u))
        BY <2>2, SlotRefsAreRefs
      <4> QED BY <2>1, <4>1, <4>2, KeepsFit
    <3> QED BY <3>1, <3>3, <3>4 DEF FitInv
  <2>5. CASE GetAddrInfoReply /\ ~UNCHANGED adverts
    <3>1. opt.mode = "-a" /\ SlotOf(cur) \in Slots
      BY <1>c, <2>5 DEF GetAddrInfoReply, Answering
    <3>2. PICK h \in Hosts \cup {NoHost} :
            adverts' = [adverts EXCEPT ![SlotOf(cur)] = Addressed(adverts[SlotOf(cur)], h)]
      BY <2>5 DEF GetAddrInfoReply
    <3> QED BY <2>4, <3>1, <3>2
  <2>6. CASE QueryReply /\ ~UNCHANGED adverts
    <3>1. Open(QueryRef(SlotOf(cur))) /\ SlotOf(cur) \in Slots /\ cur = QueryRef(SlotOf(cur))
      BY <1>c, <2>6 DEF QueryReply, Answering, Open
    <3>2. SlotFit(SlotOf(cur))
      BY <3>1 DEF FitInv
    <3>3. serving[ref[cur]][2] = adverts[SlotOf(cur)].target
      BY <3>1, <3>2 DEF SlotFit
    <3>4. adverts[SlotOf(cur)].target \in Hosts \cup {NoHost}
      BY <3>1 DEF AdvertType, Adverts
    <3>5. adverts' = [adverts EXCEPT ![SlotOf(cur)] =
                        Addressed(adverts[SlotOf(cur)], adverts[SlotOf(cur)].target)]
      BY <2>6, <3>3 DEF QueryReply
    <3>6. opt.mode = "-r" => ~Open(ResolveRef(SlotOf(cur)))
      BY <3>1, <3>2 DEF SlotFit
    <3> QED BY <2>4, <3>1, <3>4, <3>5, <3>6
  <2> QED BY <1>6, <2>3, <2>5, <2>6
<1>7. CASE Browsing \/ SelectRefs \/ Select \/ EndWalk \/ Tail \/ ProcessReturns \/ Interrupt
             \/ Finished \/ UNCHANGED vars
  BY <1>7, <1>k DEF Browsing, SelectRefs, Select, EndWalk, Tail, ProcessReturns, Interrupt,
                    Finished, table, around, vars
<1>8. ASSUME NEW r \in Refs, Visit(r) PROVE AdvertType' /\ FitInv'
  BY <1>8, <1>k DEF Visit
<1>9. ASSUME NEW fd \in Fds, DataArrives(fd) PROVE AdvertType' /\ FitInv'
  BY <1>9, <1>k DEF DataArrives, around
<1> QED BY <1>1, <1>2, <1>3, <1>4, <1>5, <1>6, <1>7, <1>8, <1>9 DEF Next, Main, Reply

LEMMA FitInvariant == Spec => [](AdvertType /\ FitInv)
<1>1. Init => AdvertType /\ FitInv
  <2>1. ASSUME Init PROVE AdvertType /\ FitInv
    <3>1. AdvertType
      BY <2>1, BlankType DEF Init, AdvertType
    <3>2. \A s \in Slots : adverts[s].addr = NoHost /\ ~Open(ResolveRef(s)) /\ ~Open(QueryRef(s))
      BY <2>1, SlotRefsAreRefs DEF Init, Blank, Found, Open
    <3> QED BY <3>1, <3>2 DEF FitInv, SlotFit
  <2> QED BY <2>1
<1>2. PartType /\ RefsOwned /\ (AdvertType /\ FitInv) /\ [Next]_vars => (AdvertType /\ FitInv)'
  BY NextFit
<1> QED BY <1>1, <1>2, PartTypeCorrect, ReferencesAreOwned, PTL DEF Spec

\* Every variable keeps its type; the address of a slot does because a query is always for
\* the slot's target.
THEOREM TypeCorrect == Spec => []TypeOK
<1>1. PartType /\ AdvertType => TypeOK
  BY TypeParts DEF PartType
<1> QED BY <1>1, PartTypeCorrect, FitInvariant, PTL

\* What a slot's references ask is what it holds now, under every option; and with -r,
\* where it is resolved once, its address is its target's.
THEOREM AnswersFitTheirSlot == Spec => []AnswersFit
<1>1. FitInv => AnswersFit
  BY DEF FitInv, SlotFit, AnswersFit
<1> QED BY <1>1, FitInvariant, PTL

-----------------------------------------------------------------------------
(* The directory. *)

\* The row of a browse's table holds its announced services, one to one, and nothing else.
Places(f, b) ==
  /\ f \in [announced[b] -> Slots]
  /\ \A p \in announced[b] : f[p][1] = b /\ adverts[f[p]].name = p[1]
  /\ \A p, q \in announced[b] : f[p] = f[q] => p = q
  /\ \A s \in Slots : s[1] = b /\ adverts[s].name # NoName => \E p \in announced[b] : f[p] = s

Sized(b) == IsFiniteSet(announced[b]) /\ Cardinality(announced[b]) <= MaxAnnounced

DirectoryInv == \A b \in Browses : Sized(b) /\ \E f : Places(f, b)

\* As long as fewer are announced than there are slots, one is free.
LEMMA FreeSlot ==
  ASSUME NEW b \in Browses, IsFiniteSet(announced[b]), NEW f, Places(f, b),
         Cardinality(announced[b]) < MaxAdverts
  PROVE  \E s \in Slots : s[1] = b /\ adverts[s].name = NoName
<1> SUFFICES ASSUME \A s \in Slots : s[1] = b => adverts[s].name # NoName PROVE FALSE
  OBVIOUS
<1> DEFINE holder == [i \in 1 .. MaxAdverts |-> CHOOSE p \in announced[b] : f[p] = <<b, i>>]
<1>1. ASSUME NEW i \in 1 .. MaxAdverts
      PROVE  holder[i] \in announced[b] /\ f[holder[i]] = <<b, i>>
  <2>1. <<b, i>> \in Slots /\ <<b, i>>[1] = b
    BY DEF Slots
  <2>2. \E p \in announced[b] : f[p] = <<b, i>>
    BY <2>1 DEF Places
  <2> QED BY <2>2
<1>2. holder \in [1 .. MaxAdverts -> announced[b]]
  BY <1>1
<1>3. IsFiniteSet(1 .. MaxAdverts) /\ Cardinality(1 .. MaxAdverts) = MaxAdverts
  BY FS_Interval
<1> HIDE DEF holder
<1>4. PICK i \in 1 .. MaxAdverts, j \in 1 .. MaxAdverts : i # j /\ holder[i] = holder[j]
  BY <1>2, <1>3, FS_PigeonHole
<1>5. <<b, i>> = <<b, j>>
  BY <1>1, <1>4
<1> QED BY <1>4, <1>5

\* The slot that the loops over the table find, when there is one to be found.
LEMMA SlotNamedFound ==
  ASSUME NEW b \in Browses, NEW n, NEW s \in SlotNamed(b, n),
         \E t \in Slots : t[1] = b /\ adverts[t].name = n
  PROVE  s \in Slots /\ s[1] = b /\ adverts[s].name = n
BY DEF SlotNamed

\* Nothing of a row changes but what its slots have found.
LEMMA PlacesKept ==
  ASSUME NEW b \in Browses, NEW f, Places(f, b), announced'[b] = announced[b],
         \A s \in Slots : s[1] = b => adverts'[s].name = adverts[s].name
  PROVE  Places(f, b)'
BY DEF Places

\* A service is announced and takes a free slot.
LEMMA PlacesAdded ==
  ASSUME NEW b \in Browses, NEW f, Places(f, b), NEW n \in Names, NEW i \in Interfaces,
         NEW s \in Slots, s[1] = b, adverts[s].name = NoName,
         <<n, i>> \notin announced[b], announced'[b] = announced[b] \cup {<<n, i>>},
         adverts'[s].name = n, \A t \in Slots \ {s} : adverts'[t].name = adverts[t].name,
         announced[b] \subseteq Names \X Interfaces
  PROVE  \E g : Places(g, b)'
<1> DEFINE g == [p \in announced'[b] |-> IF p = <<n, i>> THEN s ELSE f[p]]
<1>1. \A p \in announced[b] : f[p] \in Slots /\ f[p] # s /\ g[p] = f[p]
  BY DEF Places
<1>2. g[<<n, i>>] = s /\ <<n, i>>[1] = n
  OBVIOUS
<1>3. g \in [announced'[b] -> Slots]
  BY <1>1
<1> HIDE DEF g
<1>4. \A p \in announced'[b] : g[p][1] = b /\ adverts'[g[p]].name = p[1]
  BY <1>1, <1>2 DEF Places
<1>5. \A p, q \in announced'[b] : g[p] = g[q] => p = q
  BY <1>1, <1>2 DEF Places
<1>6. ASSUME NEW t \in Slots, t[1] = b, adverts'[t].name # NoName
      PROVE  \E p \in announced'[b] : g[p] = t
  BY <1>1, <1>2, <1>6 DEF Places
<1> QED BY <1>3, <1>4, <1>5, <1>6 DEF Places

\* A service is withdrawn, and the first slot of its name is cleared: the slot that held it
\* goes to the service that was there.
LEMMA PlacesRemoved ==
  ASSUME NEW b \in Browses, NEW f, Places(f, b), NEW n \in Names, NEW i \in Interfaces,
         NEW s \in Slots, s[1] = b, adverts[s].name = n,
         <<n, i>> \in announced[b], announced'[b] = announced[b] \ {<<n, i>>},
         adverts'[s].name = NoName, \A t \in Slots \ {s} : adverts'[t].name = adverts[t].name
  PROVE  \E g : Places(g, b)'
<1>1. n # NoName
  OBVIOUS
<1>2. PICK q \in announced[b] : f[q] = s
  BY <1>1 DEF Places
<1>3. q[1] = n /\ <<n, i>>[1] = n
  BY <1>2 DEF Places
<1> DEFINE g == [p \in announced'[b] |-> IF p = q THEN f[<<n, i>>] ELSE f[p]]
<1>4. g \in [announced'[b] -> Slots]
  BY DEF Places
<1>5. \A p \in announced'[b] : p # q => g[p] = f[p] /\ g[p] # s
  BY <1>2 DEF Places
<1>6. q \in announced'[b] => g[q] = f[<<n, i>>] /\ g[q] # s
  BY <1>2 DEF Places
<1> HIDE DEF g
<1>7. \A p \in announced'[b] : g[p][1] = b /\ adverts'[g[p]].name = p[1]
  BY <1>3, <1>4, <1>5, <1>6 DEF Places
<1>8. \A p, r \in announced'[b] : g[p] = g[r] => p = r
  BY <1>5, <1>6 DEF Places
<1>9. ASSUME NEW t \in Slots, t[1] = b, adverts'[t].name # NoName
      PROVE  \E p \in announced'[b] : g[p] = t
  <2>1. t # s /\ adverts[t].name # NoName
    BY <1>9
  <2>2. PICK r \in announced[b] : f[r] = t
    BY <1>9, <2>1 DEF Places
  <2>3. r # q
    BY <1>2, <2>1, <2>2
  <2>4. CASE r = <<n, i>>
    BY <1>6, <2>2, <2>3, <2>4
  <2>5. CASE r # <<n, i>>
    BY <1>5, <2>2, <2>3, <2>5
  <2> QED BY <2>4, <2>5
<1> QED BY <1>4, <1>7, <1>8, <1>9 DEF Places

\* The replies to lookups change what a slot has found, and never what it is for.
LEMMA ReplyKeepsNames ==
  ASSUME PartType, AdvertType, Reply
  PROVE  \A s \in Slots : adverts'[s].name = adverts[s].name
<1>1. ASSUME NEW s \in Slots, NEW v \in Adverts, v.name = adverts[s].name,
             adverts' = [adverts EXCEPT ![s] = v]
      PROVE  \A t \in Slots : adverts'[t].name = adverts[t].name
  BY <1>1 DEF AdvertType
<1>2. cur[3] \in {"resolve", "query"} => SlotOf(cur) \in Slots
  BY RefShape DEF PartType, RestType
<1>3. ASSUME NEW s \in Slots, NEW R, NEW h \in Hosts, NEW txt \in BOOLEAN,
             resolve_common(s, R, h, txt)
      PROVE  \A t \in Slots : adverts'[t].name = adverts[t].name
  <2>1. PICK x \in BOOLEAN : adverts' = [adverts EXCEPT ![s] = Retargeted(adverts[s], h, x)]
    BY <1>3 DEF resolve_common, AdvertType, Adverts
  <2>2. /\ Retargeted(adverts[s], h, x) \in Adverts
        /\ Retargeted(adverts[s], h, x).name = adverts[s].name
    BY RetargetedType DEF AdvertType, Retargeted
  <2> QED BY <1>1, <2>1, <2>2
<1>4. ASSUME NEW s \in Slots, NEW h, adverts' = [adverts EXCEPT ![s] = Addressed(adverts[s], h)]
      PROVE  \A t \in Slots : adverts'[t].name = adverts[t].name
  BY <1>4 DEF AdvertType, Addressed
<1>5. CASE ResolveReply
  BY <1>2, <1>3, <1>5 DEF ResolveReply, Answering
<1>6. CASE LlqReply
  BY <1>2, <1>3, <1>6 DEF LlqReply, Answering
<1>7. CASE GetAddrInfoReply
  BY <1>2, <1>4, <1>7 DEF GetAddrInfoReply, Answering
<1>8. CASE QueryReply
  BY <1>2, <1>4, <1>8 DEF QueryReply, Answering
<1> QED BY <1>5, <1>6, <1>7, <1>8 DEF Reply

LEMMA NextDirectory ==
  ASSUME MaxAnnounced <= MaxAdverts, PartType, AdvertType, DirectoryInv, [Next]_vars
  PROVE  DirectoryInv'
<1>k. ASSUME \A b \in Browses : announced'[b] = announced[b],
             \A s \in Slots : adverts'[s].name = adverts[s].name
      PROVE  DirectoryInv'
  BY <1>k, PlacesKept DEF DirectoryInv, Sized
<1>c. /\ cur \in Refs /\ cur[1] \in Browses
      /\ announced \in [Browses -> SUBSET (Names \X Interfaces)]
  BY RefShape DEF PartType, RestType
<1>o. ASSUME NEW c \in Browses, NEW b \in Browses, c # b, NEW s \in Slots, s[1] = b, NEW v,
             adverts' = [adverts EXCEPT ![s] = v], announced'[c] = announced[c]
      PROVE  Sized(c)' /\ \E f : Places(f, c)'
  <2>1. \A t \in Slots : t[1] = c => adverts'[t].name = adverts[t].name
    BY <1>o DEF AdvertType
  <2> QED BY <1>o, <2>1, PlacesKept DEF DirectoryInv, Sized
<1>1. ASSUME NEW n \in Names, NEW i \in Interfaces, NEW b \in Browses, b = cur[1],
             BrowseAdd(n, i)
      PROVE  DirectoryInv'
  <2>1. /\ <<n, i>> \notin announced[b] /\ Cardinality(announced[b]) < MaxAnnounced
        /\ announced' = [announced EXCEPT ![b] = announced[b] \cup {<<n, i>>}]
    BY <1>1 DEF BrowseAdd
  <2>2. PICK s \in SlotNamed(b, NoName) : adverts' = [adverts EXCEPT ![s] = Found(n, i)]
    BY <1>1 DEF BrowseAdd, Ignored, g_interface_index
  <2>3. PICK f : Places(f, b)
    BY <1>c DEF DirectoryInv
  <2>4. IsFiniteSet(announced[b]) /\ Cardinality(announced[b]) \in Nat
    BY <1>c, FS_CardinalityType DEF DirectoryInv, Sized
  <2>5. s \in Slots /\ s[1] = b /\ adverts[s].name = NoName
    <3>1. \E t \in Slots : t[1] = b /\ adverts[t].name = NoName
      BY <1>c, <2>1, <2>3, <2>4, FreeSlot
    <3> QED BY <1>c, <3>1, SlotNamedFound
  <2>6. /\ announced'[b] = announced[b] \cup {<<n, i>>}
        /\ \A c \in Browses \ {b} : announced'[c] = announced[c]
    BY <1>c, <2>1
  <2>7. /\ adverts'[s].name = n
        /\ \A t \in Slots \ {s} : adverts'[t].name = adverts[t].name
    BY <2>2, <2>5 DEF AdvertType, Found
  <2>8. Sized(b)'
    <3>1. \A x : x \notin announced[b] =>
            /\ IsFiniteSet(announced[b] \cup {x})
            /\ Cardinality(announced[b] \cup {x}) = Cardinality(announced[b]) + 1
      BY <2>4, FS_AddElement
    <3>2. /\ IsFiniteSet(announced'[b])
          /\ Cardinality(announced'[b]) = Cardinality(announced[b]) + 1
      BY <2>1, <2>6, <3>1
    <3> QED BY <2>1, <2>4, <3>2 DEF Sized
  <2>9. \E g : Places(g, b)'
    BY <1>c, <2>1, <2>3, <2>5, <2>6, <2>7, PlacesAdded
  <2> QED BY <1>c, <1>o, <2>2, <2>5, <2>6, <2>8, <2>9 DEF DirectoryInv
<1>2. ASSUME NEW n \in Names, NEW i \in Interfaces, NEW b \in Browses, b = cur[1],
             BrowseRemove(n, i)
      PROVE  DirectoryInv'
  <2>1. /\ <<n, i>> \in announced[b]
        /\ announced' = [announced EXCEPT ![b] = announced[b] \ {<<n, i>>}]
    BY <1>2 DEF BrowseRemove
  <2>2. PICK s \in SlotNamed(b, n) : adverts' = [adverts EXCEPT ![s] = Blank]
    BY <1>2 DEF BrowseRemove, Ignored, g_interface_index
  <2>3. PICK f : Places(f, b)
    BY <1>c DEF DirectoryInv
  <2>4. IsFiniteSet(announced[b]) /\ Cardinality(announced[b]) \in Nat
    BY <1>c, FS_CardinalityType DEF DirectoryInv, Sized
  <2>5. s \in Slots /\ s[1] = b /\ adverts[s].name = n
    <3>1. \E t \in Slots : t[1] = b /\ adverts[t].name = n
      BY <2>1, <2>3 DEF Places
    <3> QED BY <1>c, <3>1, SlotNamedFound
  <2>6. /\ announced'[b] = announced[b] \ {<<n, i>>}
        /\ \A c \in Browses \ {b} : announced'[c] = announced[c]
    BY <1>c, <2>1
  <2>7. /\ adverts'[s].name = NoName
        /\ \A t \in Slots \ {s} : adverts'[t].name = adverts[t].name
    BY <2>2, <2>5 DEF AdvertType, Blank, Found
  <2>8. Sized(b)'
    <3>1. Cardinality(announced[b]) <= MaxAnnounced
      BY <1>c DEF DirectoryInv, Sized
    <3>2. \A x \in announced[b] :
            /\ IsFiniteSet(announced[b] \ {x})
            /\ Cardinality(announced[b] \ {x}) = Cardinality(announced[b]) - 1
      BY <2>4, FS_RemoveElement
    <3>3. /\ IsFiniteSet(announced'[b])
          /\ Cardinality(announced'[b]) = Cardinality(announced[b]) - 1
      BY <2>1, <2>6, <3>2
    <3> QED BY <2>4, <3>1, <3>3 DEF Sized
  <2>9. \E g : Places(g, b)'
    BY <1>c, <2>1, <2>3, <2>5, <2>6, <2>7, PlacesRemoved
  <2> QED BY <1>c, <1>o, <2>2, <2>5, <2>6, <2>8, <2>9 DEF DirectoryInv
<1>3. CASE Reply
  <2>1. announced' = announced
    BY <1>3 DEF Reply, ResolveReply, LlqReply, GetAddrInfoReply, QueryReply
  <2> QED BY <1>3, <1>k, <2>1, ReplyKeepsNames
<1>4. ASSUME NEW b \in Browses, Browse(b) PROVE DirectoryInv'
  BY <1>4, <1>k DEF Browse
<1>5. CASE Browsing \/ SelectRefs \/ Select \/ EndWalk \/ Tail \/ ProcessReturns \/ Interrupt
             \/ Finished \/ UNCHANGED vars
  BY <1>5, <1>k DEF Browsing, SelectRefs, Select, EndWalk, Tail, ProcessReturns, Interrupt,
                    Finished, table, vars
<1>6. ASSUME NEW r \in Refs, Visit(r) PROVE DirectoryInv'
  BY <1>6, <1>k DEF Visit
<1>7. ASSUME NEW fd \in Fds, DataArrives(fd) PROVE DirectoryInv'
  BY <1>7, <1>k DEF DataArrives
<1> QED BY <1>c, <1>1, <1>2, <1>3, <1>4, <1>5, <1>6, <1>7 DEF Next, Main

LEMMA InitDirectory ==
  ASSUME Init
  PROVE  DirectoryInv
<1> SUFFICES ASSUME NEW b \in Browses PROVE Sized(b) /\ \E f : Places(f, b)
  BY DEF DirectoryInv
<1>1. announced[b] = {} /\ \A s \in Slots : adverts[s].name = NoName
  BY DEF Init, Blank, Found
<1>2. Sized(b)
  BY <1>1, FS_EmptySet DEF Sized
<1>3. Places([p \in {} |-> b], b)
  BY <1>1 DEF Places
<1> QED BY <1>2, <1>3

\* One to one row by row is one to one name by name.
LEMMA PlacesAreExact ==
  ASSUME DirectoryInv, RestType, NEW b \in Browses, NEW n \in Names
  PROVE  Cardinality({s \in Slots : s[1] = b /\ adverts[s].name = n})
           = Cardinality({i \in Interfaces : <<n, i>> \in announced[b]})
<1> DEFINE Held == {s \in Slots : s[1] = b /\ adverts[s].name = n}
           Told == {i \in Interfaces : <<n, i>> \in announced[b]}
<1>1. PICK f : Places(f, b)
  BY DEF DirectoryInv
<1> DEFINE place == [i \in Told |-> f[<<n, i>>]]
<1>2. \A i \in Told : place[i] = f[<<n, i>>] /\ <<n, i>> \in announced[b] /\ <<n, i>>[1] = n
  OBVIOUS
<1>3. place \in [Told -> Held]
  BY <1>1, <1>2 DEF Places
<1>4. \A i, j \in Told : place[i] = place[j] => i = j
  <2> SUFFICES ASSUME NEW i \in Told, NEW j \in Told, place[i] = place[j] PROVE i = j
    OBVIOUS
  <2>1. <<n, i>> = <<n, j>>
    BY <1>1, <1>2 DEF Places
  <2> QED BY <2>1
<1>5. ASSUME NEW s \in Held PROVE \E i \in Told : place[i] = s
  <2>1. PICK p \in announced[b] : f[p] = s
    BY <1>1 DEF Places
  <2>2. p \in Names \X Interfaces /\ p[1] = n
    BY <1>1, <2>1 DEF Places, RestType
  <2>3. p = <<n, p[2]>> /\ p[2] \in Told
    BY <2>2
  <2> QED BY <2>1, <2>3
<1>6. place \in Bijection(Told, Held)
  BY <1>3, <1>4, <1>5 DEF Bijection, Injection, Surjection, IsInjective
<1>7. IsFiniteSet(Told)
  <2>1. IsFiniteSet(announced[b])
    BY DEF DirectoryInv, Sized
  <2> DEFINE pair == [i \in Told |-> <<n, i>>]
  <2>2. pair \in Injection(Told, announced[b])
    BY DEF Injection, IsInjective
  <2> HIDE DEF pair
  <2> QED BY <2>1, <2>2, FS_Injection
<1>8. ExistsBijection(Told, Held)
  BY <1>6 DEF ExistsBijection
<1> QED BY <1>7, <1>8, FS_Bijection

\* While the table is large enough for what is announced, it has each service as often as the
\* daemon has announced it and not withdrawn it, whatever the interfaces and the order.
THEOREM DirectoryIsExact == MaxAnnounced <= MaxAdverts => (Spec => []DirectoryExact)
<1> SUFFICES ASSUME MaxAnnounced <= MaxAdverts PROVE Spec => []DirectoryExact
  OBVIOUS
<1>1. Init => DirectoryInv
  BY InitDirectory
<1>2. PartType /\ (AdvertType /\ FitInv) /\ DirectoryInv /\ [Next]_vars => DirectoryInv'
  BY NextDirectory
<1>3. PartType /\ DirectoryInv => DirectoryExact
  BY PlacesAreExact DEF PartType, DirectoryExact
<1> QED BY <1>1, <1>2, <1>3, PartTypeCorrect, FitInvariant, PTL DEF Spec

=============================================================================
