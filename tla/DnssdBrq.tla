------------------------------ MODULE DnssdBrq ------------------------------
(***************************************************************************)
(* The DNS-SD browser, examples/dnssd/dnssd_brq.c.  It browses for some    *)
(* service types, keeps a table of the adverts found for each, and for     *)
(* each advert holds a resolve and a query reference to the mDNS daemon.   *)
(* One loop selects the sockets of all its references and walks over them; *)
(* the callbacks made on the way open and close other references, so that  *)
(* descriptors are closed, and their numbers used again, under the walk.   *)
(* The dns_sd library is external: it serves each reference on a socket of *)
(* its own, and calls back only from DNSServiceProcessResult.              *)
(***************************************************************************)
EXTENDS Naturals, FiniteSets

CONSTANTS
  NumBrowses,   \* g_num_browses, the -b options
  MaxAdverts,   \* MAX_ADVERTS
  Names,        \* service names
  Hosts,        \* host targets, and the addresses they have
  Interfaces,   \* interface indexes, above 0
  Options,      \* the command lines the program may be started with
  MaxAnnounced, \* bound on the adverts the daemon announces to one browse
  NumFds,       \* bound on descriptor numbers
  NoName, NoHost, Idle

Browses == 1 .. NumBrowses
Slots   == Browses \X (1 .. MaxAdverts)
Fds     == 1 .. NumFds
NoFd    == 0

\* What -a, -rl and -r make of an advert (mode), -q (query) and -x (exit).
CommandLines == [mode : {"none", "-a", "-rl", "-r"}, query : BOOLEAN, exit : BOOLEAN]

\* Every brq_ref_t of the program: of a browse, or of a slot of its table.
BrowseRef(b)  == <<b, 0, "browse">>
ResolveRef(s) == <<s[1], s[2], "resolve">>
QueryRef(s)   == <<s[1], s[2], "query">>
SlotRefs(s)   == {ResolveRef(s), QueryRef(s)}
SlotOf(r)     == <<r[1], r[2]>>
Refs == {BrowseRef(b) : b \in Browses}
          \cup {ResolveRef(s) : s \in Slots} \cup {QueryRef(s) : s \in Slots}

\* The order in which main walks over them.
Before(q, r) ==
  \/ q[1] < r[1]
  \/ q[1] = r[1] /\ q[2] < r[2]
  \/ q[1] = r[1] /\ q[2] = r[2] /\ q[3] = "resolve" /\ r[3] = "query"

\* A brq_advert_t, its references apart.
Adverts == [name : Names \cup {NoName}, intf : Interfaces \cup {0},
            target : Hosts \cup {NoHost}, txt : BOOLEAN, addr : Hosts \cup {NoHost}]
Found(n, i)          == [name |-> n, intf |-> i, target |-> NoHost, txt |-> FALSE, addr |-> NoHost]
Blank                == Found(NoName, 0)
Retargeted(v, h, t)  == [name |-> v.name, intf |-> v.intf, target |-> h, txt |-> t, addr |-> v.addr]
Addressed(v, h)      == [name |-> v.name, intf |-> v.intf, target |-> v.target, txt |-> v.txt, addr |-> h]

\* What the daemon does for a reference: it answers it about a name or a host.
Service == Refs \X (Names \cup Hosts \cup {NoName})

\* brq_stats_t
NoStats == [select |-> 0, process |-> 0, browsed |-> 0, resolving |-> 0,
            resolved |-> 0, querying |-> 0, queried |-> 0]

\* -i sets an index of main's own: the one the filter reads is never assigned.
g_interface_index == 0

ASSUME BrqAssumption ==
  /\ NumBrowses \in Nat \ {0} /\ MaxAdverts \in Nat \ {0} /\ NumFds \in Nat
  /\ Options \subseteq CommandLines
  /\ Interfaces \subseteq Nat \ {0}
  /\ MaxAnnounced \in Nat
  /\ NoName \notin Names /\ NoHost \notin Hosts /\ Idle \notin Service

VARIABLES
  opt,       \* the options, as main has parsed them
  pc,        \* where main is; "result" is inside DNSServiceProcessResult
  running,   \* g_running
  adverts,   \* the tables of adverts
  ref,       \* the descriptor of each open reference
  selected,  \* the references whose selected is not 0
  fdset,     \* fds, as select() left it
  todo,      \* the references main has not walked over yet
  cur,       \* the reference being processed
  serving,   \* at the daemon: what each descriptor is open for
  hasData,   \* the descriptors that can be read without blocking
  announced, \* at the daemon: what each browse has been told of
  highest,   \* n_select
  processed, \* n_process
  last,      \* last_stats
  stable     \* stable, as far as it is compared: 0, 1 or more

table == <<adverts, ref, selected, serving, hasData>>
count == <<highest, processed, last, stable>>
vars  == <<opt, pc, running, adverts, ref, selected, fdset, todo, cur, serving, hasData,
           announced, highest, processed, last, stable>>

TypeOK ==
  /\ opt \in Options
  /\ pc \in {"browse", "loop", "select", "process", "result", "stats", "done"}
  /\ running \in BOOLEAN
  /\ adverts \in [Slots -> Adverts]
  /\ ref \in [Refs -> Fds \cup {NoFd}]
  /\ selected \subseteq Refs
  /\ fdset \subseteq Fds
  /\ todo \subseteq Refs
  /\ cur \in Refs
  /\ serving \in [Fds -> Service \cup {Idle}]
  /\ hasData \subseteq Fds
  /\ announced \in [Browses -> SUBSET (Names \X Interfaces)]
  /\ highest \in Fds \cup {NoFd}
  /\ processed \in Nat
  /\ last \in [DOMAIN NoStats -> Nat]
  /\ stable \in 0 .. 2

Init ==
  /\ opt \in Options
  /\ pc = "browse" /\ running = TRUE
  /\ adverts = [s \in Slots |-> Blank]
  /\ ref = [r \in Refs |-> NoFd]
  /\ selected = {} /\ fdset = {} /\ todo = {}
  /\ cur = BrowseRef(1)
  /\ serving = [fd \in Fds |-> Idle]
  /\ hasData = {}
  /\ announced = [b \in Browses |-> {}]
  /\ highest = NoFd /\ processed = 0 /\ last = NoStats /\ stable = 0

-----------------------------------------------------------------------------
(* References. *)

ClosedFds(R) == {ref[r] : r \in R} \ {NoFd}

\* A bug in cleanup_ref: a closed reference stays selected.
DeselectedNever(R) == UNCHANGED selected

Deselected(R) == selected' = selected \ R

\* cleanup_ref of each reference of R.
Close(R) ==
  /\ ref' = [r \in Refs |-> IF r \in R THEN NoFd ELSE ref[r]]
  /\ serving' = [fd \in Fds |-> IF fd \in ClosedFds(R) THEN Idle ELSE serving[fd]]
  /\ hasData' = hasData \ ClosedFds(R)
  /\ Deselected(R)

\* cleanup_ref of each reference of R, and a service about x opened for r, one of them:
\* its socket gets the lowest free number.
Reopen(R, r, x) ==
  LET free == {fd \in Fds : serving[fd] = Idle} \cup ClosedFds(R) IN
  \E fd \in free :
    /\ \A other \in free : fd <= other
    /\ ref' = [q \in Refs |-> IF q = r THEN fd ELSE IF q \in R THEN NoFd ELSE ref[q]]
    /\ serving' = [f \in Fds |-> IF f = fd THEN <<r, x>>
                                 ELSE IF f \in ClosedFds(R) THEN Idle ELSE serving[f]]
    /\ hasData' = hasData \ ClosedFds(R)
    /\ Deselected(R)

-----------------------------------------------------------------------------
(* Callbacks, made while main is inside DNSServiceProcessResult. *)

\* The daemon answers the reference that is being processed.
Answering(kind) == pc = "result" /\ cur[3] = kind /\ ref[cur] # NoFd

around == <<opt, running, fdset, todo, cur, count>>

\* The interface filter of browse_callback.
Ignored(i) == i # 0 /\ g_interface_index # 0 /\ i # g_interface_index

\* A bug in the loops over the table: the first slot in use is taken for the one that matches.
SlotBusy(b, n) ==
  LET busy == {s \in Slots : s[1] = b /\ adverts[s].name # NoName} IN
  IF busy = {} THEN {<<b, MaxAdverts>>} ELSE {s \in busy : \A t \in busy : s[2] <= t[2]}

\* The first slot whose name is n, or else the last slot.
SlotNamed(b, n) ==
  LET named == {s \in Slots : s[1] = b /\ adverts[s].name = n} IN
  IF named = {} THEN {<<b, MaxAdverts>>} ELSE {s \in named : \A t \in named : s[2] <= t[2]}

\* browse_callback of an added service.  Failing to start its resolve exits.
BrowseAdd(n, i) ==
  LET b == cur[1] IN
  /\ Answering("browse")
  /\ <<n, i>> \notin announced[b] /\ Cardinality(announced[b]) < MaxAnnounced
  /\ announced' = [announced EXCEPT ![b] = @ \cup {<<n, i>>}]
  /\ UNCHANGED around
  /\ IF Ignored(i) THEN UNCHANGED <<pc, table>>
     ELSE \E s \in SlotNamed(b, NoName) :
             /\ adverts' = [adverts EXCEPT ![s] = Found(n, i)]
             /\ IF opt.mode = "none" THEN Close(SlotRefs(s)) /\ UNCHANGED pc
                ELSE \/ Reopen(SlotRefs(s), ResolveRef(s), n) /\ UNCHANGED pc
                     \/ Close(SlotRefs(s)) /\ pc' = "done"

\* A bug in browse_callback: the slot is cleared with its references still open.
BrowseRemoveUncleaned(n, i) == \E s \in SlotNamed(cur[1], n) :
  LET b == cur[1] IN
  /\ Answering("browse")
  /\ <<n, i>> \in announced[b]
  /\ announced' = [announced EXCEPT ![b] = @ \ {<<n, i>>}]
  /\ adverts' = [adverts EXCEPT ![s] = Blank]
  /\ ref' = [r \in Refs |-> IF r \in SlotRefs(s) THEN NoFd ELSE ref[r]]
  /\ Deselected(SlotRefs(s))
  /\ UNCHANGED <<pc, around, serving, hasData>>

\* browse_callback of a removed service: its interface is not looked at.
BrowseRemove(n, i) ==
  LET b == cur[1] IN
  /\ Answering("browse")
  /\ <<n, i>> \in announced[b]
  /\ announced' = [announced EXCEPT ![b] = @ \ {<<n, i>>}]
  /\ UNCHANGED <<pc, around>>
  /\ IF Ignored(i) THEN UNCHANGED table
     ELSE \E s \in SlotNamed(b, n) :
            adverts' = [adverts EXCEPT ![s] = Blank] /\ Close(SlotRefs(s))

\* A bug in resolve_common: the query for the former target is left open.
ResolveKeepingQuery(s, R, h, txt) ==
  LET q == QueryRef(s) IN
  /\ adverts' = [adverts EXCEPT ![s] = Retargeted(adverts[s], h, txt)]
  /\ IF opt.query /\ ref[q] = NoFd THEN Reopen(R, q, h) ELSE Close(R)

\* resolve_common, with the references of R closed before it: when the query cannot be
\* started, it returns before it looks at the text record.
resolve_common(s, R, h, txt) ==
  LET q == QueryRef(s) IN
  \/ /\ ~opt.query /\ Close(R \cup {q})
     /\ adverts' = [adverts EXCEPT ![s] = Retargeted(adverts[s], h, txt)]
  \/ /\ opt.query /\ Reopen(R \cup {q}, q, h)
     /\ adverts' = [adverts EXCEPT ![s] = Retargeted(adverts[s], h, txt)]
  \/ /\ opt.query /\ Close(R \cup {q})
     /\ adverts' = [adverts EXCEPT ![s] = Retargeted(adverts[s], h, adverts[s].txt)]

\* resolve_callback: the reference is closed, whatever it answers.
ResolveReply ==
  /\ Answering("resolve") /\ opt.mode = "-r"
  /\ \/ Close({cur}) /\ UNCHANGED adverts
     \/ \E h \in Hosts, txt \in BOOLEAN : resolve_common(SlotOf(cur), {cur}, h, txt)
  /\ UNCHANGED <<pc, around, announced>>

\* resolve_llq_callback: the reference is left open, for more answers.
LlqReply ==
  /\ Answering("resolve") /\ opt.mode = "-rl"
  /\ \E h \in Hosts : resolve_common(SlotOf(cur), {}, h, FALSE)
  /\ UNCHANGED <<pc, around, announced>>

\* getaddrinfo_callback: an error changes nothing else; only an IPv4 address is kept.
GetAddrInfoReply ==
  /\ Answering("resolve") /\ opt.mode = "-a"
  /\ Close({cur})
  /\ \/ UNCHANGED adverts
     \/ \E h \in Hosts \cup {NoHost} :
          adverts' = [adverts EXCEPT ![SlotOf(cur)] = Addressed(@, h)]
  /\ UNCHANGED <<pc, around, announced>>

\* A bug in query_callback: data of another length than an address's is kept as one.
QueryReplyUnchecked ==
  /\ Answering("query")
  /\ Close({cur})
  /\ \E data \in {serving[ref[cur]][2], NoName} :
       adverts' = [adverts EXCEPT ![SlotOf(cur)] = Addressed(@, data)]
  /\ UNCHANGED <<pc, around, announced>>

\* query_callback: an answer closes the reference, and is kept when it has 4 bytes; an
\* error leaves it open.
QueryReply ==
  /\ Answering("query")
  /\ Close({cur})
  /\ \/ UNCHANGED adverts
     \/ adverts' = [adverts EXCEPT ![SlotOf(cur)] = Addressed(@, serving[ref[cur]][2])]
  /\ UNCHANGED <<pc, around, announced>>

-----------------------------------------------------------------------------
(* main. *)

\* One browse is started, or the program exits.
Browse(b) ==
  /\ pc = "browse"
  /\ ref[BrowseRef(b)] = NoFd /\ \A c \in Browses : c < b => ref[BrowseRef(c)] # NoFd
  /\ \/ Reopen({}, BrowseRef(b), NoName) /\ UNCHANGED pc
     \/ UNCHANGED table /\ pc' = "done"
  /\ UNCHANGED <<adverts, around, announced>>

Browsing ==
  /\ pc = "browse" /\ \A b \in Browses : ref[BrowseRef(b)] # NoFd
  /\ pc' = "loop"
  /\ UNCHANGED <<around, table, announced>>

Open(r) == ref[r] # NoFd

\* The head of the loop: select_ref of every reference.  Only -x acts on the statistics:
\* without it they are left out.
SelectRefs ==
  /\ pc = "loop"
  /\ IF running
       THEN /\ pc' = "select"
            /\ selected' = selected \cup {r \in Refs : Open(r)}
            /\ highest' \in IF opt.exit THEN {ref[r] : r \in Refs} ELSE {NoFd}
            /\ opt.exit => \A r \in Refs : ref[r] <= highest'
       ELSE pc' = "done" /\ UNCHANGED <<selected, highest>>
  /\ UNCHANGED <<opt, running, fdset, todo, cur, adverts, ref, serving, hasData, announced,
                 processed, last, stable>>

\* select() finds what can be read, or nothing within a second, or fails.
Select ==
  /\ pc = "select"
  /\ \/ /\ pc' = "process"
        /\ fdset' = {ref[r] : r \in selected} \cap hasData
        /\ todo' = Refs
        /\ processed' = 0
     \/ pc' = "done" /\ UNCHANGED <<fdset, todo, processed>>
  /\ UNCHANGED <<opt, running, cur, table, announced, highest, last, stable>>

Readable(r) == Open(r) /\ ref[r] \in fdset

\* A bug in process_ref: selected is not looked at.
EligibleByNumber(r) == Readable(r)

\* The references process_ref processes: selected before, readable, and still open.
Eligible(r) == Readable(r) /\ r \in selected

\* A bug in main: only the first readable reference is processed.
VisitFirst(r) ==
  /\ pc = "process" /\ r \in todo /\ Eligible(r)
  /\ \A q \in todo : Eligible(q) => ~Before(q, r)
  /\ pc' = "result" /\ cur' = r
  /\ processed' = IF opt.exit THEN processed + 1 ELSE 0
  /\ selected' = {}
  /\ todo' = {}
  /\ UNCHANGED <<opt, running, fdset, adverts, ref, serving, hasData, announced, highest, last,
                 stable>>

\* process_ref of the next reference to be processed, and of those before it that are not:
\* a closed one must not be selected, the others no longer are.
Visit(r) ==
  /\ pc = "process" /\ r \in todo /\ Eligible(r)
  /\ \A q \in todo : Eligible(q) => ~Before(q, r)
  /\ pc' = "result" /\ cur' = r
  /\ processed' = IF opt.exit THEN processed + 1 ELSE 0
  /\ selected' = selected \ {q \in todo : Open(q) /\ ~Before(r, q)}
  /\ todo' = {q \in todo : Before(r, q)}
  /\ UNCHANGED <<opt, running, fdset, adverts, ref, serving, hasData, announced, highest, last,
                 stable>>

\* DNSServiceProcessResult returns, with or without an error, and with or without more to
\* read on a reference that is still open.
ProcessReturns ==
  /\ pc = "result" /\ pc' = "process"
  /\ hasData' \in {hasData, hasData \ {ref[cur]}}
  /\ UNCHANGED <<adverts, ref, selected, serving, around, announced>>

EndWalk ==
  /\ pc = "process" /\ \A r \in todo : ~Eligible(r)
  /\ pc' = "stats"
  /\ selected' = selected \ {q \in todo : Open(q)}
  /\ todo' = {}
  /\ UNCHANGED <<opt, running, fdset, cur, adverts, ref, serving, hasData, announced, count>>

\* The slots that the statistics count.
Browsed   == {s \in Slots : adverts[s].name # NoName}
Resolved  == {s \in Browsed : /\ opt.mode \in {"-rl", "-r"} /\ adverts[s].target # NoHost
                              /\ opt.mode = "-r" => adverts[s].txt}
Resolving == {s \in Browsed : /\ opt.mode \in {"-rl", "-r"} /\ Open(ResolveRef(s))
                              /\ opt.mode = "-r" => s \notin Resolved}
Queried   == {s \in Browsed : adverts[s].addr # NoHost}
Querying  == {s \in Browsed \ Queried : Open(QueryRef(s))}

\* The statistics of one iteration.
Stats == [select    |-> highest,
          process   |-> processed,
          browsed   |-> Cardinality(Browsed),
          resolving |-> Cardinality(Resolving),
          resolved  |-> Cardinality(Resolved),
          querying  |-> Cardinality(Querying),
          queried   |-> Cardinality(Queried)]

\* The tail of the loop.
Tail ==
  /\ pc = "stats"
  /\ IF ~opt.exit THEN pc' = "loop" /\ UNCHANGED <<last, stable>>
     ELSE /\ last' = Stats
          /\ stable' = IF Stats # last THEN 0 ELSE IF stable = 0 THEN 1 ELSE 2
          /\ pc' = IF stable' = 1 THEN "done" ELSE "loop"
  /\ UNCHANGED <<opt, running, fdset, todo, cur, table, announced, highest, processed>>

\* SIGINT, at any time: select() fails with it, or the loop ends at its head.
Interrupt ==
  /\ running /\ pc \notin {"browse", "done"}
  /\ running' = FALSE
  /\ UNCHANGED <<opt, pc, table, fdset, todo, cur, announced, count>>

\* The daemon sends something on an open socket.
DataArrives(fd) ==
  /\ pc # "done" /\ serving[fd] # Idle /\ fd \notin hasData
  /\ hasData' = hasData \cup {fd}
  /\ UNCHANGED <<pc, adverts, ref, selected, serving, around, announced>>

Finished == pc = "done" /\ UNCHANGED vars

Reply == ResolveReply \/ LlqReply \/ GetAddrInfoReply \/ QueryReply

Main ==
  \/ \E b \in Browses : Browse(b)
  \/ Browsing \/ SelectRefs \/ Select \/ EndWalk \/ Tail
  \/ \E r \in Refs : Visit(r)

Next ==
  \/ Main \/ ProcessReturns \/ Reply \/ Interrupt \/ Finished
  \/ \E n \in Names, i \in Interfaces : BrowseAdd(n, i) \/ BrowseRemove(n, i)
  \/ \E fd \in Fds : DataArrives(fd)

Spec == Init /\ [][Next]_vars

\* main keeps walking, the daemon keeps sending, and a reference that is processed again
\* and again is answered at last.
Fairness ==
  /\ WF_vars(Main) /\ WF_vars(ProcessReturns)
  /\ \A fd \in Fds : WF_vars(DataArrives(fd))
  /\ \A r \in Refs : SF_vars(cur = r /\ Reply)

FairSpec == Spec /\ Fairness

-----------------------------------------------------------------------------
(* Properties. *)

\* References and open descriptors are the same thing: none is closed and still used, none
\* is leaked, none has two owners, and a callback's context is the slot that holds it.
RefsOwned ==
  /\ \A r \in Refs : ref[r] # NoFd =>
       serving[ref[r]] # Idle /\ serving[ref[r]][1] = r
  /\ \A fd \in Fds : serving[fd] # Idle => ref[serving[fd][1]] = fd

\* The assertions of process_ref: a closed reference is never selected, and after the walk
\* none is.
SelectedSound ==
  /\ \A r \in selected : Open(r)
  /\ pc \in {"loop", "stats"} => selected = {}

\* DNSServiceProcessResult blocks when there is nothing to read: the walk calls it only
\* for sockets that have data, also after a callback closed a socket and opened another
\* under the same number.
NeverBlocks == [][pc' = "result" /\ pc # "result" => ref[cur'] \in hasData]_vars

\* Whatever a slot was used for before: its resolve asks for the name it holds now, its
\* query for its present target, and with -r the address that -q found is that target's.
\* With -rl -q it need not be: a resolve that answers again resets the target and keeps the
\* address of the former host (lines 300-302) until its own query answers, if it can be
\* started at all.
AnswersFit ==
  \A s \in Slots :
    /\ Open(ResolveRef(s)) => serving[ref[ResolveRef(s)]][2] = adverts[s].name
    /\ Open(QueryRef(s)) => serving[ref[QueryRef(s)]][2] = adverts[s].target
    /\ opt.mode = "-r" /\ adverts[s].addr # NoHost => adverts[s].addr = adverts[s].target

\* The table has each service as often as the daemon announced and did not withdraw it.
DirectoryExact ==
  pc # "done" => \A b \in Browses, n \in Names :
    Cardinality({s \in Slots : s[1] = b /\ adverts[s].name = n})
      = Cardinality({i \in Interfaces : <<n, i>> \in announced[b]})

\* Every resolve that is started ends, unless the program does; -rl keeps it open for more.
ResolvesEnd ==
  \A s \in Slots :
    opt.mode # "-rl" /\ Open(ResolveRef(s)) ~> ~Open(ResolveRef(s)) \/ pc = "done"

\* An advert leaves its slot only when its service is withdrawn: announcing to a full table
\* is refused ("too many adverts!") and so is removing another name ("not found!").
LosesOnlyWithdrawn ==
  [][\A s \in Slots :
       LET n == adverts[s].name IN
       n # NoName /\ adverts'[s].name # n =>
         \E i \in Interfaces : <<n, i>> \in announced[s[1]] \ announced'[s[1]]]_vars

=============================================================================
