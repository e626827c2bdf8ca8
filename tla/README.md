# Dante API examples: a TLA+ model

The repository holds the example programs shipped with Audinate's Dante API: small C
programs, each of them one process with one thread and one `select()` loop, that sit
between an operator (stdin, the command line), the machine's sockets, and a library that
does the protocol work (`dante_routing`, `dante_browsing`, `conmon`, `conmon_manager`,
`dns_sd`). The libraries are not in the repository. They are modelled only as far as the
programs use them, and every definition that stands for one is marked *external* in
`PROJECT.json`.

What makes these programs hard is not threads. It is that the library calls back while
the program is inside one of its calls, that answers come in an order nobody chose, that
tables are small and fixed, that any call may fail half-way through a handler, and that
sockets, channel arrays and references are replaced between a look at them and their use.

## 1. Inventory

### 1.1 Routing test console (`examples/routing/dante_routing_test.c`)

* State: the handles `env`, `devices`, `device`; the table `requests[]` of (id,
  description); `ntx`/`nrx` with the channel arrays; `sockets_changed`; `g_test_running`;
  the loop's `all_sockets`.
* Operations: set-up and clean-up in `main`; `dr_test_main_loop`; one function per
  command line (about twenty); the callbacks `on_response`, `on_device_changed`,
  `on_sockets_changed`, all called from inside `dr_devices_process`.
* Hard: allocation against release in callbacks, a table smaller than the number of
  components, an update that stops half-way, a send that fails after the slot was
  taken, a device that comes back with other channels, a rename that closes the device.
* Correct when: every request in flight has exactly one slot that describes it and no
  slot is busy without one; the channel arrays are the device's; `select()` waits on the
  sockets the library has; every handle is closed once.

### 1.2 Flow commands of the routing console (same file, 1007-1507)

* State: flow and flow-configuration objects of the library, one or two per command; the
  dialogue with the operator (slot, channel, name), and the line last read, `g_input_buf`.
* Operations: add, replace, delete of transmit, unicast and multicast receive flows.
* Hard: each command has four to seven returns and owns something else at each; nobody looks
  at what `fgets` returns in a dialogue, so at the end of stdin the old line is read again.
* Correct when: what a command opened is closed, or at the library, when it returns;
  associations are of channels of the device; a dialogue ends.

### 1.3 Service browser (`examples/dnssd/dnssd_brq.c`)

* State: `g_browses[]`, each with its reference and its `adverts[]` (a full name, resolve and
  query references, target, port, address, text), the descriptor sets of one `select()`.
* Operations: the main loop, `process_ref`, and the callbacks for browse, resolve, query,
  address and long-lived resolve replies, which open and close further references.
* Hard: references are closed and opened by callbacks while the loop walks the
  descriptors of an older `select()`; a descriptor number is re-used at once; the table is
  full; a name is removed that is not in it; an interface's removal among several.
* Correct when: only references readable in *this* `select()` are processed, none is
  owned twice or lost, and the table holds the services that were announced and not
  withdrawn.

### 1.4 Service registrar (`examples/dnssd/dnssd_reg.c`)

* State: `running`, `status`, one reference.
* Operations: register, the reply callback, the loop.
* Hard: what `DNSServiceProcessResult` returns is dropped, so that a daemon which has gone
  leaves a loop that turns for ever on a socket that stays readable.
* Correct when: a registration that fails, at once or later, ends the program with exit code 1.

### 1.5 Browsing test (`examples/browsing/dante_browsing_test.c`)

* State: the handles `env` and `browse`, `sockets`, `sockets_changed`, the time of the next
  resolve, and what stdio has read ahead.
* Operations: set-up and clean-up, the loop, the callbacks, the lines that are typed.
* Hard: a resolve that is to time out while nothing is readable; sockets that change before the
  loop begins and whenever it processes; `select_timeout` is set once (533), so that the loop spins
  where `select()` counts it down; lines read ahead. `sig_handler` is never installed.
* Correct when: the loop selects stdin and the sockets of the browse, a resolve that is due is
  processed, and the end of stdin ends the program with everything released.

### 1.6 ConMon console (`examples/conmon/conmon_console_client.c`)

* State: the client, the one request id it waits for (`g_req_id`), the result, the sockets,
  an input file, and what stdio has read ahead of `select()`.
* Operations: set-up, connection, one function per line, responses and messages, and three
  loops that process the client while a response is awaited.
* Hard: no wait has a time-out, and a line's request id is waited for although its call may have
  failed (588, 593, 624-632); lines that arrive together are served one for each `select()`
  on a descriptor that no longer shows them; sockets change during any wait.
* Correct when: a wait is for the request that is in flight, so that it ends; the
  sockets are the client's; a closed stdin is read to its end.

### 1.7 ConMon metering listener and controller (`conmon_metering_listener.c`, `conmon_audinate_controller.c`)

* State: the client and one "communicating" flag with a result; in the controller the message
  body that one of 22 handlers builds of the command line.
* Operations: connect, register, subscribe or send; after each, wait up to two seconds for
  *the* response; the listener then prints meters until it is killed.
* Hard: responses are matched to no request (a TODO says that they should be); the result
  of the last request is still there when the next wait begins; a response comes in the turn
  in which the time is up. Words are optional, abbreviated, repeated and out of order; numbers
  are cut to 16 bits before they are compared; a handler fails with half a message built.
* Correct when: a wait ends with its own response, and the exit code is true. Both hold: a
  wait that times out ends the program, so that no response is late for another one. A line
  of the usage text is sent as what it says, and no line sets what it does not ask for. This holds
  but for lines that the usage prints and the handler refuses, and for words of another spelling (2.7).

### 1.8 ConMon listener (`conmon_audinate_listener.c`)

* State: the client, its connection, `targets[]` (device, request id, subscription, last
  status, found), `all_req_id`.
* Operations: set-up; a refused connection is asked for again; a subscription per target and
  one for all; the callbacks for connection, responses and subscription changes.
* Hard: several requests at once, answered in any order, perhaps for one device twice; a
  change that comes before the response which tells its identity; the retry may delete the
  client from inside its own callback.
* Correct when: each response finds its target, and what the first target of a device has noticed
  stays true. (The second target of a device given twice goes stale: see 2.6.)

### 1.9 ConMon manager client (`conmon_manager/cmm_client_test.c`)

* State: the client, the mode, `running`; at the library the connection, the options, the state
  with its pending configuration, and one request.
* Operations: four waits in turn (connection, options and state, the request, the configuration),
  the request for an interface, the events, SIGINT.
* Hard: the errors of `select()` and of the processing are dropped; the pending configuration is
  looked at in a copy that other clients' configurations reach too, once the request has ended,
  however it ended.
* Correct when: "has been applied" is said of what was applied, and neither that nor "no changes" of
  what is pending; SIGINT ends each of the waits. (Another client's configuration in the way: see 2.8.)

### 1.10 Text input and output

`conmon/dapi_io.c` converts 64-bit identifiers between text and bytes, for the controller.
`routing/dante_routing_print.c` and `conmon/conmon_aud_print_msg.c` only print.

Interaction. Every program is alone: they share no state and no messages with each
other, only the library idiom (handle, callbacks, sockets, process). Each is therefore
a component of its own and a model composes a program with its library and its operator.

## 2. Modules

One module per program, next to it the module with its proofs, and where TLC needs values
that a configuration cannot express an `MC` module that defines them.

| module | program | proofs | runs |
|---|---|---|---|
| `RoutingTest` | 1.1 | `RoutingTestProofs` | `routing_table`, `routing_live`, `routing_print` |
| `OutstandingRequests` | the abstraction of 1.1's request table | `RoutingTestProofs` | `routing_table` |
| `RoutingFlows` | 1.2 | `RoutingFlowsProofs` | `flow_dialogues` |
| `DnssdBrq` | 1.3 | `DnssdBrqProofs` | `brq_walk`, `brq_lookups`, `brq_too_many` |
| `ConmonConsole` | 1.6 | `ConmonConsoleProofs` | `console_lines` |
| `ConmonSync` | 1.7, both programs | `ConmonSyncProofs` | `sync_wait`, `sync_sockets` |
| `Id64`, `ControlMessages` | 1.7, the words of the controller, and 1.10 | `ControlUsageProofs` | `sync_wait` |
| `ControlUsage` | what the controller's usage texts promise | `ControlUsageProofs` | `sync_wait` |
| `ConmonController` | 1.7, `ConmonSync` with the words and messages of the controller | `ConmonSyncProofs` | `sync_wait` |
| `ConmonListener` | 1.8 | `ConmonListenerProofs` | `listener_subs` |
| `CmmClient`, `BrowsingTest` | 1.9, 1.5 | `SmallProgramsProofs` | `small_programs` |
| `DnssdReg` | 1.4 | | `small_programs` |

Conventions. `pc` is the place in `main` and its loop, named for what happens there. Between
two values of `pc` the program runs without the library, so a handler is one action however
long it is. Where the program enters the library (`dr_devices_process`,
`conmon_client_process`, `DNSServiceProcessResult`) `pc` stays there while the callbacks come
as actions of their own, in any order and number, until an action `ProcessReturns`. What the
library has (requests in flight, sockets, statuses) is state of the model and commented
*at the library*. Names of the source are kept for functions and variables. A definition
introduced by "A bug in X" is a variant of X that is in no specification: it is what one of
the properties is there to catch.

### 2.1 RoutingTest

`slots` is `requests[]`; `pending` is what the library has in flight, with the description the
operator would expect to see when it completes; `live` and `ptrs` are the library's objects
and the program's handles; `chans`/`devChans` are the cached and the present channel counts;
`allSockets`, `devSockets`, `socketsChanged`, `ready` belong to the `select()`. Every branch of
`dr_test_process_line` is a command: those that only send a request share
`RequestCommand`, those with a loop over components (`dr_test_update`) are one action that
stops at the first refusal, as the code does. `dr_test_on_device_changed` includes the
update of channel arrays and, with automatic updates, the requests it sends. A call that
fails may or may not have written the request id: `WritesIdOnError` says whether it may. Where it may,
`store_config` and `clear_config` return with the id still in their slot (520, 543): `OnlyConfigLeaks`
says that this, one slot at a time, is the only way to lose one, `EveryRequestIsHeld` that even then a
request in flight is in the table, also when the library gives the id to a later request.

`OutstandingRequests` says what the table is for: requests issued under fresh ids, ended one
at a time, all dropped when the device closes. `RoutingTest` implements it through
`TableView`, the table as a function from ids to descriptions.

### 2.2 RoutingFlows

`open` is what the running command holds: configurations, flows, and its slot of the request
table. `Return(left)` is every `return` of a command, and whatever is still open there goes to
`lost`: leaks are computed from the returns, never postulated. `line` is `g_input_buf`, which
`Fgets` replaces by any line, or leaves alone when stdin is closed. What the library does with
a configuration that it could not commit is not in the sources; it is taken to be its own
from the call on.

What the model shows of the code, besides the checks: all seven commands leave their
objects open when the request table is full (lines 1088, 1159, 1196, 1305, 1407, 1460, 1495), a
receive flow is never released after its associations are replaced, nor when they cannot be
(1450), nor when its deletion fails (1501). A unicast dialogue answered with Enter takes the
name typed before (1352). No document of the repository says otherwise, so none of these is a
finding; the properties state what does hold around them.

### 2.3 DnssdBrq

`ref` maps every reference (one per browse, a resolve and a query per advert slot) to its
descriptor, `serving` every descriptor to the reference and the request that it serves, so
that a number closed and opened again by a callback is visible as such. `selected` is the
`flag` field that `process_ref` clears, `hasData` is the kernel's side. The walk over
the references is one step each (`cur`), because the callbacks of one change the others.
`announced` is the daemon's side, per browse and interface. `-i` is left out: the option sets an
index that nothing reads. A reply that the program answers with a new lookup closes the
old one, as `resolve_common` does. It also empties the target, but not the address: under `-rl -q` a
long-lived resolve that answers with another host leaves the former host's address beside the new target
until the new query answers, and for good when that query cannot be started (312). `AnswersFit` therefore
claims that an address is its target's under `-r` only, where a slot is resolved once; what is asked fits
the slot under every option.

### 2.4 ConmonSync

The two programs differ in the sequence of requests (`Requests`) and in what follows it; the
wait is the same code twice. A turn of it is one of: the library processes (and may
call `handle_response`), the time is up, `select()` fails. `replied` records what the
server has answered to each request and is not in the program.

### 2.5 ConmonConsole

A line is what it does to `g_req_id`: it sends, is refused, prints, ends, or is wrong. `process_line` returns
the id whatever its call has returned. Whether a call that fails writes the id is the library's
affair, so the model lets it, and `refused`, a history variable, remembers that the id waited for is such a one:
no response comes, the wait has no time-out, and the console neither serves another line nor notices the
end of stdin. `AwaitsWhatIsInFlight`, `WaitsEnd` and `InputEnds` name that case and claim that it is the only
one. `Awaited` holds of
the three loops that wait. `ahead` are the lines that stdio has read ahead: `select()` shows stdin readable only for
what the kernel still has (`typed`), and after the end of stdin always. `EINTR` is
compared with the result of `select()`, not with `errno`, so an interrupted console ends
its loop; `Select` takes that branch. A line arrives with its end: what is typed without a newline, on
which `fgets` would block, is outside the model, here and in `BrowsingTest`.

### 2.6 ConmonListener

Targets are numbers into `Devices`; the request for all devices is holder 0. A subscription
is identified by its device, since the library has one per device: two targets for one
device share it, and `target_for_sub` finds the first (622). If the second one's response comes first, it
notices changes until the first has its own, and keeps the status of that moment for ever; the listener
only prints it. `StatusNoticed` therefore speaks of the first. `dirty` are the subscriptions whose
changes have not been reported. When set-up fails for want of memory it reports success
(line 288), and a retry that is refused deletes the client that is calling back: both end in
`pc = "undefined"`, of which nothing is said. No connection-state callback is registered, so a
lost connection is nothing that the program could see; the library is taken to restore it.

### 2.7 The controller's messages

`ConmonController` is `ConmonSync` with the words put in: `CParseArgs` builds the message,
`CRequest` hands it to the library with the second request, every other step is one of
`ConmonSync` and leaves the message alone. A word is a text or a key and a text; `Class` is the
chain of `strncmp` by which `main` chooses how to send. In `ControlMessages` one operator per
handler of `audinate_control_map` gives the body that it builds, as the set of what it has set,
or none when it prints its usage. `Outcomes` is `parse_args`: only an invalid parameter stops `main`
(240), and `HalfBuilt` is what there is when the library refuses the source file of an `upgrade3`
(736), whose error main may or may not take for its own.
`atoi`, `sscanf` and `strncmp` are constants, since they are the C library's and what they
return for a text is all that a handler sees; the numbers keep their 16 or 32 bits (`U16`, `U32`;
2^32 is the constant `Width32`, as TLC cannot count so far), and
`parse_address` shifts and ors as the code does, with the third byte checked twice (385).

Many handlers compare a key by its letters alone and skip whatever character stands behind them:
`threshold=5` is `thres` with the text `old=5`. `Read` is a line as its handler has it:
a word of a key's whole name, `key=text`, stays as it is, and of any other that begins with one of
`PrefixKeys` counts what is `Behind` the key. The handlers are operators on these words.

`Id64` has the conversions of `dapi_io.c`, character by character: the one text that the program takes
apart by itself and not by the C library, with a table lookup for each digit (`hexchar_to_nibble`),
blanks that may and may not stand between them, and quotes. That detail is `Id64`'s alone.

`ControlUsage` is the reference, written from the usage texts and not from the handlers: `Usage` are
the lines of each command that its text prints as right, `AskedBy` says which setting a word asks for, and `Writes` which
bytes a text stands for: an increasing choice of places in the text, one for each digit, with
nothing but white space between them. `UsageHeeded` compares the two on the lines that are printed,
`NothingInvented` on all.

What comparing them showed, and what the two properties therefore name:

* `Misprinted` are lines that a usage text prints and the handler refuses: `clear_config` (796), `gpio` (842,
  843) and `name_id` (1050) without the words that their texts put in brackets, `clocking reload` (1031, printed
  by the handler of `uclocking`, which is the one that takes the word), and `enc=0`, an `<n>` like another (1298).
  `UsageHeeded` says that these are refused, always, and that no others are.
* What a word of another spelling says is what is behind the key: `errthres threshold=5 window=3 reset=1` sets
  a threshold and a window of 0, `edk padding=-6` a pad of 0 dB. Of the last two names of
  `access` seven letters are compared (1581, 1585), so `mode=inetd_exit` enables inetd: `Compared`.
  `NothingInvented` is about the words as they are read; a line of whole names is read as it is written, and of
  such a line it says that nothing is set which the line does not ask for.
* `serial` reads its index from the whole word `index=VAL` and so always sends 0, against its
  usage (1779): `Unread`.
* the half-built message of an `upgrade3` whose source file is refused is sent, and `main` may
  return success: `HalfBuilt`.
* a number above its setting's width (of `srate` 32 bits, 1212), and a fourth byte of an address above
  255, come out as another number: `Fits`.
* when the library refuses the source file with the very error of a wrong line, `main` prints the usage of
  a right one and stops: `message = HalfBuilt` in `UsageHeeded`.

"Invalid TFTP server address" is never printed for a text that is no address, as the result of
`inet_addr` is compared with 0 (670): `INADDR_NONE` goes out as the server 255.255.255.255, which
the proof of `NothingInvented` came upon and `Fits` therefore excludes. 0.0.0.0 is an address that
no usage text rules out and the handlers take for none (481, 554): it is not among `Addresses`.

### 2.8 The small programs

`CmmClient`: the four loops of `main` and `cmm_test_set_interface` are one loop with `wait`, what it
waits for (`Awaited`), since they differ in nothing else. `pending` is at the manager, `state` what
the library knows of it, `behind` that the manager has still to report the state that the request has made:
it does so before it completes the request, which is what the program relies on and the model
states. `cut` remembers a connection lost with the request in flight. That completes it, and
the program looks at no result: it says "no changes" of a configuration that may be pending.
No text says otherwise, so `SaidWhenSettled` excludes that case by name. Two history variables record what the
manager does: `fate`, of the program's configuration, and `meddled`, whether another client's configuration was
there when the request was refused or has come since it was handled. The program sees only that something is
pending: with another client in the way it waits for *that* to be applied and then says "New configuration has
been applied" (336) of its own, which was refused or replaced. `SaidWhenSettled` claims that it was applied
only where nobody meddled. "Sent config, no changes" (340) says less than it seems: it is printed after an
error, and after a configuration that was applied before the client looked, too; all that is claimed of it
is that nothing of the program's is pending.

`BrowsingTest` follows the loop line by line: `Select`, `Needs`, `ProcessReturns`, `Changed`,
`NextLine`. `typed` and `ahead` are the lines in the kernel and in stdio, as in 2.5.
`DnssdReg` is the smallest; a daemon that has gone (`"gone"`) leaves its loop turning, and the
property is about what the daemon does report.

`MCSmallPrograms` extends `CmmClient`, instantiates the other two and chooses one of the three at
first. Its properties are those of the three modules.

## 3. Runs

Every passing run's properties each have a mutant: a bug put into one definition, in the
place where a plausible mistake in that code would be, which TLC must find.

| run | instance | states what |
|---|---|---|
| `routing_table` | 2 slots, 3 ids, 2 components, 1 channel, automatic updates, all commands, a failing call writes no id | table and library agree, handles are closed once, the table implements `OutstandingRequests` |
| `routing_live` | 2 slots, 2 ids, 1 channel, 2 sockets, a command that releases and one that does not, a failing call may write an id | channel arrays and sockets are current; only a failing configuration command loses a slot, and no request in flight is lost with it; a request completes unless the program exits |
| `routing_print` | as `routing_table`, smaller | **violated**: `U` sends update requests |
| `flow_dialogues` | 1 receive channel, 2 slots, 1 request | nothing but receive flows is lost; associations are sound; which dialogues end |
| `brq_walk` | 2 slots, 2 services on 2 interfaces, 5 descriptors | references, descriptors and flags through the walk; the directory |
| `brq_lookups` | 1 slot, 2 services, 2 hosts, 3 descriptors, every way to look up | what a slot asks for and has found is of its service; a resolve ends |
| `brq_too_many` | 1 slot, 2 services | **violated**: a full table loses an advert |
| `sync_wait` | every command; some thousand lines of words, right and wrong; identifiers of 2 bytes; waits of 1 tick, 2 sockets | a wait ends with its own response; the exit code is true; success is one message carried out; a line as the usage text prints it is heeded, or is misprinted and refused; nothing is set that the words, as they are read, do not ask for; set-up ends |
| `sync_sockets` | a local listener, 2 sockets | **violated**: it selects sockets that are gone |
| `console_lines` | 3 input files, 2 typed lines, 2 sockets, 2 ids | a wait is for what is in flight and ends, but for a refused request's id; sockets; stdin is read to its end |
| `listener_subs` | a command line of 3 targets for 2 devices, 3 statuses, 4 ids | responses find their targets; what a device's first target has noticed is true; never idle |
| `small_programs` | one program at a time; another client of the manager, 2 sockets, 2 typed lines | what the client says is so, if no other client meddles; sockets and time-outs of the browse; each program ends when it should |

Bounds. They are the constants above and the few that cap what the environment may do
(`MaxAnnounced` services per browse, `MaxTyped` lines, `MaxChannels`, `WaitTicks`); nothing in a
program is capped. They are chosen for the case that is hard: a request table *smaller* than
the library's ids, so that it is full while the library would go on; an advert table
smaller than the services; no more descriptors than references, so that numbers are used
again; two responses in flight for one device; a second line behind the one that
`select()` showed; a wait with a turn in which the time is up and one in which it is not; a receive
channel with an invalid id on either side. A further slot, device or line repeats these. The
theorems of section 5 hold without any bound. Symmetry is used only in runs without liveness,
for ids and names that are compared with nothing but each other.

`DirectoryExact` is checked with tables as large as the services announced: a smaller one
loses adverts, which is the finding of `brq_too_many`.

Deadlock is checked in every run: where a program has ended it stutters (`Finished`).

The three violated properties are statements of the repository about itself:

* `PrintingSendsNothing`: the help text of `U` says that it prints
  (`dante_routing_test.c:1718`); without a `break` it goes on into `x` (2284).
* `LosesOnlyWithdrawn`: "too many adverts!" and "not found!" (`dnssd_brq.c:586`, 664) are
  never printed, since the search leaves its variable set; the last advert goes instead.
* `SocketsUpdated`: "update sockets if needed" (`conmon_metering_listener.c:453`); the
  callback that would say when is never registered (345).

## 4. Fairness

Each program is one thread which nothing suspends, so its own steps are weakly fair:
`Loop`/`Main`/`Work`. An operator is never fair: nobody has to type, or to close stdin. What the
libraries have to do is stated for each property, and is the least that it needs:

* `RequestsComplete`: the library answers each request in flight if it is processed often
  enough (strong fairness of `Response(id)`: other callbacks may come between), `select()`
  notices a socket with an answer, and listing the sockets does not fail for ever.
* `ResolvesEnd`: the daemon sends data on an open descriptor and has a reply when it is
  processed; processing returns.
* `WaitsEnd`, `InputEnds`: the server answers a request if the client is processed.
* `SetUpEnds`: nothing; the program's own clock ends a wait.
* `ResolvesServed`, `Ends`: nothing; `select()` has a time-out, or is shown what has ended, and
  processing returns. SIGINT, the end of stdin and the daemon's failure are premises of the properties, and
  nobody has to bring them about. For the registrar `select()` is not interrupted for ever.
* `DialogueEnds`: nothing; `fgets` returns at once at the end of stdin. It is the condition
  `Stuck` that matters: a multicast dialogue reads a number again for ever, a unicast one does if the number is no
  channel or the library refuses it each time, and all others end.

## 5. Proofs

All theorems hold for every value of the constants, under the assumption each module names
(`RoutingAssumption`, `BrqAssumption`, `SyncAssumption`, `ConsoleAssumption`,
`ListenerAssumption`, `FlowsAssumption`, `ControllerAssumption`, `IdAssumption`, `WidthAssumption`,
`ReadingAssumption`): that bounds are natural numbers and that the values
standing for "none" are none of the others. Those of the controller say what a text is: a line is a
sequence of words of up to three texts, a text begins with itself, `sscanf` reads at most four
numbers of an address, an identifier is a sequence of characters (`Line`); and the texts that the usage
calls a number of 16 bits, an address or an identifier are read as one, and no key is found in
`reload` (`ReadingAssumption`). 2^32 is any number above the rates of `srate` (`WidthAssumption`; 2^20 in the run).
What the C library makes of any other text is left open. `ListenerAssumption` also says that the command
line fits into `targets[16]`, which `handle_args` does not check. TLC evaluates each in the runs of its module.

* `RoutingTestProofs`. `Match` relates table and library in both directions: a request in
  flight has exactly one slot, which describes it, and a busy slot has a request. `TableInv`
  asserts it wherever a device is open. It needs `~WritesIdOnError`: if a failing call left an id, a
  slot would stay busy (`dr_test_store_config` returns without releasing it). Without
  that assumption `Held` still gives every request in flight *a* slot, and `OnlyConfigLosesSlots` counts
  busy slots against requests in flight: a step that makes slots busy puts as many requests in flight
  (an injection from the one set into the other), and an answer takes one from each. `HandleInv`,
  `ChannelsInv` and `SocketsInv` add to each property where in `main` it begins to hold.
  `TableImplementsOutstanding` goes through the actions with `TableInv`: each step of the program ends,
  adds or keeps whole requests of `OutstandingRequests`, so nothing in flight is overwritten.
* `DnssdBrqProofs`. Types come in parts, since the type of an address depends on
  `AnswersFit`: a query answers with a host only if it asks for one. `RefsOwned` is inductive by
  itself, given lemmas on what closing and reopening references do. `WalkInv` adds to
  `SelectedSound` what the flags mean in the middle of the walk: a selected reference that the walk has not
  reached still has its data, whatever callbacks close and open. `SlotFit` is the lookups'
  invariant, slot by slot. `DirectoryIsExact` assumes `MaxAnnounced <= MaxAdverts`: `Places` is a one-to-one map from what is
  announced in a row onto the slots in use that keeps names, so while something new may be announced a
  slot is free, and a withdrawal, which looks at names only, can exchange two places but lose none.
* `ConmonSyncProofs`. `OneAtATime` (at most the present request is unanswered, and none
  while the program is not communicating) and `Answered` (the result is that request's) make
  `Turn`, from which both properties follow: no id needs to be compared.
  `ControllerImplementsSync`: with the words and messages hidden, the
  controller is `ConmonSync`, and has its theorems. `Carried`: what has been sent is nothing up to the second
  request and then the message of the line, once; success therefore is that message carried
  out (`SuccessIsDone`), whatever the handlers build and whatever is typed. `OnlyBuilt`: nothing is
  sent but what `parse_args` has built, and of what it refuses the handler builds nothing, or the library
  has refused its file. With the results about the handlers that is `NothingIsInvented` and `UsageIsHeeded`.
* `ControlUsageProofs`. What a handler builds is a union of settings, and `OnlyAsked` of each part is
  `OnlyAsked` of the whole; so there are a few lemmas for the kinds of settings (a choice, a number of 16
  bits, an address, a word) and one for each handler (`BodiesOnlyAsked`). The reverse,
  that the handler of a line builds something and leaves no word out (`UsageBodies`), goes
  through the forms of the line in the usage text; that such a line is read as it is typed is
  `ReadAsTyped`, and that of a misprinted one nothing is built `MisprintedRefused`. `parse_address` is the hard part of the first: its
  shifts and ors give the four bytes back only because `Fits` keeps the fourth in a byte.
  `ParsedIdIsWritten` needs what `BytePlace` computes for every length; it is a recursive
  function, whose equation is proved for each length by its least counterexample
  (`RecursionExists`, from the well-foundedness of `<`), since the library's induction rules are
  out of the prover's reach. From it: each digit lies behind the one before, with white space between.
* `SmallProgramsProofs`. `Reported`: a configuration of the program that is pending, and reported, is
  known as its own; `Asked`: the program is where its request is; `Traced`: what has become of the
  configuration, and that where the manager has not taken it and nobody meddled, the program sees nothing
  pending. Together they are `SaidWhenSettled`. `Selected`: sockets that differ from the
  browse's are flagged, wherever the loop goes from there to its next `select()`. Both are proved of
  the program by itself and of the specification that chooses one of the three.
* `ConmonConsoleProofs`. `AwaitsWhatIsInFlight` needs only that the program is nowhere else
  while it waits, and has refused nothing before it connects. `Flagged`: sockets that differ from the client's are flagged wherever
  `select()` can be reached.
* `ConmonListenerProofs`. `Connection`: until it is connected the listener has asked for
  nothing else, and it connects once, so the requests of `Matched` meet no older ones.
  `OwnSubs`: a target's subscription is to its own device; together they are
  `ResponsesMatched`. `Notices` carries the statuses through the reports, for the first target of a device.
* `RoutingFlowsProofs`. `Held`: a slot is held only to send, a transmit flow only to delete
  it. `Checked`: the dialogues associate only with what they have checked. `Fresh`: a
  dialogue begins with the variables of a command that has just begun.

Only model-checked: everything under fairness (`RequestsComplete`, `ResolvesEnd`, `SetUpEnds`,
`WaitsEnd`, `InputEnds`, `DialogueEnds`, `ResolvesServed`, `Ends`), which is out of the prover's
reach. Every other property of a passing run is a theorem.

## 6. Not modelled

What is printed and how, including `dante_routing_print.c` and `conmon_aud_print_msg.c`, which
read objects of the libraries and keep no state; Windows variants of the loops; running out of
memory other than where a handler checks for it; an interrupted `select()` of the console beyond
that it ends the loop. Of the listener, the registrations and filters for status messages, which keep no state,
and the options that choose what is printed. Of `dapi_io.c`, `dante_id64_to_ascii`, which only prints.

## 7. Plan

| order | module | models |
|---|---|---|
| done | every program of section 1 that keeps state; the proofs of section 5 | 1.1 to 1.9, 1.10 in part |
| 1 | an abstract directory of services (announce, withdraw, forget), implemented by `DnssdBrq` | 1.3 |
| 2 | the safety that `RequestsComplete` and `DialogueEnds` rest on, as theorems | 1.1, 1.2 |
| 3 | the listener's filters and registrations, once something the program keeps depends on them | 1.8 |
