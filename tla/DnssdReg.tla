------------------------------- MODULE DnssdReg -------------------------------
(***************************************************************************)
(* examples/dnssd/dnssd_reg.c: it registers a service with the mDNS daemon *)
(* and serves that registration until it fails.  The dns_sd library is     *)
(* external: it calls back from DNSServiceProcessResult.  A daemon that    *)
(* has gone leaves a socket that can be read, and nothing to be told.      *)
(***************************************************************************)
VARIABLES
  pc,       \* where the program is; "result" is inside DNSServiceProcessResult
  running, status,
  daemon,   \* at the daemon: what it has to say of the service, if anything
  exit_code

vars == <<pc, running, status, daemon, exit_code>>

TypeOK ==
  /\ pc \in {"register", "loop", "result", "done"}
  /\ running \in BOOLEAN /\ status \in BOOLEAN
  /\ daemon \in {"silent", "registered", "failed", "gone"}
  /\ exit_code \in {0, 1}

\* runtime_t is all zeros.
Init ==
  /\ pc = "register" /\ running = FALSE /\ status = FALSE /\ daemon = "silent"
  /\ exit_code = 0

\* register_service, and the beginning of run_loop.
Register ==
  /\ pc = "register"
  /\ \/ pc' = "loop" /\ running' = TRUE /\ status' = TRUE /\ UNCHANGED exit_code
     \/ pc' = "done" /\ exit_code' = 1 /\ UNCHANGED <<running, status>>
  /\ UNCHANGED daemon

\* select() without a time-out: the reference's socket is the only one.
Readable ==
  /\ pc = "loop" /\ running /\ daemon # "silent" /\ pc' = "result"
  /\ UNCHANGED <<running, status, daemon, exit_code>>

\* Only EINTR lets the loop go on: it is called again.
SelectFails ==
  /\ pc = "loop" /\ running /\ running' = FALSE /\ status' = FALSE
  /\ UNCHANGED <<pc, daemon, exit_code>>

\* A bug in register_reply: a failure is printed, and that is all.
ReplyPrinted ==
  /\ pc = "result" /\ daemon \in {"registered", "failed"}
  /\ pc' = "loop" /\ daemon' = "silent"
  /\ UNCHANGED <<running, status, exit_code>>

\* register_reply, which may be called more than once.
Reply ==
  /\ pc = "result" /\ daemon \in {"registered", "failed"}
  /\ pc' = "loop" /\ daemon' = "silent"
  /\ IF daemon = "failed" THEN running' = FALSE /\ status' = FALSE
     ELSE UNCHANGED <<running, status>>
  /\ UNCHANGED exit_code

\* DNSServiceProcessResult fails when the daemon has gone.  Nobody looks at its result.
ProcessFails ==
  /\ pc = "result" /\ daemon = "gone" /\ pc' = "loop"
  /\ UNCHANGED <<running, status, daemon, exit_code>>

Return ==
  /\ pc = "loop" /\ ~running
  /\ pc' = "done" /\ exit_code' = IF status THEN 0 ELSE 1
  /\ UNCHANGED <<running, status, daemon>>

\* What the daemon sends next.
DaemonSpeaks ==
  /\ daemon = "silent" /\ daemon' \in {"registered", "failed", "gone"}
  /\ UNCHANGED <<pc, running, status, exit_code>>

Finished == pc = "done" /\ UNCHANGED vars

Main == Register \/ Readable \/ Reply \/ ProcessFails \/ Return

Next == Main \/ SelectFails \/ DaemonSpeaks \/ Finished

Spec == Init /\ [][Next]_vars

\* The program is one thread, and nothing makes select() fail.
FairSpec == Spec /\ WF_vars(Main)

\* A registration that the daemon reports as failed ends the program, with exit code 1.
FailureEnds ==
  daemon = "failed" /\ pc \in {"loop", "result"} ~> pc = "done" /\ exit_code = 1

=============================================================================
