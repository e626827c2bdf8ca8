------------------------ MODULE OutstandingRequests ------------------------
(***************************************************************************)
(* What the request table of the routing test program promises: at any     *)
(* time a bounded set of outstanding requests, each known by the id the    *)
(* library gave it and by a description that never changes.  Requests are  *)
(* issued only under fresh ids and end one by one, or all together when    *)
(* the device is closed.  Nothing here knows of slots.                     *)
(***************************************************************************)
EXTENDS Naturals, FiniteSets

CONSTANTS Ids, Descs, None, Limit

VARIABLE outstanding

OutstandingIds == {id \in Ids : outstanding[id] # None}

Init == outstanding = [id \in Ids |-> None]

\* One command may issue several requests (an update of every stale component).
Issue ==
  /\ outstanding' \in [Ids -> Descs \cup {None}]
  /\ \A id \in OutstandingIds : outstanding'[id] = outstanding[id]
  /\ Cardinality(OutstandingIds') <= Limit

Complete(id) ==
  /\ id \in OutstandingIds
  /\ outstanding' = [outstanding EXCEPT ![id] = None]

Close == outstanding' = [id \in Ids |-> None]

Next == Issue \/ Close \/ \E id \in Ids : Complete(id)

Spec == Init /\ [][Next]_outstanding
=============================================================================
