--------------------------------- MODULE Lease ---------------------------------
(***************************************************************************)
(* What the cluster lock promises each node: its lease is its own, taken   *)
(* for Timeout ticks, never lengthened and never ended by anybody else,    *)
(* and an approval comes only from a node whose own lease is not in force. *)
(* It knows no messages, health checks, lists of peers or lock records;    *)
(* ClusterLock implements it.                                              *)
(***************************************************************************)
EXTENDS Naturals

CONSTANTS Nodes,   \* node identifiers
          Timeout  \* of a lease, in ticks

VARIABLES
  left,      \* left[n]: ticks left of the lease of n; 0 if it has none in force
  saved,     \* saved[n]: the same of the lease n has saved
  working,   \* the nodes that are taking, using or giving back their lease
  approvals  \* approvals[n]: who has approved the present work of n

vars == <<left, saved, working, approvals>>

Init ==
  /\ left = [n \in Nodes |-> 0]
  /\ saved = [n \in Nodes |-> 0]
  /\ working = {}
  /\ approvals = [n \in Nodes |-> {}]

Take(n) ==
  /\ n \notin working
  /\ working' = working \cup {n}
  /\ left' = [left EXCEPT ![n] = Timeout]
  /\ UNCHANGED <<saved, approvals>>

Approve(n, p) ==
  /\ n \in working /\ p # n /\ left[p] = 0
  /\ approvals' = [approvals EXCEPT ![n] = @ \cup {p}]
  /\ UNCHANGED <<left, saved, working>>

\* An approval is lost on its way.
Lose(n, p) ==
  /\ approvals' = [approvals EXCEPT ![n] = @ \ {p}]
  /\ UNCHANGED <<left, saved, working>>

\* Rolled back, released, or lost with the process, whose last act may be to
\* save the lease as it is.
Leave(n) ==
  /\ working' = working \ {n}
  /\ left' = [left EXCEPT ![n] = 0]
  /\ approvals' = [approvals EXCEPT ![n] = {}]
  /\ saved' \in {saved, [saved EXCEPT ![n] = left[n]]}

Save(n) ==
  /\ saved' = [saved EXCEPT ![n] = left[n]]
  /\ UNCHANGED <<left, working, approvals>>

\* A new process resumes what is left of the saved lease.
Resume(n) ==
  /\ n \notin working /\ left[n] = 0
  /\ left' = [left EXCEPT ![n] = saved[n]]
  /\ UNCHANGED <<saved, working, approvals>>

Less(k) == IF k > 0 THEN k - 1 ELSE 0

Tick ==
  /\ left' = [n \in Nodes |-> Less(left[n])]
  /\ saved' = [n \in Nodes |-> Less(saved[n])]
  /\ UNCHANGED <<working, approvals>>

Next ==
  \/ \E n \in Nodes : Take(n) \/ Leave(n) \/ Save(n) \/ Resume(n)
  \/ \E n, p \in Nodes : Approve(n, p) \/ Lose(n, p)
  \/ Tick

Spec == Init /\ [][Next]_vars
=============================================================================
