-------------------------- MODULE ClusterLockProofs --------------------------
(***************************************************************************)
(* Proofs, for any set of nodes and any lock timeout, of the safety        *)
(* properties of ClusterLock.  NoMutualApproval is not inductive by        *)
(* itself: it needs that a peer's lock is its own (so that a lock in force *)
(* is a reason to refuse anybody else) and that no approval outlives the   *)
(* attempt it was given to (so that a node enters a new attempt, or comes  *)
(* back from a crash, with none).                                          *)
(***************************************************************************)
EXTENDS ClusterLock, TLAPS

\* An attempt in progress, and a lock in memory, belong to a running process;
\* a call is open only while asking, an answer only while a call is open, and
\* an idle node has no approvals.
AttemptState ==
  \A n \in Nodes :
    /\ ~up[n] => pc[n] = "idle" /\ lock[n] = NoLock
    /\ pc[n] = "idle" => granted[n] = {}
    /\ pc[n] # "ask" => call[n] = Nobody
    /\ call[n] = Nobody => reply[n] = "none"

\* No node is its own peer.
NoSelfCall ==
  /\ \A n \in Nodes : n \notin todo[n] /\ call[n] # n
  /\ \A r \in releases : r[1] # r[2]

Inv ==
  /\ TypeOK
  /\ AttemptState
  /\ NoSelfCall
  /\ OwnLockOnly
  /\ HolderKeepsLock
  /\ NoMutualApproval

-----------------------------------------------------------------------------
LEMMA LockAges ==
  ASSUME NEW l \in Locks \cup {NoLock}
  PROVE  /\ Aged(l) \in Locks \cup {NoLock}
         /\ Aged(l) # NoLock <=> l # NoLock
         /\ l # NoLock => Aged(l).by = l.by
         /\ Valid(Aged(l)) => Valid(l)
<1>1. CASE l = NoLock
  BY <1>1 DEF Aged, Valid
<1>2. CASE l \in Locks /\ l # NoLock
  <2>1. PICK b \in Nodes, k \in 0..Timeout : l = [by |-> b, left |-> k]
    BY <1>2 DEF Locks
  <2>2. CASE k = 0
    BY <1>2, <2>1, <2>2 DEF Aged, Valid
  <2>3. CASE k > 0
    <3>1. Aged(l) = [by |-> b, left |-> k - 1]
      BY <1>2, <2>1, <2>3 DEF Aged, Valid
    <3>2. k - 1 \in 0..Timeout
      BY <2>3, TimeoutAssumption
    <3>3. Aged(l) \in Locks
      BY <3>1, <3>2 DEF Locks
    <3>4. NoLock \notin Locks
      BY NoLockAssumption DEF Locks
    <3> QED
      BY <1>2, <2>1, <2>3, <3>1, <3>3, <3>4 DEF Valid
  <2> QED
    BY <2>1, <2>2, <2>3
<1> QED
  BY <1>1, <1>2

LEMMA NewLock ==
  ASSUME NEW n \in Nodes
  PROVE  /\ [by |-> n, left |-> Timeout] \in Locks
         /\ [by |-> n, left |-> Timeout] # NoLock
BY TimeoutAssumption, NoLockAssumption DEF Locks

-----------------------------------------------------------------------------
LEMMA InitInv == Init => Inv
BY NobodyAssumption DEF Init, Inv, TypeOK, AttemptState, NoSelfCall, OwnLockOnly, HolderKeepsLock, NoMutualApproval, Valid

-----------------------------------------------------------------------------
(* One lemma per part of the invariant; each goes through the actions.      *)

LEMMA TypeStep == TypeOK /\ [Next]_vars => TypeOK'
<1> SUFFICES ASSUME TypeOK, [Next]_vars PROVE TypeOK'
  OBVIOUS
<1> USE DEF TypeOK
<1>1. ASSUME NEW n \in Nodes, AcquireLocal(n) PROVE TypeOK'
  BY <1>1, NewLock DEF AcquireLocal, Peers
<1>2. ASSUME NEW n \in Nodes, StartRelease(n) PROVE TypeOK'
  BY <1>2 DEF StartRelease, Peers
<1>3. ASSUME NEW n \in Nodes, Handler(n) PROVE TypeOK'
  <2>1. ASSUME NEW p \in Nodes, SkipUnhealthy(n, p) PROVE TypeOK'
    BY <2>1 DEF SkipUnhealthy
  <2>2. ASSUME NEW p \in Nodes, SendAcquire(n, p) PROVE TypeOK'
    BY <2>2 DEF SendAcquire
  <2>3. ASSUME NEW p \in Nodes, SendRelease(n, p) PROVE TypeOK'
    BY <2>3 DEF SendRelease
  <2>4. CASE ReceiveGranted(n)
    BY <2>4 DEF ReceiveGranted
  <2>5. CASE ReceiveDenied(n)
    BY <2>5 DEF ReceiveDenied, Cleared
  <2>6. CASE GiveUp(n)
    BY <2>6 DEF GiveUp
  <2>7. CASE Acquired(n)
    BY <2>7 DEF Acquired
  <2>8. CASE ReleaseLocal(n)
    BY <2>8 DEF ReleaseLocal, Cleared
  <2> QED
    BY <1>3, <2>1, <2>2, <2>3, <2>4, <2>5, <2>6, <2>7, <2>8 DEF Handler
<1>4. ASSUME NEW n \in Nodes, CheckClusterHealth(n) PROVE TypeOK'
  BY <1>4 DEF CheckClusterHealth, Peers
<1>5. ASSUME NEW n \in Nodes, SaveState(n) PROVE TypeOK'
  BY <1>5 DEF SaveState, memory
<1>6. ASSUME NEW n \in Nodes, Crash(n) PROVE TypeOK'
  BY <1>6 DEF Crash, Forget
<1>7. ASSUME NEW n \in Nodes, Shutdown(n) PROVE TypeOK'
  BY <1>7 DEF Shutdown, Forget
<1>8. ASSUME NEW n \in Nodes, Restart(n) PROVE TypeOK'
  BY <1>8 DEF Restart
<1>9. ASSUME NEW n \in Nodes, NEW p \in Nodes, HandleAcquire(n, p) PROVE TypeOK'
  BY <1>9 DEF HandleAcquire
<1>10. ASSUME NEW n \in Nodes, NEW p \in Nodes, HandleRelease(n, p) PROVE TypeOK'
  BY <1>10 DEF HandleRelease, Cleared
<1>11. CASE Tick
  BY <1>11, LockAges DEF Tick
<1>12. CASE UNCHANGED vars
  BY <1>12 DEF vars
<1> QED
  BY <1>1, <1>2, <1>3, <1>4, <1>5, <1>6, <1>7, <1>8, <1>9, <1>10, <1>11, <1>12
  DEF Next

LEMMA AttemptStep == TypeOK /\ AttemptState /\ [Next]_vars => AttemptState'
<1> SUFFICES ASSUME TypeOK, AttemptState, [Next]_vars PROVE AttemptState'
  OBVIOUS
<1> USE NobodyAssumption DEF TypeOK, AttemptState
<1>1. ASSUME NEW n \in Nodes, AcquireLocal(n) PROVE AttemptState'
  BY <1>1 DEF AcquireLocal
<1>2. ASSUME NEW n \in Nodes, StartRelease(n) PROVE AttemptState'
  BY <1>2 DEF StartRelease
<1>3. ASSUME NEW n \in Nodes, Handler(n) PROVE AttemptState'
  <2>1. ASSUME NEW p \in Nodes, SkipUnhealthy(n, p) PROVE AttemptState'
    BY <2>1 DEF SkipUnhealthy
  <2>2. ASSUME NEW p \in Nodes, SendAcquire(n, p) PROVE AttemptState'
    BY <2>2 DEF SendAcquire
  <2>3. ASSUME NEW p \in Nodes, SendRelease(n, p) PROVE AttemptState'
    BY <2>3 DEF SendRelease
  <2>4. CASE ReceiveGranted(n)
    BY <2>4 DEF ReceiveGranted
  <2>5. CASE ReceiveDenied(n)
    BY <2>5 DEF ReceiveDenied, Cleared
  <2>6. CASE GiveUp(n)
    BY <2>6 DEF GiveUp
  <2>7. CASE Acquired(n)
    BY <2>7 DEF Acquired
  <2>8. CASE ReleaseLocal(n)
    BY <2>8 DEF ReleaseLocal, Cleared
  <2> QED
    BY <1>3, <2>1, <2>2, <2>3, <2>4, <2>5, <2>6, <2>7, <2>8 DEF Handler
<1>4. ASSUME NEW n \in Nodes, CheckClusterHealth(n) PROVE AttemptState'
  BY <1>4 DEF CheckClusterHealth
<1>5. ASSUME NEW n \in Nodes, SaveState(n) PROVE AttemptState'
  BY <1>5 DEF SaveState, memory
<1>6. ASSUME NEW n \in Nodes, Forget(n) PROVE AttemptState'
  BY <1>6 DEF Forget
<1>7. ASSUME NEW n \in Nodes, Restart(n) PROVE AttemptState'
  BY <1>7 DEF Restart
<1>8. ASSUME NEW n \in Nodes, NEW p \in Nodes, HandleAcquire(n, p) PROVE AttemptState'
  BY <1>8 DEF HandleAcquire
<1>9. ASSUME NEW n \in Nodes, NEW p \in Nodes, HandleRelease(n, p) PROVE AttemptState'
  BY <1>9 DEF HandleRelease, Cleared
<1>10. CASE Tick
  BY <1>10 DEF Tick, Aged, Valid
<1>11. CASE UNCHANGED vars
  BY <1>11 DEF vars
<1> QED
  BY <1>1, <1>2, <1>3, <1>4, <1>5, <1>6, <1>7, <1>8, <1>9, <1>10, <1>11
  DEF Next, Crash, Shutdown

LEMMA SelfCallStep == TypeOK /\ NoSelfCall /\ [Next]_vars => NoSelfCall'
<1> SUFFICES ASSUME TypeOK, NoSelfCall, [Next]_vars PROVE NoSelfCall'
  OBVIOUS
<1> USE NobodyAssumption DEF TypeOK, NoSelfCall
<1>1. ASSUME NEW n \in Nodes, AcquireLocal(n) \/ StartRelease(n) PROVE NoSelfCall'
  BY <1>1 DEF AcquireLocal, StartRelease, Peers
<1>2. ASSUME NEW n \in Nodes, NEW p \in Nodes, SendRelease(n, p) PROVE NoSelfCall'
  BY <1>2 DEF SendRelease
<1>3. ASSUME NEW n \in Nodes, NEW p \in Nodes, SkipUnhealthy(n, p) \/ SendAcquire(n, p)
      PROVE  NoSelfCall'
  BY <1>3 DEF SkipUnhealthy, SendAcquire
<1>4. ASSUME NEW n \in Nodes,
             ReceiveGranted(n) \/ ReceiveDenied(n) \/ GiveUp(n) \/ Acquired(n) \/ ReleaseLocal(n)
      PROVE  NoSelfCall'
  BY <1>4 DEF ReceiveGranted, ReceiveDenied, GiveUp, Acquired, ReleaseLocal
<1>5. ASSUME NEW n \in Nodes, CheckClusterHealth(n) \/ SaveState(n) \/ Restart(n)
      PROVE  NoSelfCall'
  BY <1>5 DEF CheckClusterHealth, SaveState, memory, Restart
<1>6. ASSUME NEW n \in Nodes, Forget(n) PROVE NoSelfCall'
  BY <1>6 DEF Forget
<1>7. ASSUME NEW n \in Nodes, NEW p \in Nodes, HandleAcquire(n, p) \/ HandleRelease(n, p)
      PROVE  NoSelfCall'
  BY <1>7 DEF HandleAcquire, HandleRelease
<1>8. CASE Tick \/ UNCHANGED vars
  BY <1>8 DEF Tick, vars
<1> QED
  BY <1>1, <1>2, <1>3, <1>4, <1>5, <1>6, <1>7, <1>8 DEF Next, Handler, Crash, Shutdown

\* Only n writes a lock for n, and nobody but n removes it: the handler of
\* /lock/release would need n's name in another node's lock.
LEMMA OwnershipStep ==
  TypeOK /\ AttemptState /\ NoSelfCall /\ OwnLockOnly /\ HolderKeepsLock /\ [Next]_vars
    => OwnLockOnly' /\ HolderKeepsLock'
<1> SUFFICES ASSUME TypeOK, AttemptState, NoSelfCall, OwnLockOnly, HolderKeepsLock,
                    [Next]_vars
             PROVE  OwnLockOnly' /\ HolderKeepsLock'
  OBVIOUS
<1> USE DEF TypeOK, OwnLockOnly, HolderKeepsLock
<1> DEFINE Goal == OwnLockOnly' /\ HolderKeepsLock'
<1>1. ASSUME NEW n \in Nodes, AcquireLocal(n) PROVE Goal
  BY <1>1, NewLock DEF AcquireLocal
<1>2. ASSUME NEW n \in Nodes, StartRelease(n) PROVE Goal
  BY <1>2 DEF StartRelease
<1>3. ASSUME NEW n \in Nodes, Handler(n) PROVE Goal
  <2>1. ASSUME NEW p \in Nodes, SkipUnhealthy(n, p) PROVE Goal
    BY <2>1 DEF SkipUnhealthy
  <2>2. ASSUME NEW p \in Nodes, SendAcquire(n, p) PROVE Goal
    BY <2>2 DEF SendAcquire
  <2>3. ASSUME NEW p \in Nodes, SendRelease(n, p) PROVE Goal
    BY <2>3 DEF SendRelease
  <2>4. CASE ReceiveGranted(n)
    BY <2>4 DEF ReceiveGranted
  <2>5. CASE ReceiveDenied(n)
    BY <2>5 DEF ReceiveDenied, Cleared
  <2>6. CASE GiveUp(n)
    BY <2>6 DEF GiveUp
  <2>7. CASE Acquired(n)
    BY <2>7 DEF Acquired
  <2>8. CASE ReleaseLocal(n)
    BY <2>8 DEF ReleaseLocal, Cleared
  <2> QED
    BY <1>3, <2>1, <2>2, <2>3, <2>4, <2>5, <2>6, <2>7, <2>8 DEF Handler
<1>4. ASSUME NEW n \in Nodes, CheckClusterHealth(n) PROVE Goal
  BY <1>4 DEF CheckClusterHealth
<1>5. ASSUME NEW n \in Nodes, SaveState(n) PROVE Goal
  BY <1>5 DEF SaveState, memory
<1>6. ASSUME NEW n \in Nodes, Crash(n) PROVE Goal
  BY <1>6 DEF Crash, Forget
<1>7. ASSUME NEW n \in Nodes, Shutdown(n) PROVE Goal
  BY <1>7 DEF Shutdown, Forget
<1>8. ASSUME NEW n \in Nodes, Restart(n) PROVE Goal
  BY <1>8 DEF Restart, AttemptState
<1>9. ASSUME NEW n \in Nodes, NEW p \in Nodes, HandleAcquire(n, p) PROVE Goal
  BY <1>9 DEF HandleAcquire
<1>10. ASSUME NEW n \in Nodes, NEW p \in Nodes, HandleRelease(n, p) PROVE Goal
  <2>1. CASE n = p
    BY <1>10, <2>1 DEF HandleRelease, NoSelfCall
  <2>2. CASE n # p
    <3>1. Cleared(lock[p], n) = lock[p]
      BY <2>2 DEF Cleared
    <3>2. lock' = lock
      BY <1>10, <3>1 DEF HandleRelease
    <3> QED
      BY <1>10, <3>2 DEF HandleRelease
  <2> QED
    BY <2>1, <2>2
<1>11. CASE Tick
  BY <1>11, LockAges DEF Tick
<1>12. CASE UNCHANGED vars
  BY <1>12 DEF vars
<1> QED
  BY <1>1, <1>2, <1>3, <1>4, <1>5, <1>6, <1>7, <1>8, <1>9, <1>10, <1>11, <1>12
  DEF Next

\* What can hurt NoMutualApproval is a new approval or a lock that comes into
\* force; every step adds at most one of the two, and then for one node only.
LEMMA NothingNew ==
  ASSUME TypeOK, NoMutualApproval,
         \A n \in Nodes : Valid(lock[n])' => Valid(lock[n]),
         \A n \in Nodes : Approvals(n)' \subseteq Approvals(n)
  PROVE  NoMutualApproval'
BY DEF NoMutualApproval

\* A node without approvals may get a lock.
LEMMA FreshLock ==
  ASSUME TypeOK, NoMutualApproval, NEW n \in Nodes,
         Approvals(n)' = {},
         \A m \in Nodes \ {n} : /\ Valid(lock[m])' => Valid(lock[m])
                              /\ Approvals(m)' \subseteq Approvals(m)
  PROVE  NoMutualApproval'
BY DEF NoMutualApproval

LEMMA ApprovalStep == Inv /\ [Next]_vars => NoMutualApproval'
<1> SUFFICES ASSUME Inv, [Next]_vars PROVE NoMutualApproval'
  OBVIOUS
<1> USE NobodyAssumption DEF Inv, TypeOK
<1>1. ASSUME NEW n \in Nodes, AcquireLocal(n) PROVE NoMutualApproval'
  <2>1. Approvals(n)' = {}
    BY <1>1 DEF AcquireLocal, Approvals, AttemptState
  <2>2. \A m \in Nodes \ {n} : lock'[m] = lock[m] /\ Approvals(m)' = Approvals(m)
    BY <1>1 DEF AcquireLocal, Approvals
  <2> QED
    BY <2>1, <2>2, FreshLock DEF Valid
<1>2. ASSUME NEW n \in Nodes, Restart(n) PROVE NoMutualApproval'
  <2>1. Approvals(n)' = {}
    BY <1>2 DEF Restart, Approvals, AttemptState
  <2>2. \A m \in Nodes \ {n} : lock'[m] = lock[m] /\ Approvals(m)' = Approvals(m)
    BY <1>2 DEF Restart, Approvals
  <2> QED
    BY <2>1, <2>2, FreshLock DEF Valid
<1>3. ASSUME NEW n \in Nodes, NEW p \in Nodes, HandleAcquire(n, p) PROVE NoMutualApproval'
  <2>1. CASE CanAcquire(lock[p], n)
    <3>1. n # p => ~Valid(lock[p])
      BY <2>1 DEF CanAcquire, OwnLockOnly, Valid
    <3>2. lock' = lock /\ \A m \in Nodes \ {n} : Approvals(m)' = Approvals(m)
      BY <1>3 DEF HandleAcquire, Approvals
    <3>3. Approvals(n)' \subseteq Approvals(n) \cup {p}
      BY <1>3 DEF HandleAcquire, Approvals
    <3> QED
      BY <3>1, <3>2, <3>3 DEF NoMutualApproval, Valid
  <2>2. CASE ~CanAcquire(lock[p], n)
    BY <1>3, <2>2, NothingNew DEF HandleAcquire, Approvals, Valid
  <2> QED
    BY <2>1, <2>2
<1>4. ASSUME NEW n \in Nodes, ReceiveGranted(n) PROVE NoMutualApproval'
  <2>1. \A m \in Nodes : Approvals(m)' = Approvals(m)
    BY <1>4 DEF ReceiveGranted, Approvals
  <2> QED
    BY <1>4, <2>1, NothingNew DEF ReceiveGranted, Valid
<1>5. ASSUME NEW n \in Nodes, Handler(n), ~ReceiveGranted(n) PROVE NoMutualApproval'
  <2>1. ASSUME NEW m \in Nodes PROVE Approvals(m)' \subseteq Approvals(m)
    BY <1>5 DEF Handler, SkipUnhealthy, SendAcquire, SendRelease, ReceiveDenied, GiveUp,
       Acquired, ReleaseLocal, Approvals, AttemptState
  <2>2. ASSUME NEW m \in Nodes, Valid(lock[m])' PROVE Valid(lock[m])
    BY <1>5, <2>2 DEF Handler, SkipUnhealthy, SendAcquire, SendRelease, ReceiveDenied,
       GiveUp, Acquired, ReleaseLocal, Cleared, Valid
  <2> QED
    BY <2>1, <2>2, NothingNew
<1>6. ASSUME NEW n \in Nodes, Forget(n) PROVE NoMutualApproval'
  BY <1>6, NothingNew DEF Forget, Approvals, Valid
<1>7. ASSUME NEW n \in Nodes, NEW p \in Nodes, HandleRelease(n, p) PROVE NoMutualApproval'
  BY <1>7, NothingNew DEF HandleRelease, Cleared, Approvals, Valid
<1>8. ASSUME NEW n \in Nodes, StartRelease(n) \/ CheckClusterHealth(n) \/ SaveState(n)
      PROVE  NoMutualApproval'
  BY <1>8, NothingNew DEF StartRelease, CheckClusterHealth, SaveState, memory, Approvals, Valid
<1>9. CASE Tick
  <2>1. \A m \in Nodes : Valid(lock[m])' => Valid(lock[m])
    BY <1>9, LockAges DEF Tick, Valid
  <2> QED
    BY <1>9, <2>1, NothingNew DEF Tick, Approvals
<1>10. CASE UNCHANGED vars
  BY <1>10, NothingNew DEF vars, Approvals, Valid
<1> QED
  BY <1>1, <1>2, <1>3, <1>4, <1>5, <1>6, <1>7, <1>8, <1>9, <1>10 DEF Next, Crash, Shutdown

\* The invariant of every reachable state.
THEOREM Invariance == Spec => []Inv
<1>1. Inv /\ [Next]_vars => Inv'
  BY TypeStep, AttemptStep, SelfCallStep, OwnershipStep, ApprovalStep DEF Inv
<1> QED
  BY InitInv, <1>1, PTL DEF Spec

-----------------------------------------------------------------------------
\* Every variable keeps its type: no lock has less than no time or more than
\* the configured timeout left.
THEOREM TypeCorrect == Spec => []TypeOK
<1>1. Inv => TypeOK
  BY DEF Inv
<1> QED
  BY Invariance, <1>1, PTL

\* Two nodes that approved each other are never both under an unexpired lock,
\* for any number of nodes and any timeout.
THEOREM ApprovalExcludes == Spec => []NoMutualApproval
<1>1. Inv => NoMutualApproval
  BY DEF Inv
<1> QED
  BY Invariance, <1>1, PTL

\* From taking its lock to giving it back a node has it, whatever releases
\* arrive late.
THEOREM HolderSafe == Spec => []HolderKeepsLock
<1>1. Inv => HolderKeepsLock
  BY DEF Inv
<1> QED
  BY Invariance, <1>1, PTL

\* No node ever stores the lock of another, in memory or on disk.
THEOREM LocksAreLocal == Spec => []OwnLockOnly
<1>1. Inv => OwnLockOnly
  BY DEF Inv
<1> QED
  BY Invariance, <1>1, PTL

-----------------------------------------------------------------------------
(* The lock implements the lease.                                           *)

\* Two nodes that both hold the lock: the lock of one has expired, or the
\* answer of one never reached the other.  This is what is left of the
\* exclusion the README states.
THEOREM ExclusionWhenHeard ==
  Spec => [](\A n, m \in Nodes :
               pc[n] = "held" /\ pc[m] = "held" /\ n # m
                 => \/ lock[n].left = 0 \/ lock[m].left = 0
                    \/ m \notin granted[n] \/ n \notin granted[m])
<1>1. ASSUME Inv, NEW n \in Nodes, NEW m \in Nodes, pc[n] = "held", pc[m] = "held", n # m,
             m \in granted[n], n \in granted[m]
      PROVE  lock[n].left = 0 \/ lock[m].left = 0
  <2>1. lock[n] # NoLock /\ lock[m] # NoLock
    BY <1>1 DEF Inv, HolderKeepsLock
  <2>2. lock[n].left \in 0..Timeout /\ lock[m].left \in 0..Timeout
    BY <1>1, <2>1 DEF Inv, TypeOK, Locks
  <2>3. ~(Valid(lock[n]) /\ Valid(lock[m]))
    BY <1>1 DEF Inv, NoMutualApproval, Approvals
  <2> QED
    BY <2>1, <2>2, <2>3, TimeoutAssumption DEF Valid
<1>2. Inv => \A n, m \in Nodes :
               pc[n] = "held" /\ pc[m] = "held" /\ n # m
                 => \/ lock[n].left = 0 \/ lock[m].left = 0
                    \/ m \notin granted[n] \/ n \notin granted[m]
  BY <1>1
<1> QED
  BY Invariance, <1>2, PTL

LEMMA TicksOf ==
  ASSUME NEW l \in Locks \cup {NoLock}
  PROVE  /\ TicksLeft(l) \in 0..Timeout
         /\ TicksLeft(Aged(l)) = Lease!Less(TicksLeft(l))
         /\ TicksLeft(l) = 0 <=> ~Valid(l)
<1>1. CASE l = NoLock
  BY <1>1, TimeoutAssumption DEF Aged, Valid, TicksLeft, Lease!Less
<1>2. CASE l \in Locks /\ l # NoLock
  <2>1. PICK b \in Nodes, k \in 0..Timeout : l = [by |-> b, left |-> k]
    BY <1>2 DEF Locks
  <2>2. CASE k = 0
    BY <1>2, <2>1, <2>2 DEF Aged, Valid, TicksLeft, Lease!Less
  <2>3. CASE k > 0
    <3>1. Aged(l) = [by |-> b, left |-> k - 1] /\ k - 1 \in 0..Timeout
      BY <1>2, <2>1, <2>3, TimeoutAssumption DEF Aged, Valid
    <3>2. Aged(l) # NoLock
      BY <1>2, LockAges
    <3> QED
      BY <1>2, <2>1, <2>3, <3>1, <3>2 DEF Valid, TicksLeft, Lease!Less
  <2> QED
    BY <2>1, <2>2, <2>3
<1> QED
  BY <1>1, <1>2

\* The state of the lease, named once.
LeaseLeft == [n \in Nodes |-> TicksLeft(lock[n])]
LeaseSaved == [n \in Nodes |-> TicksLeft(disk[n])]
LeaseWorking == {n \in Nodes : pc[n] # "idle"}
LeaseApprovals == [n \in Nodes |-> Approvals(n)]

LEMMA Unmoved ==
  ASSUME \A n \in Nodes : /\ TicksLeft(lock[n])' = TicksLeft(lock[n])
                          /\ TicksLeft(disk[n])' = TicksLeft(disk[n])
                          /\ pc[n]' # "idle" <=> pc[n] # "idle"
                          /\ Approvals(n)' = Approvals(n)
  PROVE  UNCHANGED Lease!vars
<1>1. LeaseLeft' = LeaseLeft /\ LeaseSaved' = LeaseSaved
  BY DEF LeaseLeft, LeaseSaved
<1>2. LeaseWorking' = LeaseWorking /\ LeaseApprovals' = LeaseApprovals
  BY DEF LeaseWorking, LeaseApprovals
<1> QED
  BY <1>1, <1>2 DEF Lease!vars, LeaseLeft, LeaseSaved, LeaseWorking, LeaseApprovals

\* A node gives its lease up, and its file may take the lease as it was.
LEMMA Left ==
  ASSUME TypeOK, NEW n \in Nodes,
         TicksLeft(lock[n])' = 0, pc[n]' = "idle", Approvals(n)' = {},
         TicksLeft(disk[n])' \in {TicksLeft(disk[n]), TicksLeft(lock[n])},
         \A m \in Nodes \ {n} : /\ TicksLeft(lock[m])' = TicksLeft(lock[m])
                                /\ TicksLeft(disk[m])' = TicksLeft(disk[m])
                                /\ pc[m]' = pc[m]
                                /\ Approvals(m)' = Approvals(m)
  PROVE  Lease!Leave(n)
<1>1. LeaseWorking' = LeaseWorking \ {n}
  BY DEF LeaseWorking
<1>2. LeaseLeft' = [LeaseLeft EXCEPT ![n] = 0]
  BY DEF LeaseLeft
<1>3. LeaseApprovals' = [LeaseApprovals EXCEPT ![n] = {}]
  BY DEF LeaseApprovals
<1>4. LeaseSaved' = LeaseSaved \/ LeaseSaved' = [LeaseSaved EXCEPT ![n] = LeaseLeft[n]]
  BY DEF LeaseSaved, LeaseLeft
<1> QED
  BY <1>1, <1>2, <1>3, <1>4 DEF Lease!Leave, LeaseLeft, LeaseSaved, LeaseWorking, LeaseApprovals

LEMMA LeaseStep == Inv /\ [Next]_vars => [Lease!Next]_(Lease!vars)
<1> SUFFICES ASSUME Inv, [Next]_vars PROVE [Lease!Next]_(Lease!vars)
  OBVIOUS
<1> DEFINE Goal == [Lease!Next]_(Lease!vars)
<1> USE NobodyAssumption DEF Inv, TypeOK
<1>1. ASSUME NEW n \in Nodes, AcquireLocal(n) PROVE Goal
  <2>1. TicksLeft([by |-> n, left |-> Timeout]) = Timeout
    BY NewLock, TimeoutAssumption DEF TicksLeft, Valid
  <2>2. LeaseLeft' = [LeaseLeft EXCEPT ![n] = Timeout]
    BY <1>1, <2>1 DEF AcquireLocal, LeaseLeft
  <2>3. n \notin LeaseWorking /\ LeaseWorking' = LeaseWorking \cup {n}
    BY <1>1 DEF AcquireLocal, LeaseWorking
  <2>4. \A m \in Nodes : Approvals(m)' = Approvals(m)
    BY <1>1 DEF AcquireLocal, Approvals, AttemptState
  <2>5. LeaseApprovals' = LeaseApprovals /\ LeaseSaved' = LeaseSaved
    BY <1>1, <2>4 DEF AcquireLocal, LeaseApprovals, LeaseSaved
  <2>6. Lease!Take(n)
    BY <2>2, <2>3, <2>5 DEF Lease!Take, LeaseLeft, LeaseSaved, LeaseWorking, LeaseApprovals
  <2> QED
    BY <2>6 DEF Lease!Next
<1>2. ASSUME NEW n \in Nodes, NEW p \in Nodes, HandleAcquire(n, p) PROVE Goal
  <2>1. UNCHANGED <<lock, disk, pc>>
    BY <1>2 DEF HandleAcquire
  <2>2. CASE CanAcquire(lock[p], n)
    <3>1. p # n /\ n \in LeaseWorking
      BY <1>2 DEF HandleAcquire, NoSelfCall, AttemptState, LeaseWorking
    <3>2. LeaseLeft[p] = 0
      <4>1. ~Valid(lock[p])
        BY <2>2, <3>1 DEF CanAcquire, OwnLockOnly, Valid
      <4> QED
        BY <4>1 DEF LeaseLeft, TicksLeft
    <3>3. Approvals(n)' = Approvals(n) \cup {p}
      BY <1>2, <2>2 DEF HandleAcquire, Approvals
    <3>4. \A m \in Nodes \ {n} : Approvals(m)' = Approvals(m)
      BY <1>2 DEF HandleAcquire, Approvals
    <3>5. LeaseApprovals' = [LeaseApprovals EXCEPT ![n] = @ \cup {p}]
      BY <3>3, <3>4 DEF LeaseApprovals
    <3>6. UNCHANGED <<LeaseLeft, LeaseSaved, LeaseWorking>>
      BY <2>1 DEF LeaseLeft, LeaseSaved, LeaseWorking
    <3>7. Lease!Approve(n, p)
      BY <3>1, <3>2, <3>5, <3>6
      DEF Lease!Approve, LeaseLeft, LeaseSaved, LeaseWorking, LeaseApprovals
    <3> QED
      BY <3>7 DEF Lease!Next
  <2>3. CASE ~CanAcquire(lock[p], n)
    <3>1. \A m \in Nodes : Approvals(m)' = Approvals(m)
      BY <1>2, <2>3 DEF HandleAcquire, Approvals
    <3> QED
      BY <2>1, <3>1, Unmoved
  <2> QED
    BY <2>2, <2>3
<1>3. ASSUME NEW n \in Nodes, GiveUp(n) PROVE Goal
  <2>1. UNCHANGED <<lock, disk, pc, granted>> /\ reply'[n] = "none"
    BY <1>3 DEF GiveUp
  <2>2. \A m \in Nodes \ {n} : Approvals(m)' = Approvals(m)
    BY <1>3 DEF GiveUp, Approvals
  <2>3. CASE reply[n] = "granted" /\ call[n] \notin granted[n]
    <3>1. call[n] \in Nodes
      BY <1>3 DEF GiveUp
    <3>2. Approvals(n)' = Approvals(n) \ {call[n]}
      BY <2>1, <2>3 DEF Approvals
    <3>3. LeaseApprovals' = [LeaseApprovals EXCEPT ![n] = @ \ {call[n]}]
      BY <2>2, <3>2 DEF LeaseApprovals
    <3>4. UNCHANGED <<LeaseLeft, LeaseSaved, LeaseWorking>>
      BY <2>1 DEF LeaseLeft, LeaseSaved, LeaseWorking
    <3>5. Lease!Lose(n, call[n])
      BY <3>3, <3>4 DEF Lease!Lose, LeaseLeft, LeaseSaved, LeaseWorking, LeaseApprovals
    <3> QED
      BY <3>1, <3>5 DEF Lease!Next
  <2>4. CASE ~(reply[n] = "granted" /\ call[n] \notin granted[n])
    <3>1. Approvals(n)' = Approvals(n)
      BY <2>1, <2>4 DEF Approvals
    <3> QED
      BY <2>1, <2>2, <3>1, Unmoved
  <2> QED
    BY <2>3, <2>4
<1>4. ASSUME NEW n \in Nodes, ReceiveDenied(n) \/ ReleaseLocal(n) PROVE Goal
  <2>1. lock' = [lock EXCEPT ![n] = NoLock]
    BY <1>4 DEF ReceiveDenied, ReleaseLocal, Cleared, OwnLockOnly
  <2>2. /\ disk' = disk /\ pc' = [pc EXCEPT ![n] = "idle"]
        /\ granted' = [granted EXCEPT ![n] = {}] /\ reply'[n] = "none"
        /\ \A m \in Nodes \ {n} : reply'[m] = reply[m] /\ call'[m] = call[m]
    BY <1>4 DEF ReceiveDenied, ReleaseLocal, AttemptState
  <2>3. Approvals(n)' = {} /\ \A m \in Nodes \ {n} : Approvals(m)' = Approvals(m)
    BY <2>2 DEF Approvals
  <2>4. TicksLeft(lock[n])' = 0
    BY <2>1 DEF TicksLeft, Valid
  <2>5. Lease!Leave(n)
    BY <2>1, <2>2, <2>3, <2>4, Left
  <2> QED
    BY <2>5 DEF Lease!Next
<1>5. ASSUME NEW n \in Nodes, Crash(n) \/ Shutdown(n) PROVE Goal
  <2>1. /\ lock' = [lock EXCEPT ![n] = NoLock] /\ pc' = [pc EXCEPT ![n] = "idle"]
        /\ granted' = [granted EXCEPT ![n] = {}] /\ reply'[n] = "none"
        /\ \A m \in Nodes \ {n} : reply'[m] = reply[m] /\ call'[m] = call[m]
    BY <1>5 DEF Crash, Shutdown, Forget
  <2>2. disk' = disk \/ disk' = [disk EXCEPT ![n] = lock[n]]
    BY <1>5 DEF Crash, Shutdown
  <2>3. Approvals(n)' = {} /\ \A m \in Nodes \ {n} : Approvals(m)' = Approvals(m)
    BY <2>1 DEF Approvals
  <2>4. TicksLeft(lock[n])' = 0
    BY <2>1 DEF TicksLeft, Valid
  <2>5. Lease!Leave(n)
    BY <2>1, <2>2, <2>3, <2>4, Left
  <2> QED
    BY <2>5 DEF Lease!Next
<1>6. ASSUME NEW n \in Nodes, SaveState(n) PROVE Goal
  <2>1. UNCHANGED <<lock, pc, granted, reply, call>> /\ disk' = [disk EXCEPT ![n] = lock[n]]
    BY <1>6 DEF SaveState, memory
  <2>2. LeaseSaved' = [LeaseSaved EXCEPT ![n] = LeaseLeft[n]]
    BY <2>1 DEF LeaseSaved, LeaseLeft
  <2>3. UNCHANGED <<LeaseLeft, LeaseWorking, LeaseApprovals>>
    BY <2>1 DEF LeaseLeft, LeaseWorking, LeaseApprovals, Approvals
  <2>4. Lease!Save(n)
    BY <2>2, <2>3 DEF Lease!Save, LeaseLeft, LeaseSaved, LeaseWorking, LeaseApprovals
  <2> QED
    BY <2>4 DEF Lease!Next
<1>7. ASSUME NEW n \in Nodes, Restart(n) PROVE Goal
  <2>1. PICK l \in {disk[n], NoLock} :
          UNCHANGED <<disk, pc, granted, reply, call>> /\ lock' = [lock EXCEPT ![n] = l]
    BY <1>7 DEF Restart
  <2>2. n \notin LeaseWorking /\ LeaseLeft[n] = 0 /\ lock[n] = NoLock
    BY <1>7 DEF Restart, AttemptState, LeaseWorking, LeaseLeft, TicksLeft, Valid
  <2>3. CASE l = disk[n]
    <3>1. LeaseLeft' = [LeaseLeft EXCEPT ![n] = LeaseSaved[n]]
      BY <2>1, <2>3 DEF LeaseSaved, LeaseLeft
    <3>2. UNCHANGED <<LeaseSaved, LeaseWorking, LeaseApprovals>>
      BY <2>1 DEF LeaseSaved, LeaseWorking, LeaseApprovals, Approvals
    <3>3. Lease!Resume(n)
      BY <2>2, <3>1, <3>2 DEF Lease!Resume, LeaseLeft, LeaseSaved, LeaseWorking, LeaseApprovals
    <3> QED
      BY <3>3 DEF Lease!Next
  <2>4. CASE l = NoLock
    <3>1. lock' = lock
      BY <2>1, <2>2, <2>4
    <3> QED
      BY <2>1, <3>1, Unmoved DEF Approvals
  <2> QED
    BY <2>1, <2>3, <2>4
<1>8. CASE Tick
  <2>1. LeaseLeft' = [n \in Nodes |-> Lease!Less(LeaseLeft[n])]
    BY <1>8, TicksOf DEF Tick, LeaseLeft
  <2>2. LeaseSaved' = [n \in Nodes |-> Lease!Less(LeaseSaved[n])]
    BY <1>8, TicksOf DEF Tick, LeaseSaved
  <2>3. UNCHANGED <<LeaseWorking, LeaseApprovals>>
    BY <1>8 DEF Tick, LeaseWorking, LeaseApprovals, Approvals
  <2>4. Lease!Tick
    BY <2>1, <2>2, <2>3 DEF Lease!Tick, LeaseLeft, LeaseSaved, LeaseWorking, LeaseApprovals
  <2> QED
    BY <2>4 DEF Lease!Next
<1>9. ASSUME NEW n \in Nodes, NEW p \in Nodes, HandleRelease(n, p) PROVE Goal
  <2>1. Cleared(lock[p], n) = lock[p]
    BY <1>9 DEF HandleRelease, Cleared, OwnLockOnly, NoSelfCall
  <2>2. UNCHANGED <<lock, disk, pc, granted, reply, call>>
    BY <1>9, <2>1 DEF HandleRelease
  <2> QED
    BY <2>2, Unmoved DEF Approvals
<1>10. ASSUME NEW n \in Nodes, NEW p \in Nodes,
              \/ SkipUnhealthy(n, p) \/ SendAcquire(n, p) \/ SendRelease(n, p)
              \/ ReceiveGranted(n) \/ Acquired(n) \/ StartRelease(n) \/ CheckClusterHealth(n)
       PROVE  Goal
  <2>1. \A m \in Nodes : Approvals(m)' = Approvals(m)
    BY <1>10 DEF SkipUnhealthy, SendAcquire, SendRelease, ReceiveGranted, Acquired,
       StartRelease, CheckClusterHealth, Approvals, AttemptState
  <2>2. /\ UNCHANGED <<lock, disk>>
        /\ \A m \in Nodes : pc[m]' # "idle" <=> pc[m] # "idle"
    BY <1>10 DEF SkipUnhealthy, SendAcquire, SendRelease, ReceiveGranted, Acquired,
       StartRelease, CheckClusterHealth
  <2> QED
    BY <2>1, <2>2, Unmoved
<1>11. CASE UNCHANGED vars
  BY <1>11, Unmoved DEF vars, Approvals
<1> QED
  BY <1>1, <1>2, <1>3, <1>4, <1>5, <1>6, <1>7, <1>8, <1>9, <1>10, <1>11 DEF Next, Handler

\* Messages, timeouts, health checks, crashes and reloads give every node the
\* lease the abstract specification describes, for any set of nodes.
THEOREM LeaseKept == Spec => ImplementsLease
<1>1. Init => Lease!Init
  BY DEF Init, Lease!Init, TicksLeft, Valid, Approvals
<1> QED
  BY Invariance, LeaseStep, <1>1, PTL DEF Spec, ImplementsLease, Lease!Spec
=============================================================================
