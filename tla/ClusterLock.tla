----------------------------- MODULE ClusterLock -----------------------------
(***************************************************************************)
(* The cluster lock of cluster.go: every node keeps one lock in its own    *)
(* ServiceState, takes it before a router restart, asks its healthy peers  *)
(* one after another for approval over HTTP, and gives it back with        *)
(* best-effort calls.  A peer answers from its own lock and records        *)
(* nothing.  Processes crash, shut down and reload the lock they saved;    *)
(* calls time out; a release may arrive after its sender stopped waiting.  *)
(*                                                                         *)
(* A lock's ExpiresAt is the number of ticks it has left: Tick ages every  *)
(* lock, in memory and on disk, and a lock with none left has expired but  *)
(* stays in place, as in the code.  IsLocked is true in every lock the     *)
(* code creates and is left out.                                           *)
(***************************************************************************)
EXTENDS Naturals, FiniteSets

CONSTANTS Nodes,      \* node identifiers, one per instance
          Timeout,    \* ClusterLockTimeoutSeconds, in ticks
          NoLock,     \* ClusterLock == nil
          Nobody      \* no call outstanding

ASSUME TimeoutAssumption == Timeout \in Nat \ {0}
ASSUME NoLockAssumption == NoLock \notin [by : Nodes, left : 0..Timeout]
ASSUME NobodyAssumption == Nobody \notin Nodes

VARIABLES
  up,        \* up[n]: the process of n runs
  lock,      \* lock[n]: state.ClusterLock in the memory of n
  disk,      \* disk[n]: the ClusterLock in the state file of n
  healthy,   \* healthy[n]: the peers n has marked IsHealthy
  pc,        \* where the restart handler of n is
  todo,      \* the peers the loop of TryAcquireLock / ReleaseLock has left
  call,      \* the peer whose answer to /lock/acquire n awaits, or Nobody
  reply,     \* that peer's answer, if it was given
  granted,   \* history: the peers that approved the present attempt of n
  releases   \* <<n, p>>: a /lock/release of n on its way to p

memory == <<lock, healthy, pc, todo, call, reply, granted>>
vars == <<up, lock, disk, healthy, pc, todo, call, reply, granted, releases>>

Locks == [by : Nodes, left : 0..Timeout]
Peers(n) == Nodes \ {n}

TypeOK ==
  /\ up \in [Nodes -> BOOLEAN]
  /\ lock \in [Nodes -> Locks \cup {NoLock}]
  /\ disk \in [Nodes -> Locks \cup {NoLock}]
  /\ healthy \in [Nodes -> SUBSET Nodes]
  /\ pc \in [Nodes -> {"idle", "ask", "held", "release"}]
  /\ todo \in [Nodes -> SUBSET Nodes]
  /\ call \in [Nodes -> Nodes \cup {Nobody}]
  /\ reply \in [Nodes -> {"none", "granted", "denied"}]
  /\ granted \in [Nodes -> SUBSET Nodes]
  /\ releases \in SUBSET (Nodes \X Nodes)

\* now.Before(ExpiresAt) of a lock that exists
Valid(l) == l # NoLock /\ l.left > 0

\* Faulty variant of CanAcquire: ExpiresAt is not looked at.
CanAcquire_NoExpiry(l, n) == l # NoLock => l.by = n

\* The decision of tryAcquireLocalLockAtomic and handleLockAcquire: only an
\* unexpired lock of somebody else stands in the way of n.
CanAcquire(l, n) == Valid(l) => l.by = n

\* Faulty variant of Cleared: LockedBy is not compared.
Cleared_Anyones(l, n) == NoLock

\* releaseLocalLock and handleLockRelease drop the lock of n and no other.
Cleared(l, n) == IF l # NoLock /\ l.by = n THEN NoLock ELSE l

Init ==
  /\ up = [n \in Nodes |-> TRUE]
  /\ lock = [n \in Nodes |-> NoLock]
  /\ disk = [n \in Nodes |-> NoLock]
  /\ healthy = [n \in Nodes |-> {}]
  /\ pc = [n \in Nodes |-> "idle"]
  /\ todo = [n \in Nodes |-> {}]
  /\ call = [n \in Nodes |-> Nobody]
  /\ reply = [n \in Nodes |-> "none"]
  /\ granted = [n \in Nodes |-> {}]
  /\ releases = {}

-----------------------------------------------------------------------------
(* TryAcquireLock.  One handler per node runs it, under handlerMu.          *)

\* tryAcquireLocalLockAtomic creates the node's own lock or refreshes it, and
\* the loop over the peers begins.  A refusal leaves everything as it was.
AcquireLocal(n) ==
  /\ up[n] /\ pc[n] = "idle"
  /\ CanAcquire(lock[n], n)
  /\ lock' = [lock EXCEPT ![n] = [by |-> n, left |-> Timeout]]
  /\ pc' = [pc EXCEPT ![n] = "ask"]
  /\ todo' = [todo EXCEPT ![n] = Peers(n)]
  /\ granted' = [granted EXCEPT ![n] = {}]
  /\ UNCHANGED <<up, disk, healthy, call, reply, releases>>

\* A peer marked unhealthy is passed over.
SkipUnhealthy(n, p) ==
  /\ pc[n] \in {"ask", "release"} /\ call[n] = Nobody
  /\ p \in todo[n] \ healthy[n]
  /\ todo' = [todo EXCEPT ![n] = @ \ {p}]
  /\ UNCHANGED <<up, lock, disk, healthy, pc, call, reply, granted, releases>>

\* requestLockFromNode posts to a healthy peer, in the map's random order.
SendAcquire(n, p) ==
  /\ pc[n] = "ask" /\ call[n] = Nobody
  /\ p \in todo[n] \cap healthy[n]
  /\ call' = [call EXCEPT ![n] = p]
  /\ todo' = [todo EXCEPT ![n] = @ \ {p}]
  /\ UNCHANGED <<up, lock, disk, healthy, pc, reply, granted, releases>>

\* Faulty variants of HandleAcquire: p approves until its own attempt has
\* succeeded; p stores the lock it grants, as its comment suggests.
HandleAcquire_UntilHeld(n, p) ==
  /\ up[p] /\ call[n] = p /\ reply[n] = "none"
  /\ reply' = [reply EXCEPT ![n] =
                 IF CanAcquire(lock[p], n) \/ pc[p] = "ask" THEN "granted" ELSE "denied"]
  /\ UNCHANGED <<up, lock, disk, healthy, pc, todo, call, granted, releases>>

HandleAcquire_Stored(n, p) ==
  /\ up[p] /\ call[n] = p /\ reply[n] = "none"
  /\ IF CanAcquire(lock[p], n)
       THEN /\ reply' = [reply EXCEPT ![n] = "granted"]
            /\ lock' = [lock EXCEPT ![p] = [by |-> n, left |-> Timeout]]
       ELSE reply' = [reply EXCEPT ![n] = "denied"] /\ UNCHANGED lock
  /\ UNCHANGED <<up, disk, healthy, pc, todo, call, granted, releases>>

\* handleLockAcquire at p: a verdict, and no trace of it in p's state.
HandleAcquire(n, p) ==
  /\ up[p] /\ call[n] = p /\ reply[n] = "none"
  /\ reply' = [reply EXCEPT ![n] =
                 IF CanAcquire(lock[p], n) THEN "granted" ELSE "denied"]
  /\ UNCHANGED <<up, lock, disk, healthy, pc, todo, call, granted, releases>>

ReceiveGranted(n) ==
  /\ call[n] # Nobody /\ reply[n] = "granted"
  /\ granted' = [granted EXCEPT ![n] = @ \cup {call[n]}]
  /\ call' = [call EXCEPT ![n] = Nobody]
  /\ reply' = [reply EXCEPT ![n] = "none"]
  /\ UNCHANGED <<up, lock, disk, healthy, pc, todo, releases>>

\* One denial ends the attempt: the local lock is rolled back.
ReceiveDenied(n) ==
  /\ call[n] # Nobody /\ reply[n] = "denied"
  /\ lock' = [lock EXCEPT ![n] = Cleared(@, n)]
  /\ pc' = [pc EXCEPT ![n] = "idle"]
  /\ todo' = [todo EXCEPT ![n] = {}]
  /\ call' = [call EXCEPT ![n] = Nobody]
  /\ reply' = [reply EXCEPT ![n] = "none"]
  /\ granted' = [granted EXCEPT ![n] = {}]
  /\ UNCHANGED <<up, disk, healthy, releases>>

\* Faulty variant of GiveUp: a client without a timeout.
GiveUp_NoTimeout(n) ==
  /\ call[n] # Nobody /\ ~up[call[n]]
  /\ call' = [call EXCEPT ![n] = Nobody]
  /\ reply' = [reply EXCEPT ![n] = "none"]
  /\ UNCHANGED <<up, lock, disk, healthy, pc, todo, granted, releases>>

\* The call fails or its 5 s run out, whatever the peer did with it: the
\* loop goes on as if the peer were not there.
GiveUp(n) ==
  /\ call[n] # Nobody
  /\ call' = [call EXCEPT ![n] = Nobody]
  /\ reply' = [reply EXCEPT ![n] = "none"]
  /\ UNCHANGED <<up, lock, disk, healthy, pc, todo, granted, releases>>

\* Nobody denied: TryAcquireLock returns true and the restart may begin.
Acquired(n) ==
  /\ pc[n] = "ask" /\ call[n] = Nobody /\ todo[n] = {}
  /\ pc' = [pc EXCEPT ![n] = "held"]
  /\ UNCHANGED <<up, lock, disk, healthy, todo, call, reply, granted, releases>>

-----------------------------------------------------------------------------
(* ReleaseLock, deferred by handleConnectivityFailure.                      *)

StartRelease(n) ==
  /\ pc[n] = "held"
  /\ pc' = [pc EXCEPT ![n] = "release"]
  /\ todo' = [todo EXCEPT ![n] = Peers(n)]
  /\ UNCHANGED <<up, lock, disk, healthy, call, reply, granted, releases>>

\* releaseLockOnNode: its result is ignored, and when the client's 5 s run
\* out first the request may still reach the peer later.
SendRelease(n, p) ==
  /\ pc[n] = "release" /\ p \in todo[n] \cap healthy[n]
  /\ todo' = [todo EXCEPT ![n] = @ \ {p}]
  /\ releases' \in {releases, IF up[p] THEN releases \cup {<<n, p>>} ELSE releases}
  /\ UNCHANGED <<up, lock, disk, healthy, pc, call, reply, granted>>

\* handleLockRelease at p, for the node_id n in the request.
HandleRelease(n, p) ==
  /\ <<n, p>> \in releases /\ up[p]
  /\ lock' = [lock EXCEPT ![p] = Cleared(@, n)]
  /\ releases' = releases \ {<<n, p>>}
  /\ UNCHANGED <<up, disk, healthy, pc, todo, call, reply, granted>>

\* releaseLocalLock, last.
ReleaseLocal(n) ==
  /\ pc[n] = "release" /\ todo[n] = {}
  /\ lock' = [lock EXCEPT ![n] = Cleared(@, n)]
  /\ pc' = [pc EXCEPT ![n] = "idle"]
  /\ granted' = [granted EXCEPT ![n] = {}]
  /\ UNCHANGED <<up, disk, healthy, todo, call, reply, releases>>

-----------------------------------------------------------------------------
(* Health checks, the state file, crashes and time.                         *)

\* checkClusterHealth probes without a lock and then stores all results: a
\* peer that is up may be found unhealthy (a timeout, a network fault), a
\* peer that is down is never found healthy.
CheckClusterHealth(n) ==
  /\ up[n]
  /\ \E seen \in SUBSET {p \in Peers(n) : up[p]} :
       healthy' = [healthy EXCEPT ![n] = seen]
  /\ UNCHANGED <<up, lock, disk, pc, todo, call, reply, granted, releases>>

\* stateSaverLoop or performRestart: the lock goes to disk as it is.  (StateFile
\* has the steps of a save; here it is one.)
SaveState(n) ==
  /\ up[n]
  /\ disk' = [disk EXCEPT ![n] = lock[n]]
  /\ UNCHANGED <<up, memory, releases>>

\* What a process loses when it ends, requests it had not served included.
Forget(n) ==
  /\ up' = [up EXCEPT ![n] = FALSE]
  /\ lock' = [lock EXCEPT ![n] = NoLock]
  /\ healthy' = [healthy EXCEPT ![n] = {}]
  /\ pc' = [pc EXCEPT ![n] = "idle"]
  /\ todo' = [todo EXCEPT ![n] = {}]
  /\ call' = [call EXCEPT ![n] = Nobody]
  /\ reply' = [reply EXCEPT ![n] = "none"]
  /\ granted' = [granted EXCEPT ![n] = {}]
  /\ releases' = {r \in releases : r[2] # n}

\* The process ends without having been asked to.
Crash(n) == up[n] /\ Forget(n) /\ UNCHANGED disk

\* Monitor.Stop saves the state, ClusterManager.Stop closes the server, and
\* the process exits wherever its handler was.
Shutdown(n) ==
  /\ up[n]
  /\ Forget(n)
  /\ disk' = [disk EXCEPT ![n] = lock[n]]

\* Faulty variant: the reloaded lock runs for its full time again.
Restart_Renewed(n) ==
  /\ ~up[n]
  /\ up' = [up EXCEPT ![n] = TRUE]
  /\ lock' = [lock EXCEPT ![n] = IF Valid(disk[n]) THEN [by |-> n, left |-> Timeout] ELSE disk[n]]
  /\ UNCHANGED <<disk, healthy, pc, todo, call, reply, granted, releases>>

\* main loads the state file, lock included, or starts afresh when the file is
\* gone or of no use; NewClusterManager starts with every peer unhealthy.
Restart(n) ==
  /\ ~up[n]
  /\ up' = [up EXCEPT ![n] = TRUE]
  /\ \E l \in {disk[n], NoLock} : lock' = [lock EXCEPT ![n] = l]
  /\ UNCHANGED <<disk, healthy, pc, todo, call, reply, granted, releases>>

\* Faulty variant of Aged: an expired lock goes on ageing.
Aged_PastZero(l) == IF l # NoLock THEN [l EXCEPT !.left = @ - 1] ELSE l

\* One tick off ExpiresAt, down to expired.
Aged(l) == IF Valid(l) THEN [l EXCEPT !.left = @ - 1] ELSE l

\* Time passes for every lock alike.
Tick ==
  /\ lock' = [n \in Nodes |-> Aged(lock[n])]
  /\ disk' = [n \in Nodes |-> Aged(disk[n])]
  /\ UNCHANGED <<up, healthy, pc, todo, call, reply, granted, releases>>

-----------------------------------------------------------------------------
\* What the goroutines of n do of their own accord.
Handler(n) ==
  \/ \E p \in Nodes : SkipUnhealthy(n, p) \/ SendAcquire(n, p) \/ SendRelease(n, p)
  \/ ReceiveGranted(n) \/ ReceiveDenied(n) \/ GiveUp(n) \/ Acquired(n)
  \/ ReleaseLocal(n)

Next ==
  \/ \E n \in Nodes :
       \/ AcquireLocal(n)
       \/ StartRelease(n)
       \/ Handler(n)
       \/ CheckClusterHealth(n)
       \/ SaveState(n)
       \/ Crash(n)
       \/ Shutdown(n)
       \/ Restart(n)
       \/ \E p \in Nodes : HandleAcquire(n, p) \/ HandleRelease(n, p)
  \/ Tick

Spec == Init /\ [][Next]_vars

\* The handler goroutine runs on, every call it makes ends within 5 s, and
\* time passes.  No peer owes an answer, nobody has to start an attempt or
\* come back after a crash.
Fairness == WF_vars(Tick) /\ \A n \in Nodes : WF_vars(Handler(n))
FairSpec == Spec /\ Fairness

-----------------------------------------------------------------------------
(* Properties.                                                              *)

\* The approvals n has in hand: recorded ones and one still on the wire.
Approvals(n) == granted[n] \cup (IF reply[n] = "granted" THEN {call[n]} ELSE {})

\* Two nodes that approved each other never have unexpired locks at the same
\* time, whatever was lost, restarted or late: taking the local lock before
\* asking (cluster.go:176-182) makes the later of the two see the earlier.
NoMutualApproval ==
  \A n, m \in Nodes :
    n # m /\ Valid(lock[n]) /\ Valid(lock[m])
      => ~(m \in Approvals(n) /\ n \in Approvals(m))

\* From tryAcquireLocalLockAtomic to releaseLocalLock the node's lock is in
\* its memory, unexpired or not: no release of an earlier attempt, sent by
\* whichever peer and however late, takes it away (cluster.go:471-475).
HolderKeepsLock ==
  \A n \in Nodes :
    pc[n] # "idle" => lock[n] # NoLock /\ lock[n].by = n

\* A node's memory and its state file never hold the lock of another node,
\* so the lock that refuses a peer is always the refusing node's own.
OwnLockOnly ==
  \A n \in Nodes :
    /\ lock[n] # NoLock => lock[n].by = n
    /\ disk[n] # NoLock => disk[n].by = n

\* The messages, timeouts, crashes and late releases of the cluster give every
\* node a lease of its own: it runs from the moment it is taken, memory and
\* file alike, nobody else lengthens or ends it, and whoever approves another
\* node has none in force at that moment (cluster.go:230-290, 430-490,
\* state.go:42).
TicksLeft(l) == IF Valid(l) THEN l.left ELSE 0
Lease == INSTANCE Lease
  WITH left <- [n \in Nodes |-> TicksLeft(lock[n])],
       saved <- [n \in Nodes |-> TicksLeft(disk[n])],
       working <- {n \in Nodes : pc[n] # "idle"},
       approvals <- [n \in Nodes |-> Approvals(n)]
ImplementsLease == Lease!Spec

\* Every attempt ends, granted or not, even when no peer ever answers: the
\* client's timeout lets the loop of TryAcquireLock go on, so that no node
\* asks for ever (cluster.go:202-216, 308).
AttemptEnds == \A n \in Nodes : []<>(pc[n] # "ask")

\* A lock left behind by a crash or a shutdown does not refuse the others
\* for ever: its node is at work itself, or approves again once the lock has
\* expired (cluster.go:263, 444).
StaleLockYields ==
  \A n \in Nodes : \A p \in Peers(n) : []<>(pc[n] # "idle" \/ CanAcquire(lock[n], p))

\* README: only one instance performs a router restart at a time.
MutualExclusion ==
  \A n, m \in Nodes : pc[n] = "held" /\ pc[m] = "held" => n = m

=============================================================================
