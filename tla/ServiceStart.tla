----------------------------- MODULE ServiceStart -----------------------------
(***************************************************************************)
(* The start of the service (main.go, Monitor.Start) and the mutex of      *)
(* ServiceState, around which it turns: the cluster's API is served before *)
(* DetectPowerLoss runs, DetectPowerLoss holds the read lock while it asks *)
(* the router for its uptime, the handlers of the API take the lock to     *)
(* read or to write, and handleStatus takes the read lock twice.           *)
(*                                                                         *)
(* The mutex is Go's RWMutex: a writer that waits keeps new readers out,   *)
(* and when it unlocks, the readers that waited go first.  Times are ticks *)
(* of one clock, 0 when the service starts; what was before is negative.   *)
(***************************************************************************)
EXTENDS Integers, FiniteSets

CONSTANTS Start,     \* the goroutine in Monitor.Start
          Status,    \* requests to handleStatus
          Readers,   \* requests to handleHealth and handleLockStatus
          Lockers,   \* requests to handleLockAcquire and handleLockRelease
          Loops,     \* the goroutines Start launches: site loops, saver
          Grace,     \* PowerLossGracePeriodMinutes, in ticks
          Past,      \* bound: ticks before the start that are looked at
          Horizon,   \* bound: ticks after the start
          Never,     \* LastShutdownTime.IsZero
          Nobody     \* no writer

Writers == Lockers \cup Loops
Procs == {Start} \cup Status \cup Readers \cup Writers

ASSUME TimesAssumption == Grace \in Nat \ {0} /\ Past \in Nat /\ Horizon \in Nat /\ Never \notin Int
ASSUME ProcsAssumption ==
  /\ Nobody \notin Procs
  /\ Start \notin Status \cup Readers \cup Writers
  /\ Status \cap (Readers \cup Writers) = {} /\ Readers \cap Writers = {}
  /\ Lockers \cap Loops = {}

VARIABLES
  pc,        \* where each goroutine is
  writer,    \* who has called Lock and not yet unlocked, or Nobody
  clock,     \* the time
  lastSave,  \* LastShutdownTime, which every save sets
  boot,      \* when the router came up
  asks,      \* UptimeCheckEnabled, with a URL
  downtime,  \* timeSinceShutdown in DetectPowerLoss
  suspected  \* the verdict, and then PowerLossSuspected

time == <<clock, lastSave, boot, asks>>
vars == <<pc, writer, time, downtime, suspected>>

\* Goroutines at these places hold a read lock ...
Reading == {"read", "again", "nested", "reply", "fetch", "decided"}
\* ... and at these wait for the mutex.
Waiting == {"rlock", "again", "queue", "drain"}

Places == {"idle", "write", "delay", "running"} \cup Reading \cup Waiting

TypeOK ==
  /\ pc \in [Procs -> Places]
  /\ writer \in Writers \cup {Start, Nobody}
  /\ clock \in 0..Horizon
  /\ lastSave \in (-Past)..0 \cup {Never}
  /\ boot \in (-Past)..Horizon
  /\ asks \in BOOLEAN
  /\ downtime \in 0..(Past + Horizon)
  /\ suspected \in BOOLEAN

\* main has loaded the state and calls Start, which serves the API.
Init ==
  /\ pc = [p \in Procs |-> "idle"]
  /\ writer = Nobody
  /\ clock = 0
  /\ lastSave \in (-Past)..0 \cup {Never}
  /\ boot \in (-Past)..0
  /\ asks \in BOOLEAN
  /\ downtime = 0
  /\ suspected = FALSE

Goto(p, from, to) == pc[p] = from /\ pc' = [pc EXCEPT ![p] = to]

-----------------------------------------------------------------------------
(* sync.RWMutex                                                             *)

\* Faulty variant: readers overtake a writer that waits.
RLock_Overtake(p, from, to, wait) ==
  /\ Goto(p, from, IF \A q \in Procs : pc[q] # "write" THEN to ELSE wait)
  /\ UNCHANGED writer

RLock(p, from, to, wait) ==
  /\ Goto(p, from, IF writer = Nobody THEN to ELSE wait)
  /\ UNCHANGED writer

\* Writers come one after another, and announce themselves ...
Lock(p, from) ==
  /\ Goto(p, from, "queue")
  /\ UNCHANGED writer

Announce(p) ==
  /\ Goto(p, "queue", "drain") /\ writer = Nobody
  /\ writer' = p
  /\ UNCHANGED <<time, downtime, suspected>>

\* ... and wait for the readers there are.
Locked(p) ==
  /\ Goto(p, "drain", "write")
  /\ \A q \in Procs : pc[q] \notin Reading
  /\ UNCHANGED <<writer, time, downtime, suspected>>

\* Whoever waited to read is let in.
Unlock(p, to) ==
  /\ pc[p] = "write"
  /\ pc' = [q \in Procs |-> IF q = p THEN to ELSE IF pc[q] = "rlock" THEN "read" ELSE pc[q]]
  /\ writer' = Nobody

-----------------------------------------------------------------------------
(* The handlers and the loops                                               *)

\* GetRecentRestarts, called by handleStatus under the read lock.
NestedRead(s) ==
  /\ RLock(s, "read", "nested", "again")
  /\ UNCHANGED <<time, downtime, suspected>>

\* Faulty variant: a request that waits for its second read lock is dropped,
\* and the first one with it.
HandleStatus_Dropped(s) ==
  \/ RLock(s, "idle", "read", "rlock") /\ UNCHANGED <<time, downtime, suspected>>
  \/ NestedRead(s)
  \/ /\ Goto(s, "nested", "reply") \/ Goto(s, "reply", "idle") \/ Goto(s, "again", "idle")
     /\ UNCHANGED <<writer, time, downtime, suspected>>

HandleStatus(s) ==
  \/ RLock(s, "idle", "read", "rlock") /\ UNCHANGED <<time, downtime, suspected>>
  \/ NestedRead(s)
  \/ /\ Goto(s, "nested", "reply") \/ Goto(s, "reply", "idle")
     /\ UNCHANGED <<writer, time, downtime, suspected>>

\* handleHealth takes the read lock twice, but one time after the other.
HandleRead(r) ==
  \/ RLock(r, "idle", "read", "rlock") /\ UNCHANGED <<time, downtime, suspected>>
  \/ Goto(r, "read", "idle") /\ UNCHANGED <<writer, time, downtime, suspected>>

\* One Lock and Unlock: the lock handlers; UpdateSiteState and SaveState in
\* the loops, which do not exist before Start has launched them.
Write(w) ==
  \/ (w \in Loops => pc[Start] = "running") /\ Lock(w, "idle") /\ UNCHANGED <<time, downtime, suspected>>
  \/ Announce(w)
  \/ Locked(w)
  \/ Unlock(w, "idle") /\ UNCHANGED <<time, downtime, suspected>>

-----------------------------------------------------------------------------
(* DetectPowerLoss and what Start does with its verdict                     *)

\* The early returns: past the grace period, no save known, a short downtime.
NoPowerLoss ==
  /\ \/ clock > Grace
     \/ lastSave = Never
     \/ lastSave # Never /\ clock - lastSave < Grace
  /\ Goto(Start, "read", "decided")
  /\ UNCHANGED <<writer, time, downtime, suspected>>

\* Faulty variant: the operands of the subtraction are swapped.
AskUptime_Swapped ==
  /\ clock <= Grace /\ lastSave # Never
  /\ clock - lastSave >= Grace
  /\ Goto(Start, "read", "fetch")
  /\ downtime' = lastSave - clock
  /\ UNCHANGED <<writer, time, suspected>>

\* timeSinceShutdown is taken, then GetRouterUptime is called.
AskUptime ==
  /\ clock <= Grace /\ lastSave # Never
  /\ clock - lastSave >= Grace
  /\ Goto(Start, "read", "fetch")
  /\ downtime' = clock - lastSave
  /\ UNCHANGED <<writer, time, suspected>>

\* Faulty variant: an uptime equal to the downtime of the service, or longer.
PowerLoss_Swapped(up) == up >= downtime

\* The router has been up no longer than the service was down.
PowerLoss(up) == up <= downtime

\* The router's answer is its uptime when it is given; 0 counts as none.
UptimeKnown ==
  /\ asks /\ clock > boot
  /\ Goto(Start, "fetch", "decided")
  /\ suspected' = PowerLoss(clock - boot)
  /\ UNCHANGED <<writer, time, downtime>>

\* Faulty variant: the request to the router has no timeout.
UptimeUnknown_NoTimeout ==
  /\ ~asks
  /\ Goto(Start, "fetch", "decided")
  /\ UNCHANGED <<writer, time, downtime, suspected>>

\* Disabled, refused by the breaker, no answer before the timeout, or no
\* uptime in it.
UptimeUnknown ==
  /\ Goto(Start, "fetch", "decided")
  /\ UNCHANGED <<writer, time, downtime, suspected>>

\* The read lock is given back; a power loss is written into the state, and
\* Start sleeps before it launches the loops.
Launch ==
  /\ ~suspected
  /\ Goto(Start, "decided", "running")
  /\ UNCHANGED <<writer, time, downtime, suspected>>

MarkPowerLoss ==
  \/ suspected /\ Lock(Start, "decided") /\ UNCHANGED <<time, downtime, suspected>>
  \/ Announce(Start)
  \/ Locked(Start)
  \/ Unlock(Start, "delay") /\ UNCHANGED <<time, downtime, suspected>>
  \/ Goto(Start, "delay", "running") /\ UNCHANGED <<writer, time, downtime, suspected>>

StartUp ==
  \/ RLock(Start, "idle", "read", "rlock") /\ UNCHANGED <<time, downtime, suspected>>
  \/ NoPowerLoss \/ AskUptime \/ UptimeKnown \/ UptimeUnknown
  \/ Launch \/ MarkPowerLoss

-----------------------------------------------------------------------------
(* Time and the router                                                      *)

Tick ==
  /\ clock < Horizon /\ clock' = clock + 1
  /\ UNCHANGED <<pc, writer, lastSave, boot, asks, downtime, suspected>>

\* The power comes back, or somebody restarts the router.
RouterBoots ==
  /\ boot' = clock
  /\ UNCHANGED <<pc, writer, clock, lastSave, asks, downtime, suspected>>

-----------------------------------------------------------------------------
Next ==
  \/ StartUp
  \/ \E s \in Status : HandleStatus(s)
  \/ \E r \in Readers : HandleRead(r)
  \/ \E w \in Writers : Write(w)
  \/ Tick \/ RouterBoots

Spec == Init /\ [][Next]_vars

\* Every goroutine goes on when it can, and the fetch has a timeout; nobody
\* has to send a request.  Among the writers sync.Mutex starves none.
Fairness ==
  /\ WF_vars(StartUp)
  /\ \A s \in Status : WF_vars(pc[s] # "idle" /\ HandleStatus(s))
  /\ \A r \in Readers : WF_vars(pc[r] # "idle" /\ HandleRead(r))
  /\ \A w \in Writers : WF_vars(pc[w] # "idle" /\ Write(w))
  /\ \A w \in Writers \cup {Start} : SF_vars(Announce(w))
FairSpec == Spec /\ Fairness

-----------------------------------------------------------------------------
(* Properties.                                                              *)

\* handleStatus waits for its second read lock behind a writer that waits
\* for its first.
Wedged == \E s \in Status : pc[s] = "again"

\* What lets a goroutine go on: it has the state, or nobody is in its way.
CanGoOn(p) ==
  \/ pc[p] \in (Reading \ {"again"}) \cup {"write"}
  \/ pc[p] = "drain" /\ \A q \in Procs : pc[q] \notin Reading
  \/ pc[p] = "queue" /\ writer = Nobody

\* While anybody waits for the state somebody can go on, unless a status
\* request is wedged: no other order of reads, writes, nested reads and the
\* read lock that DetectPowerLoss keeps makes everyone wait on everyone
\* (state.go:136, monitor.go:71, cluster.go:390).
StuckOnlyIfWedged ==
  (\E p \in Procs : pc[p] \in Waiting) => Wedged \/ \E p \in Procs : CanGoOn(p)

\* Once a status request is wedged, whoever waits for the state waits where
\* it is for ever: nothing the other goroutines do resolves it, and only a
\* new process ends it (cluster.go:390, state.go:291).
WedgeIsFinal ==
  [][Wedged => \A p \in Procs : pc[p] \in Waiting => pc'[p] = pc[p]]_vars

\* Whoever waits for the state gets it, also behind DetectPowerLoss and its
\* call to the router, unless a status request is wedged: nothing else in
\* the service keeps the state for ever (state.go:136, cluster.go:390).
ServedUnlessWedged == \A p \in Procs : []<>(pc[p] \notin Waiting \/ Wedged)

\* The start itself comes to an end, unless a status request wedges it.
StartsUnlessWedged == <>(pc[Start] = "running" \/ Wedged)

\* README: the API's /status is the current status of the node, so that a
\* request for it is answered (cluster.go:377-390, state.go:291).
StatusServed == \A s \in Status : pc[s] = "read" ~> pc[s] = "idle"

\* A power loss is suspected only if the router came up after the last save
\* of the state, however long the uptime took to fetch (state.go:130-152).
NoFalseSuspicion == suspected => lastSave # Never /\ boot >= lastSave

=============================================================================
