-------------------------- MODULE RestartCoordinator --------------------------
(***************************************************************************)
(* The restart logic of monitor.go and state.go on one node: one goroutine *)
(* per primary site checks it, a failed check is verified under            *)
(* verificationMu, one handler at a time (handlerMu) takes a connectivity  *)
(* failure through grace period, backoff, limits, cluster lock, restart    *)
(* and verification, and a failed restart leaves a goroutine that sleeps   *)
(* and tries again.  The flags of RestartCoordinator and the counters of   *)
(* ServiceState are what these goroutines share.                           *)
(*                                                                         *)
(* Times are ages in ticks, each counted as far as the code compares it.   *)
(* A sleep whose length no other state is compared with (grace period,     *)
(* backoff, power-loss delay, the wait for the router) lasts any number of *)
(* ticks.  What a ping, a verification, the router and the cluster answer  *)
(* is chosen by the environment.                                           *)
(***************************************************************************)
EXTENDS Naturals, FiniteSets

CONSTANTS Sites,       \* the primary sites: one monitorSiteLoop each
          Retries,     \* bound: retry goroutines that may exist at once
          MaxRetries,  \* RestartMaxRetries
          Cooldown,    \* RestartCooldownMinutes, in ticks
          RetryDelay,  \* RestartRetryDelayMinutes, in ticks
          Dedup,       \* five minutes, in ticks
          Stale,       \* ten minutes, in ticks
          Free         \* a mutex nobody holds

Procs == Sites \cup Retries

ASSUME LimitsAssumption ==
  /\ MaxRetries \in Nat \ {0} /\ Cooldown \in Nat \ {0} /\ RetryDelay \in Nat \ {0}
  /\ Dedup \in Nat \ {0} /\ Stale \in Nat \ {0}
ASSUME ProcsAssumption == Sites \cap Retries = {} /\ Free \notin Procs

VARIABLES
  pc,              \* where each goroutine is; a retry that is "idle" does not exist
  verificationMu,  \* the site that holds it, or Free
  handlerMu,       \* the goroutine that holds it, or Free
  restartActive,   \* the restart-in-progress flag
  restartAge,      \* since restartStartedAt, up to Stale + 1
  retryScheduled,  \* the retry flag
  retryAge,        \* since retryScheduledAt, up to RetryDelay
  sigAge,          \* since lastHandledSignature; Dedup if nil or that old
  fails,           \* ConsecutiveRestartFails
  sinceAttempt,    \* since LastRestartAttempt; Cooldown if zero or that old
  recordAge,       \* since the Timestamp of the latest restart record
  left,            \* what a retry goroutine has left to sleep
  net              \* the internet: "up", "flaky" or "down"

coordinator == <<restartActive, restartAge, retryScheduled, retryAge, sigAge>>
counters == <<fails, sinceAttempt, recordAge>>
vars == <<pc, verificationMu, handlerMu, coordinator, counters, left, net>>

\* Places in handleConnectivityFailure under handlerMu, and those of them at
\* which restartActive is set.
Active == {"uptime", "command", "wait", "schedule", "deactivate"}
Handling == {"grace", "backoff", "check", "lock", "leave"} \cup Active

TypeOK ==
  /\ pc \in [Procs -> {"idle", "ping", "suspect", "verify", "sleep", "awake", "enter"} \cup Handling]
  /\ verificationMu \in Sites \cup {Free}
  /\ handlerMu \in Procs \cup {Free}
  /\ restartActive \in BOOLEAN /\ restartAge \in 0..(Stale + 1)
  /\ retryScheduled \in BOOLEAN /\ retryAge \in 0..RetryDelay
  /\ sigAge \in 0..Dedup
  /\ fails \in Nat
  /\ sinceAttempt \in 0..Cooldown /\ recordAge \in 0..Cooldown
  /\ left \in [Retries -> 0..RetryDelay]
  /\ net \in {"up", "flaky", "down"}

\* isRestartInProgress: a flag set more than ten minutes ago does not count.
InProgress == restartActive /\ restartAge <= Stale

\* CanAttemptRestart
CanAttemptRestart == fails < MaxRetries /\ sinceAttempt >= Cooldown

\* Any state file and a fresh coordinator.
Init ==
  /\ pc = [p \in Procs |-> "idle"]
  /\ verificationMu = Free /\ handlerMu = Free
  /\ restartActive = FALSE /\ restartAge = 0
  /\ retryScheduled = FALSE /\ retryAge = 0
  /\ sigAge = Dedup
  /\ fails \in 0..MaxRetries
  /\ sinceAttempt \in 0..Cooldown /\ recordAge = sinceAttempt
  /\ left = [r \in Retries |-> 0]
  /\ net \in {"up", "flaky", "down"}

Goto(p, from, to) == pc[p] = from /\ pc' = [pc EXCEPT ![p] = to]

\* What VerifyConnectivityWithDNS may report.
AllDown == net # "up"
SomeUp == net # "down"

-----------------------------------------------------------------------------
(* checkSite                                                                *)

StartCheck(s) ==
  /\ Goto(s, "idle", "ping") /\ ~InProgress
  /\ UNCHANGED <<verificationMu, handlerMu, coordinator, counters, left, net>>

PingUp(s) ==
  /\ Goto(s, "ping", "idle") /\ net # "down"
  /\ UNCHANGED <<verificationMu, handlerMu, coordinator, counters, left, net>>

PingDown(s) ==
  /\ net # "up"
  /\ Goto(s, "ping", IF InProgress THEN "idle" ELSE "suspect")
  /\ UNCHANGED <<verificationMu, handlerMu, coordinator, counters, left, net>>

\* verificationMu.TryLock, and the second look at the restart flag.
StartVerification(s) ==
  /\ IF verificationMu = Free /\ ~InProgress
       THEN Goto(s, "suspect", "verify") /\ verificationMu' = s
       ELSE Goto(s, "suspect", "idle") /\ UNCHANGED verificationMu
  /\ UNCHANGED <<handlerMu, coordinator, counters, left, net>>

\* Not all verification sites are down, or shouldHandleFailure finds that
\* this failure was taken up less than five minutes ago.
NoFailure(s) ==
  /\ SomeUp \/ (AllDown /\ sigAge < Dedup)
  /\ Goto(s, "verify", "idle")
  /\ verificationMu' = Free
  /\ UNCHANGED <<handlerMu, coordinator, counters, left, net>>

\* shouldHandleFailure stores the signature before the handler is entered;
\* checkSite keeps verificationMu until the handler returns.
Failure(s) ==
  /\ AllDown /\ sigAge >= Dedup
  /\ Goto(s, "verify", "enter")
  /\ sigAge' = 0
  /\ UNCHANGED <<verificationMu, handlerMu, restartActive, restartAge, retryScheduled,
                 retryAge, counters, left, net>>

-----------------------------------------------------------------------------
(* handleConnectivityFailure                                                *)

\* Faulty variant: verificationMu is not unlocked when the handler returns.
ReleaseVerification_Never(p) == UNCHANGED verificationMu /\ p \in Procs

ReleaseVerification(p) ==
  verificationMu' = IF p \in Sites THEN Free ELSE verificationMu

\* Faulty variant: the restart flag alone keeps handlers apart.
EnterHandler_FlagOnly(p) ==
  /\ IF ~InProgress
       THEN /\ Goto(p, "enter", "grace")
            /\ handlerMu' = p
            /\ UNCHANGED verificationMu
       ELSE /\ Goto(p, "enter", "idle")
            /\ ReleaseVerification(p)
            /\ UNCHANGED handlerMu
  /\ UNCHANGED <<coordinator, counters, left, net>>

\* handlerMu.TryLock, and the third look at the restart flag.
EnterHandler(p) ==
  /\ IF handlerMu = Free /\ ~InProgress
       THEN /\ Goto(p, "enter", "grace")
            /\ handlerMu' = p
            /\ UNCHANGED verificationMu
       ELSE /\ Goto(p, "enter", "idle")
            /\ ReleaseVerification(p)
            /\ UNCHANGED handlerMu
  /\ UNCHANGED <<coordinator, counters, left, net>>

\* Faulty variant: the early return forgets to unlock handlerMu.
Recovered_StillLocked(p) ==
  /\ SomeUp
  /\ Goto(p, "grace", "idle") \/ Goto(p, "backoff", "idle") \/ Goto(p, "uptime", "deactivate")
  /\ sigAge' = Dedup
  /\ retryScheduled' = FALSE
  /\ UNCHANGED <<verificationMu, handlerMu, restartActive, restartAge, retryAge,
                 counters, left, net>>

\* Connectivity is back after the grace period, the backoff or the delay
\* after a power loss: signature and retry flag are cleared.
Recovered(p) ==
  /\ SomeUp
  /\ Goto(p, "grace", "leave") \/ Goto(p, "backoff", "leave") \/ Goto(p, "uptime", "deactivate")
  /\ sigAge' = Dedup
  /\ retryScheduled' = FALSE
  /\ UNCHANGED <<verificationMu, handlerMu, restartActive, restartAge, retryAge,
                 counters, left, net>>

\* Still down after the grace period, which main makes at least a second:
\* calculateBackoffDelay asks for a further sleep when there were failures.
GraceOver(p) ==
  /\ AllDown
  /\ Goto(p, "grace", IF fails = 0 THEN "check" ELSE "backoff")
  /\ UNCHANGED <<verificationMu, handlerMu, coordinator, counters, left, net>>

BackoffOver(p) ==
  /\ AllDown
  /\ Goto(p, "backoff", "check")
  /\ UNCHANGED <<verificationMu, handlerMu, coordinator, counters, left, net>>

CheckLimits(p) ==
  /\ Goto(p, "check", IF CanAttemptRestart THEN "lock" ELSE "leave")
  /\ UNCHANGED <<verificationMu, handlerMu, coordinator, counters, left, net>>

\* TryAcquireLock fails
LockRefused(p) ==
  /\ Goto(p, "lock", "leave")
  /\ UNCHANGED <<verificationMu, handlerMu, coordinator, counters, left, net>>

\* TryAcquireLock succeeds, or there is no cluster; setRestartInProgress(true)
LockAcquired(p) ==
  /\ Goto(p, "lock", "uptime")
  /\ restartActive' = TRUE /\ restartAge' = 0
  /\ UNCHANGED <<verificationMu, handlerMu, retryScheduled, retryAge, sigAge,
                 counters, left, net>>

-----------------------------------------------------------------------------
(* performRestart                                                           *)

\* After the uptime check, if any: the record gets its Timestamp and
\* RestartRouter begins.
PerformRestart(p) ==
  /\ Goto(p, "uptime", "command")
  /\ recordAge' = 0
  /\ UNCHANGED <<verificationMu, handlerMu, coordinator, fails, sinceAttempt, left, net>>

\* Faulty variants: a success leaves the failures before it counted; a failed
\* attempt leaves LastRestartAttempt alone.
RecordRestartAttempt_NoReset(success) ==
  /\ sinceAttempt' = recordAge
  /\ fails' = IF success THEN fails ELSE fails + 1
  /\ UNCHANGED recordAge

RecordRestartAttempt_SuccessOnly(success) ==
  /\ sinceAttempt' = IF success THEN recordAge ELSE sinceAttempt
  /\ fails' = IF success THEN 0 ELSE fails + 1
  /\ UNCHANGED recordAge

\* RecordRestartAttempt: LastRestartAttempt becomes the record's Timestamp.
RecordRestartAttempt(success) ==
  /\ sinceAttempt' = recordAge
  /\ fails' = IF success THEN 0 ELSE fails + 1
  /\ UNCHANGED recordAge

CommandFailed(p) ==
  /\ Goto(p, "command", "schedule")
  /\ RecordRestartAttempt(FALSE)
  /\ UNCHANGED <<verificationMu, handlerMu, coordinator, left, net>>

CommandSent(p) ==
  /\ Goto(p, "command", "wait")
  /\ UNCHANGED <<verificationMu, handlerMu, coordinator, counters, left, net>>

\* VerifyRestartSuccess: resetBackoff and clearDowntimeSignature
RestartVerified(p) ==
  /\ SomeUp
  /\ Goto(p, "wait", "deactivate")
  /\ RecordRestartAttempt(TRUE)
  /\ sigAge' = Dedup
  /\ retryScheduled' = FALSE
  /\ UNCHANGED <<verificationMu, handlerMu, restartActive, restartAge, retryAge, left, net>>

\* The command was accepted, connectivity did not return: the attempt is
\* recorded as a success all the same.
RestartUnverified(p) ==
  /\ AllDown
  /\ Goto(p, "wait", "schedule")
  /\ RecordRestartAttempt(TRUE)
  /\ UNCHANGED <<verificationMu, handlerMu, coordinator, left, net>>

\* scheduleRetryIfNeeded at its limit, or with a retry already scheduled
NoRetry(p) ==
  /\ fails >= MaxRetries \/ (retryScheduled /\ retryAge < RetryDelay)
  /\ Goto(p, "schedule", "deactivate")
  /\ UNCHANGED <<verificationMu, handlerMu, coordinator, counters, left, net>>

\* scheduleRetryIfNeeded raises the flag and starts the goroutine.
ScheduleRetry(p, r) ==
  /\ fails < MaxRetries /\ ~(retryScheduled /\ retryAge < RetryDelay)
  /\ pc[p] = "schedule" /\ pc[r] = "idle"
  /\ pc' = [pc EXCEPT ![p] = "deactivate", ![r] = "sleep"]
  /\ retryScheduled' = TRUE /\ retryAge' = 0
  /\ left' = [left EXCEPT ![r] = RetryDelay]
  /\ UNCHANGED <<verificationMu, handlerMu, restartActive, restartAge, sigAge, counters, net>>

\* The first deferred call; ReleaseLock follows it.
Deactivate(p) ==
  /\ Goto(p, "deactivate", "leave")
  /\ restartActive' = FALSE
  /\ UNCHANGED <<verificationMu, handlerMu, restartAge, retryScheduled, retryAge, sigAge,
                 counters, left, net>>

\* The handler returns: handlerMu, and a site's verificationMu, are unlocked.
LeaveHandler(p) ==
  /\ Goto(p, "leave", "idle")
  /\ handlerMu' = Free
  /\ ReleaseVerification(p)
  /\ UNCHANGED <<coordinator, counters, left, net>>

-----------------------------------------------------------------------------
(* The retry goroutine, time and the internet.                              *)

\* Faulty variant: the goroutine leaves the retry flag up.
WakeUp_FlagKept(r) ==
  /\ Goto(r, "sleep", "awake") /\ left[r] = 0
  /\ UNCHANGED <<verificationMu, handlerMu, coordinator, counters, left, net>>

WakeUp(r) ==
  /\ Goto(r, "sleep", "awake") /\ left[r] = 0
  /\ retryScheduled' = FALSE
  /\ UNCHANGED <<verificationMu, handlerMu, restartActive, restartAge, retryAge, sigAge,
                 counters, left, net>>

RetryFailure(r) ==
  /\ AllDown
  /\ Goto(r, "awake", "enter")
  /\ UNCHANGED <<verificationMu, handlerMu, coordinator, counters, left, net>>

RetryCancelled(r) ==
  /\ SomeUp
  /\ Goto(r, "awake", "idle")
  /\ fails' = 0
  /\ UNCHANGED <<verificationMu, handlerMu, coordinator, sinceAttempt, recordAge, left, net>>

\* Faulty variant: an age counted past what it is compared with.
Older_Uncapped(age, cap) == IF age <= cap THEN age + 1 ELSE cap

\* One tick more, as far as the code looks.
Older(age, cap) == IF age < cap THEN age + 1 ELSE cap

Tick ==
  /\ restartAge' = Older(restartAge, Stale + 1)
  /\ retryAge' = Older(retryAge, RetryDelay)
  /\ sigAge' = Older(sigAge, Dedup)
  /\ sinceAttempt' = Older(sinceAttempt, Cooldown)
  /\ recordAge' = Older(recordAge, Cooldown)
  /\ left' = [r \in Retries |-> IF left[r] > 0 THEN left[r] - 1 ELSE 0]
  /\ UNCHANGED <<pc, verificationMu, handlerMu, restartActive, retryScheduled, fails, net>>

Internet ==
  /\ net' \in {"up", "flaky", "down"} \ {net}
  /\ UNCHANGED <<pc, verificationMu, handlerMu, coordinator, counters, left>>

-----------------------------------------------------------------------------
SiteStep(s) ==
  StartCheck(s) \/ PingUp(s) \/ PingDown(s) \/ StartVerification(s) \/ NoFailure(s) \/ Failure(s)

RetryStep(r) == WakeUp(r) \/ RetryFailure(r) \/ RetryCancelled(r)

\* handleConnectivityFailure, from its call to its return.
HandlerStep(p) ==
  /\ pc[p] \in {"enter"} \cup Handling
  /\ \/ EnterHandler(p) \/ Recovered(p) \/ GraceOver(p) \/ BackoffOver(p) \/ CheckLimits(p)
     \/ LockRefused(p) \/ LockAcquired(p)
     \/ PerformRestart(p) \/ CommandFailed(p) \/ CommandSent(p)
     \/ RestartVerified(p) \/ RestartUnverified(p)
     \/ NoRetry(p) \/ (\E r \in Retries : ScheduleRetry(p, r))
     \/ Deactivate(p) \/ LeaveHandler(p)

Next ==
  \/ \E s \in Sites : SiteStep(s)
  \/ \E r \in Retries : RetryStep(r)
  \/ \E p \in Procs : HandlerStep(p)
  \/ Tick
  \/ Internet

Spec == Init /\ [][Next]_vars

\* Site tickers fire, goroutines that can go on do, sleeps end, and the calls
\* of a handler return: each HTTP request to the router has a timeout.  (Not so
\* of a router restarted over SSH, whose handshake and session have none.)  The
\* internet owes nothing.
Fairness ==
  /\ WF_vars(Tick)
  /\ \A s \in Sites : WF_vars(SiteStep(s))
  /\ \A r \in Retries : WF_vars(RetryStep(r))
  /\ \A p \in Procs : WF_vars(HandlerStep(p))
FairSpec == Spec /\ Fairness

-----------------------------------------------------------------------------
(* Properties.                                                              *)

\* A mutex is taken exactly while its goroutine is at a place that will give it
\* back: no way out of verification or of the handler, and none of the refusals
\* on the way in, keeps or drops one (monitor.go:257-296, 321-331).
MutexesInUse ==
  /\ \A s \in Sites : verificationMu = s <=> pc[s] \in {"verify", "enter"} \cup Handling
  /\ \A p \in Procs : handlerMu = p <=> pc[p] \in Handling

\* Whoever is in the handler holds handlerMu, the restart flag is up exactly
\* while its holder is restarting, and so no second restart can begin, not
\* even when the flag has gone stale after ten minutes and checks, dedup and
\* the retry goroutines let a new failure through (monitor.go:296, 710).
OneRestart ==
  /\ MutexesInUse
  /\ restartActive <=> \E p \in Procs : pc[p] \in Active

\* A restart never begins within the cooldown of the previous one, whichever
\* goroutine made it and however it ended: the limits are checked well before
\* the attempt is recorded, and recorded long after its time (monitor.go:349,
\* 414, 435, 471).
CooldownRespected ==
  [][\A p \in Procs : PerformRestart(p) => recordAge >= Cooldown]_vars

\* No more than MaxRetries restart commands fail in a row without a success
\* or a recovery seen by a retry, although the counter is read and written in
\* different critical sections by handlers and retries.
RetryLimit == fails <= MaxRetries

\* A raised retry flag means a goroutine that will wake when the flag says:
\* scheduling is never refused for a retry that will not come, whichever
\* goroutines cleared and raised the flag in between (monitor.go:510-518).
FlagBacked ==
  retryScheduled => \E r \in Retries : pc[r] = "sleep" /\ left[r] = RetryDelay - retryAge

\* A restart that may still schedule a retry finds at most one asleep that was
\* scheduled within the cooldown: though nothing can cancel a retry, and any
\* recovery clears the flag that would refuse the next, the goroutines that
\* sleep are no more than two for each cooldown (monitor.go:482, 529).
Asleep(r) == pc[r] = "sleep" /\ left[r] > 0
RetriesSpaced ==
  \A p \in Procs : pc[p] \in {"command", "wait", "schedule"} =>
    \A r, q \in Retries :
      r # q /\ Asleep(r) /\ Asleep(q)
        => RetryDelay - left[r] >= Cooldown \/ RetryDelay - left[q] >= Cooldown

\* In an outage that lasts the handler asks for the cluster lock again and
\* again, unless the failed commands have used up the retries: no signature,
\* flag, cooldown or mutex stays in the way for ever.
OutageHandled ==
  <>[](net = "down") => \/ []<>(\E p \in Procs : pc[p] = "lock")
                        \/ <>[](fails = MaxRetries)

\* handlerMu is always given back.
HandlerReturns == []<>(handlerMu = Free)

\* README, restart logic: the retry limit prevents infinite restart loops.
RestartLoopEnds ==
  <>[](net = "down") => <>[](\A p \in Procs : pc[p] # "command")

\* The goroutines, with all their flags and mutexes, restart the router as one
\* sequential policy would.
Policy == INSTANCE RestartPolicy
  WITH busy <- \E p \in Procs : pc[p] \in {"command", "wait"}, age <- recordAge
ImplementsPolicy == Policy!Spec
=============================================================================
