----------------------- MODULE RestartCoordinatorProofs -----------------------
(***************************************************************************)
(* Proofs, for any sites, retry goroutines, limits and delays, of the      *)
(* safety properties of RestartCoordinator.  The retry limit, the cooldown *)
(* and the distance between retries depend on what CheckLimits saw still   *)
(* being true when the command is sent and recorded, which holds because   *)
(* everything between happens under handlerMu.                             *)
(***************************************************************************)
EXTENDS RestartCoordinator, TLAPS

\* The parts of OneRestart, which different steps disturb.
HandlerMuInUse == \A p \in Procs : handlerMu = p <=> pc[p] \in Handling
VerificationMuInUse ==
  \A s \in Sites : verificationMu = s <=> pc[s] \in {"verify", "enter"} \cup Handling

FlagInUse == restartActive <=> \E p \in Procs : pc[p] \in Active

\* The verdict of CanAttemptRestart stays true until the attempt is recorded:
\* no failure is added and no restart begun by anybody else.
LimitsStand ==
  \A p \in Procs :
    /\ pc[p] \in {"lock", "uptime", "command"} => fails < MaxRetries
    /\ pc[p] \in {"lock", "uptime"} => recordAge >= Cooldown

\* Between attempts LastRestartAttempt is the time of the latest one.
AttemptRecorded ==
  (\A p \in Procs : pc[p] \notin {"command", "wait"}) => sinceAttempt = recordAge

\* A restart that has begun and not yet given up its right to a retry.
Pending == \E p \in Procs : pc[p] \in {"command", "wait", "schedule"}

\* One restart schedules one retry: what sleeps at a pending restart was
\* scheduled before it began, and between restarts all but one were scheduled
\* before the latest began.
OneRetryEach ==
  /\ Pending => \A r \in Retries : Asleep(r) => RetryDelay - left[r] >= recordAge
  /\ ~Pending => \A r, q \in Retries :
                   r # q /\ Asleep(r) /\ Asleep(q)
                     => RetryDelay - left[r] >= recordAge \/ RetryDelay - left[q] >= recordAge

\* Of three that sleep two were scheduled a cooldown apart.
RetriesSpread ==
  \A a, b, c \in Retries :
    a # b /\ b # c /\ a # c /\ Asleep(a) /\ Asleep(b) /\ Asleep(c)
      => \E r, q \in {a, b, c} : left[r] >= left[q] + Cooldown

Inv ==
  /\ TypeOK
  /\ HandlerMuInUse /\ VerificationMuInUse /\ FlagInUse
  /\ RetryLimit /\ LimitsStand
  /\ AttemptRecorded
  /\ FlagBacked
  /\ OneRetryEach /\ RetriesSpaced /\ RetriesSpread

-----------------------------------------------------------------------------
LEMMA InitInv == Init => Inv
<1> SUFFICES ASSUME Init PROVE Inv
  OBVIOUS
<1> USE LimitsAssumption, ProcsAssumption DEF Init
<1>1. TypeOK
  <2>1. pc \in [Procs -> {"idle"}] /\ left \in [Retries -> {0}]
    OBVIOUS
  <2>2. /\ restartAge \in 0..(Stale + 1) /\ retryAge \in 0..RetryDelay /\ sigAge \in 0..Dedup
        /\ fails \in Nat /\ 0 \in 0..RetryDelay
    OBVIOUS
  <2> QED
    BY <2>1, <2>2 DEF TypeOK
<1>2. HandlerMuInUse /\ VerificationMuInUse /\ FlagInUse
  BY DEF HandlerMuInUse, VerificationMuInUse, FlagInUse, Handling, Active, Procs
<1>3. RetryLimit /\ LimitsStand /\ AttemptRecorded /\ FlagBacked
  BY DEF RetryLimit, LimitsStand, AttemptRecorded, FlagBacked
<1>4. OneRetryEach /\ RetriesSpaced /\ RetriesSpread
  BY DEF OneRetryEach, RetriesSpaced, RetriesSpread, Asleep, Procs
<1> QED
  BY <1>1, <1>2, <1>3, <1>4 DEF Inv

LEMMA AgeStep ==
  ASSUME NEW cap \in Nat, NEW age \in 0..cap
  PROVE  /\ Older(age, cap) \in 0..cap
         /\ age = cap => Older(age, cap) = cap
BY DEF Older

\* A goroutine that goes on arrives at a place of the program.
LEMMA GotoType ==
  ASSUME TypeOK, NEW p \in Procs, NEW from, NEW to,
         to \in {"idle", "ping", "suspect", "verify", "sleep", "awake", "enter"} \cup Handling,
         Goto(p, from, to)
  PROVE  pc' \in [Procs -> {"idle", "ping", "suspect", "verify", "sleep", "awake", "enter"} \cup Handling]
BY DEF TypeOK, Goto

LEMMA TypeStep == TypeOK /\ [Next]_vars => TypeOK'
<1> SUFFICES ASSUME TypeOK, [Next]_vars PROVE TypeOK'
  OBVIOUS
<1> DEFINE PC == pc' \in [Procs -> {"idle", "ping", "suspect", "verify", "sleep", "awake", "enter"} \cup Handling]
           Rest == /\ verificationMu' \in Sites \cup {Free}
                   /\ handlerMu' \in Procs \cup {Free}
                   /\ restartActive' \in BOOLEAN /\ restartAge' \in 0..(Stale + 1)
                   /\ retryScheduled' \in BOOLEAN /\ retryAge' \in 0..RetryDelay
                   /\ sigAge' \in 0..Dedup
                   /\ fails' \in Nat
                   /\ sinceAttempt' \in 0..Cooldown /\ recordAge' \in 0..Cooldown
                   /\ left' \in [Retries -> 0..RetryDelay]
                   /\ net' \in {"up", "flaky", "down"}
<1> SUFFICES PC /\ Rest
  BY DEF TypeOK
<1> USE LimitsAssumption
<1>1. ASSUME NEW s \in Sites, SiteStep(s) PROVE PC /\ Rest
  <2>0. s \in Procs
    BY DEF Procs
  <2>1. PC
    BY <1>1, <2>0, GotoType DEF SiteStep, StartCheck, PingUp, PingDown, StartVerification,
       NoFailure, Failure
  <2>2. Rest
    BY <1>1 DEF SiteStep, StartCheck, PingUp, PingDown, StartVerification, NoFailure, Failure,
       TypeOK, coordinator, counters
  <2> QED
    BY <2>1, <2>2
<1>2. ASSUME NEW r \in Retries, RetryStep(r) PROVE PC /\ Rest
  <2>0. r \in Procs
    BY DEF Procs
  <2>1. PC
    BY <1>2, <2>0, GotoType DEF RetryStep, WakeUp, RetryFailure, RetryCancelled
  <2>2. CASE WakeUp(r)
    BY <2>1, <2>2 DEF WakeUp, TypeOK, counters
  <2>3. CASE RetryFailure(r)
    BY <2>1, <2>3 DEF RetryFailure, TypeOK, coordinator, counters
  <2>4. CASE RetryCancelled(r)
    BY <2>1, <2>4 DEF RetryCancelled, TypeOK, coordinator
  <2> QED
    BY <1>2, <2>2, <2>3, <2>4 DEF RetryStep
<1>3. ASSUME NEW p \in Procs, HandlerStep(p) PROVE PC /\ Rest
  <2> USE DEF Handling, Active
  <2>1. CASE EnterHandler(p)
    BY <2>1, GotoType DEF EnterHandler, ReleaseVerification, TypeOK, coordinator, counters
  <2>2. CASE LeaveHandler(p)
    BY <2>2, GotoType DEF LeaveHandler, ReleaseVerification, TypeOK, coordinator, counters
  <2>3. CASE Recovered(p)
    <3>1. PC
      BY <2>3, GotoType DEF Recovered
    <3>2. sigAge' \in 0..Dedup
      BY <2>3 DEF Recovered
    <3>3. retryScheduled' \in BOOLEAN
      BY <2>3, Zenon DEF Recovered
    <3> QED
      BY <2>3, <3>1, <3>2, <3>3 DEF Recovered, TypeOK, counters
  <2>4. CASE GraceOver(p)
    BY <2>4, GotoType DEF GraceOver, TypeOK, coordinator, counters
  <2>5. CASE BackoffOver(p)
    BY <2>5, GotoType DEF BackoffOver, TypeOK, coordinator, counters
  <2>6. CASE CheckLimits(p)
    BY <2>6, GotoType DEF CheckLimits, TypeOK, coordinator, counters
  <2>7. CASE LockRefused(p)
    BY <2>7, GotoType DEF LockRefused, TypeOK, coordinator, counters
  <2>8. CASE LockAcquired(p)
    BY <2>8, GotoType DEF LockAcquired, TypeOK, counters
  <2>9. CASE PerformRestart(p)
    BY <2>9, GotoType DEF PerformRestart, TypeOK, coordinator
  <2>10. CASE CommandSent(p)
    BY <2>10, GotoType DEF CommandSent, TypeOK, coordinator, counters
  <2>11. CASE Deactivate(p)
    BY <2>11, GotoType DEF Deactivate, TypeOK, counters
  <2>12. CASE CommandFailed(p)
    BY <2>12, GotoType DEF CommandFailed, RecordRestartAttempt, TypeOK, coordinator
  <2>13. CASE RestartUnverified(p)
    BY <2>13, GotoType DEF RestartUnverified, RecordRestartAttempt, TypeOK, coordinator
  <2>14. CASE RestartVerified(p)
    <3>1. PC
      BY <2>14, GotoType DEF RestartVerified
    <3>2. sigAge' \in 0..Dedup
      BY <2>14 DEF RestartVerified
    <3>3. retryScheduled' \in BOOLEAN
      BY <2>14, Zenon DEF RestartVerified
    <3> QED
      BY <2>14, <3>1, <3>2, <3>3 DEF RestartVerified, RecordRestartAttempt, TypeOK
  <2>15. CASE NoRetry(p)
    BY <2>15, GotoType DEF NoRetry, TypeOK, coordinator, counters
  <2>16. ASSUME NEW r \in Retries, ScheduleRetry(p, r) PROVE PC /\ Rest
    BY <2>16 DEF ScheduleRetry, TypeOK, counters, Procs
  <2> QED
    BY <1>3, <2>1, <2>2, <2>3, <2>4, <2>5, <2>6, <2>7, <2>8, <2>9, <2>10, <2>11, <2>12, <2>13, <2>14, <2>15, <2>16
    DEF HandlerStep
<1>4. CASE Tick
  <2>1. /\ restartAge' \in 0..(Stale + 1)
        /\ retryAge' \in 0..RetryDelay
        /\ sigAge' \in 0..Dedup
        /\ sinceAttempt' \in 0..Cooldown
        /\ recordAge' \in 0..Cooldown
    BY <1>4, AgeStep DEF Tick, TypeOK
  <2>2. left' \in [Retries -> 0..RetryDelay]
    BY <1>4 DEF Tick, TypeOK
  <2> QED
    BY <1>4, <2>1, <2>2 DEF Tick, TypeOK
<1>5. CASE Internet
  BY <1>5 DEF Internet, TypeOK, coordinator, counters
<1>6. CASE UNCHANGED vars
  BY <1>6 DEF vars, TypeOK, coordinator, counters
<1> QED
  BY <1>1, <1>2, <1>3, <1>4, <1>5, <1>6 DEF Next

-----------------------------------------------------------------------------
(* Everything between LockAcquired and Deactivate happens to the holder of  *)
(* handlerMu.                                                               *)

\* handlerMu and the restart flag follow the program, and nobody else moves them.
LEMMA MutexStep == TypeOK /\ HandlerMuInUse /\ FlagInUse /\ [Next]_vars => HandlerMuInUse' /\ FlagInUse'
<1> SUFFICES ASSUME TypeOK, HandlerMuInUse, FlagInUse, [Next]_vars
             PROVE  HandlerMuInUse' /\ FlagInUse'
  OBVIOUS
<1> DEFINE Goal == HandlerMuInUse' /\ FlagInUse'
<1> USE ProcsAssumption DEF TypeOK, HandlerMuInUse, FlagInUse, Goto, Handling, Active
<1>1. ASSUME NEW s \in Sites, SiteStep(s) PROVE Goal
  BY <1>1 DEF SiteStep, StartCheck, PingUp, PingDown, StartVerification, NoFailure, Failure,
     coordinator, Procs
<1>2. ASSUME NEW r \in Retries, RetryStep(r) PROVE Goal
  BY <1>2 DEF RetryStep, WakeUp, RetryFailure, RetryCancelled, coordinator, Procs
<1>3. ASSUME NEW p \in Procs, HandlerStep(p) PROVE Goal
  <2>1. CASE EnterHandler(p)
    BY <2>1 DEF EnterHandler, coordinator
  <2>2. CASE LeaveHandler(p)
    BY <2>2 DEF LeaveHandler, coordinator
  <2>3. CASE Recovered(p)
    BY <2>3 DEF Recovered
  <2>4. CASE GraceOver(p) \/ BackoffOver(p) \/ CheckLimits(p) \/ LockRefused(p)
    BY <2>4 DEF GraceOver, BackoffOver, CheckLimits, LockRefused, coordinator
  <2>5. CASE LockAcquired(p)
    BY <2>5 DEF LockAcquired
  <2>6. CASE PerformRestart(p) \/ CommandFailed(p) \/ CommandSent(p)
    BY <2>6 DEF PerformRestart, CommandFailed, CommandSent, coordinator
  <2>7. CASE RestartVerified(p) \/ RestartUnverified(p) \/ NoRetry(p)
    BY <2>7 DEF RestartVerified, RestartUnverified, NoRetry, coordinator
  <2>8. ASSUME NEW r \in Retries, ScheduleRetry(p, r) PROVE Goal
    BY <2>8 DEF ScheduleRetry, Procs
  <2>9. CASE Deactivate(p)
    BY <2>9 DEF Deactivate
  <2> QED
    BY <1>3, <2>1, <2>2, <2>3, <2>4, <2>5, <2>6, <2>7, <2>8, <2>9 DEF HandlerStep
<1>4. CASE Tick \/ Internet \/ UNCHANGED vars
  BY <1>4 DEF Tick, Internet, vars, coordinator
<1> QED
  BY <1>1, <1>2, <1>3, <1>4 DEF Next

\* verificationMu follows its site from the look at the flag to the return of
\* the handler, and is nobody else's to unlock.
LEMMA VerificationStep == TypeOK /\ VerificationMuInUse /\ [Next]_vars => VerificationMuInUse'
<1> SUFFICES ASSUME TypeOK, VerificationMuInUse, [Next]_vars PROVE VerificationMuInUse'
  OBVIOUS
<1> USE ProcsAssumption DEF TypeOK, VerificationMuInUse, Goto, Procs, Handling, Active
<1>1. ASSUME NEW s \in Sites, SiteStep(s) PROVE VerificationMuInUse'
  <2>1. CASE StartCheck(s) \/ PingUp(s) \/ PingDown(s) \/ Failure(s)
    BY <2>1 DEF StartCheck, PingUp, PingDown, Failure
  <2>2. CASE StartVerification(s)
    BY <2>2 DEF StartVerification
  <2>3. CASE NoFailure(s)
    BY <2>3 DEF NoFailure
  <2> QED
    BY <1>1, <2>1, <2>2, <2>3 DEF SiteStep
<1>2. ASSUME NEW r \in Retries, RetryStep(r) PROVE VerificationMuInUse'
  BY <1>2 DEF RetryStep, WakeUp, RetryFailure, RetryCancelled
<1>3. ASSUME NEW p \in Procs, HandlerStep(p) PROVE VerificationMuInUse'
  <2>1. CASE EnterHandler(p)
    <3>1. CASE handlerMu = Free /\ ~InProgress
      BY <2>1, <3>1 DEF EnterHandler
    <3>2. CASE ~(handlerMu = Free /\ ~InProgress)
      BY <2>1, <3>2 DEF EnterHandler, ReleaseVerification
    <3> QED
      BY <3>1, <3>2
  <2>2. CASE LeaveHandler(p)
    BY <2>2 DEF LeaveHandler, ReleaseVerification
  <2>3. CASE Recovered(p)
    BY <2>3 DEF Recovered
  <2>4. CASE GraceOver(p) \/ BackoffOver(p)
    BY <2>4 DEF GraceOver, BackoffOver
  <2>5. CASE CheckLimits(p) \/ LockRefused(p)
    BY <2>5 DEF CheckLimits, LockRefused
  <2>6. CASE LockAcquired(p) \/ PerformRestart(p)
    BY <2>6 DEF LockAcquired, PerformRestart
  <2>7. CASE CommandFailed(p) \/ CommandSent(p)
    BY <2>7 DEF CommandFailed, CommandSent
  <2>8. CASE RestartVerified(p) \/ RestartUnverified(p)
    BY <2>8 DEF RestartVerified, RestartUnverified
  <2>9. ASSUME NEW r \in Retries, ScheduleRetry(p, r) PROVE VerificationMuInUse'
    BY <2>9 DEF ScheduleRetry
  <2>10. CASE NoRetry(p) \/ Deactivate(p)
    BY <2>10 DEF NoRetry, Deactivate
  <2> QED
    BY <1>3, <2>1, <2>2, <2>3, <2>4, <2>5, <2>6, <2>7, <2>8, <2>9, <2>10 DEF HandlerStep
<1>4. CASE Tick \/ Internet \/ UNCHANGED vars
  BY <1>4 DEF Tick, Internet, vars
<1> QED
  BY <1>1, <1>2, <1>3, <1>4 DEF Next

\* Whoever is past CheckLimits is alone there, so nobody else adds a failure
\* or begins a restart before the attempt is recorded.
LEMMA LimitsStep ==
  TypeOK /\ HandlerMuInUse /\ RetryLimit /\ LimitsStand /\ AttemptRecorded /\ [Next]_vars
    => RetryLimit' /\ LimitsStand' /\ AttemptRecorded'
<1> SUFFICES ASSUME TypeOK, HandlerMuInUse, RetryLimit, LimitsStand, AttemptRecorded, [Next]_vars
             PROVE  RetryLimit' /\ LimitsStand' /\ AttemptRecorded'
  OBVIOUS
<1> DEFINE Goal == RetryLimit' /\ LimitsStand' /\ AttemptRecorded'
<1> USE LimitsAssumption, ProcsAssumption
    DEF TypeOK, RetryLimit, LimitsStand, AttemptRecorded, Goto
<1>0. \A p, q \in Procs : pc[p] \in Handling /\ pc[q] \in Handling => p = q
  BY DEF HandlerMuInUse
<1>1. ASSUME NEW s \in Sites, SiteStep(s) PROVE Goal
  BY <1>1 DEF SiteStep, StartCheck, PingUp, PingDown, StartVerification, NoFailure, Failure,
     counters, Procs
<1>2. ASSUME NEW r \in Retries, RetryStep(r) PROVE Goal
  <2>1. CASE WakeUp(r) \/ RetryFailure(r)
    BY <2>1 DEF WakeUp, RetryFailure, counters, Procs
  <2>2. CASE RetryCancelled(r)
    BY <2>2 DEF RetryCancelled, Procs
  <2> QED
    BY <1>2, <2>1, <2>2 DEF RetryStep
<1>3. ASSUME NEW p \in Procs, HandlerStep(p) PROVE Goal
  <2> USE <1>0 DEF Handling, Active
  <2>1. CASE EnterHandler(p) \/ LeaveHandler(p) \/ Deactivate(p)
    BY <2>1 DEF EnterHandler, LeaveHandler, Deactivate, counters
  <2>2. CASE Recovered(p)
    BY <2>2 DEF Recovered, counters
  <2>3. CASE GraceOver(p) \/ BackoffOver(p) \/ LockRefused(p) \/ NoRetry(p)
    BY <2>3 DEF GraceOver, BackoffOver, LockRefused, NoRetry, counters
  <2>4. CASE CheckLimits(p)
    BY <2>4 DEF CheckLimits, CanAttemptRestart, counters
  <2>5. CASE LockAcquired(p)
    BY <2>5 DEF LockAcquired, counters
  <2>6. CASE PerformRestart(p)
    BY <2>6 DEF PerformRestart
  <2>7. CASE CommandSent(p)
    BY <2>7 DEF CommandSent, counters
  <2>8. CASE CommandFailed(p)
    BY <2>8 DEF CommandFailed, RecordRestartAttempt
  <2>9. CASE RestartVerified(p) \/ RestartUnverified(p)
    BY <2>9 DEF RestartVerified, RestartUnverified, RecordRestartAttempt
  <2>10. ASSUME NEW r \in Retries, ScheduleRetry(p, r) PROVE Goal
    BY <2>10 DEF ScheduleRetry, counters, Procs
  <2> QED
    BY <1>3, <2>1, <2>2, <2>3, <2>4, <2>5, <2>6, <2>7, <2>8, <2>9, <2>10 DEF HandlerStep
<1>4. CASE Tick
  <2>1. /\ sinceAttempt = Cooldown => sinceAttempt' = Cooldown
        /\ recordAge = Cooldown => recordAge' = Cooldown
        /\ sinceAttempt = recordAge => sinceAttempt' = recordAge'
    BY <1>4 DEF Tick, Older
  <2>2. pc' = pc /\ fails' = fails
    BY <1>4 DEF Tick
  <2>3. recordAge >= Cooldown => recordAge' >= Cooldown
    BY <2>1
  <2> QED
    BY <2>1, <2>2, <2>3
<1>5. CASE Internet \/ UNCHANGED vars
  BY <1>5 DEF Internet, vars, counters
<1> QED
  BY <1>1, <1>2, <1>3, <1>4, <1>5 DEF Next

\* The goroutine behind the flag is the one that raised it last.
LEMMA FlagStep == TypeOK /\ FlagBacked /\ [Next]_vars => FlagBacked'
<1> SUFFICES ASSUME TypeOK, FlagBacked, [Next]_vars PROVE FlagBacked'
  OBVIOUS
<1> USE LimitsAssumption, ProcsAssumption DEF FlagBacked, TypeOK, Goto, Procs
<1>1. ASSUME NEW s \in Sites, SiteStep(s) PROVE FlagBacked'
  BY <1>1 DEF SiteStep, StartCheck, PingUp, PingDown, StartVerification, NoFailure, Failure,
     coordinator
<1>2. ASSUME NEW r \in Retries, RetryStep(r) PROVE FlagBacked'
  BY <1>2 DEF RetryStep, WakeUp, RetryFailure, RetryCancelled, coordinator
<1>3. ASSUME NEW p \in Procs, HandlerStep(p) PROVE FlagBacked'
  <2>1. CASE EnterHandler(p) \/ LeaveHandler(p) \/ Deactivate(p)
    BY <2>1 DEF EnterHandler, LeaveHandler, Deactivate, coordinator
  <2>2. CASE Recovered(p) \/ RestartVerified(p)
    BY <2>2 DEF Recovered, RestartVerified
  <2>3. CASE GraceOver(p) \/ BackoffOver(p) \/ CheckLimits(p) \/ LockRefused(p)
    BY <2>3 DEF GraceOver, BackoffOver, CheckLimits, LockRefused, coordinator
  <2>4. CASE LockAcquired(p) \/ PerformRestart(p) \/ CommandSent(p)
    BY <2>4 DEF LockAcquired, PerformRestart, CommandSent, coordinator
  <2>5. CASE CommandFailed(p) \/ RestartUnverified(p) \/ NoRetry(p)
    BY <2>5 DEF CommandFailed, RestartUnverified, NoRetry, coordinator
  <2>6. ASSUME NEW r \in Retries, ScheduleRetry(p, r) PROVE FlagBacked'
    BY <2>6 DEF ScheduleRetry
  <2> QED
    BY <1>3, <2>1, <2>2, <2>3, <2>4, <2>5, <2>6 DEF HandlerStep
<1>4. CASE Tick
  <2>1. SUFFICES ASSUME retryScheduled PROVE FlagBacked'
    BY <1>4 DEF Tick
  <2>2. PICK r \in Retries : pc[r] = "sleep" /\ left[r] = RetryDelay - retryAge
    BY <2>1
  <2>3. left'[r] = RetryDelay - retryAge'
    BY <1>4, <2>2 DEF Tick, Older
  <2> QED
    BY <1>4, <2>2, <2>3 DEF Tick
<1>5. CASE Internet \/ UNCHANGED vars
  BY <1>5 DEF Internet, vars, coordinator
<1> QED
  BY <1>1, <1>2, <1>3, <1>4, <1>5 DEF Next

\* No step makes a sleeping retry older against the latest restart, except the
\* restart that begins and the retry that is scheduled.
LEMMA SpacingStep ==
  /\ TypeOK /\ HandlerMuInUse /\ LimitsStand
  /\ OneRetryEach /\ RetriesSpaced /\ RetriesSpread
  /\ [Next]_vars
  => OneRetryEach' /\ RetriesSpaced' /\ RetriesSpread'
<1> SUFFICES ASSUME TypeOK, HandlerMuInUse, LimitsStand,
                    OneRetryEach, RetriesSpaced, RetriesSpread, [Next]_vars
             PROVE  OneRetryEach' /\ RetriesSpaced' /\ RetriesSpread'
  OBVIOUS
<1> DEFINE Goal == OneRetryEach' /\ RetriesSpaced' /\ RetriesSpread'
<1>0. /\ RetryDelay \in Nat /\ Cooldown \in Nat
      /\ recordAge \in 0..Cooldown
      /\ \A r \in Retries : left[r] \in 0..RetryDelay
  BY LimitsAssumption DEF TypeOK
\* Steps that leave the retries asleep and begin no restart.
<1>1. ASSUME UNCHANGED <<left, recordAge>>,
             \A r \in Retries : pc'[r] = "sleep" => pc[r] = "sleep",
             Pending' => Pending
      PROVE  Goal
  <2>1. \A r \in Retries : Asleep(r)' => Asleep(r)
    BY <1>1 DEF Asleep
  <2>2. RetriesSpread'
    BY <1>1, <2>1 DEF RetriesSpread
  <2>3. RetriesSpaced'
    <3>1. Pending' => \A r, q \in Retries : r # q /\ Asleep(r) /\ Asleep(q)
             => RetryDelay - left[r] >= Cooldown \/ RetryDelay - left[q] >= Cooldown
      BY <1>1 DEF Pending, RetriesSpaced
    <3> QED
      BY <1>1, <2>1, <3>1 DEF Pending, RetriesSpaced
  <2>4. OneRetryEach'
    BY <1>1, <2>1 DEF OneRetryEach
  <2> QED
    BY <2>2, <2>3, <2>4
<1>2. ASSUME NEW s \in Sites, SiteStep(s) PROVE Goal
  <2>1. UNCHANGED <<left, recordAge>>
    BY <1>2 DEF SiteStep, StartCheck, PingUp, PingDown, StartVerification, NoFailure, Failure,
       counters
  <2>2. pc'[s] \in {"idle", "ping", "suspect", "verify", "enter"} /\ s \in Procs
    BY <1>2 DEF SiteStep, StartCheck, PingUp, PingDown, StartVerification, NoFailure, Failure,
       Goto, TypeOK, Procs
  <2>3. \A p \in Procs \ {s} : pc'[p] = pc[p]
    BY <1>2 DEF SiteStep, StartCheck, PingUp, PingDown, StartVerification, NoFailure, Failure,
       Goto, TypeOK
  <2>4. /\ \A r \in Retries : pc'[r] = "sleep" => pc[r] = "sleep"
        /\ Pending' => Pending
    BY <2>2, <2>3 DEF Pending, Procs
  <2> QED
    BY <1>1, <2>1, <2>4
<1>3. ASSUME NEW s \in Retries, RetryStep(s) PROVE Goal
  <2>1. UNCHANGED <<left, recordAge>>
    BY <1>3 DEF RetryStep, WakeUp, RetryFailure, RetryCancelled, counters
  <2>2. pc'[s] \in {"awake", "enter", "idle"} /\ s \in Procs
    BY <1>3 DEF RetryStep, WakeUp, RetryFailure, RetryCancelled, Goto, TypeOK, Procs
  <2>3. \A p \in Procs \ {s} : pc'[p] = pc[p]
    BY <1>3 DEF RetryStep, WakeUp, RetryFailure, RetryCancelled, Goto, TypeOK
  <2>4. /\ \A r \in Retries : pc'[r] = "sleep" => pc[r] = "sleep"
        /\ Pending' => Pending
    BY <2>2, <2>3 DEF Pending, Procs
  <2> QED
    BY <1>1, <2>1, <2>4
<1>4. ASSUME NEW p \in Procs, HandlerStep(p) PROVE Goal
  <2>0. \A o, q \in Procs : pc[o] \in Handling /\ pc[q] \in Handling => o = q
    BY DEF HandlerMuInUse
  <2>1. CASE \/ EnterHandler(p) \/ Recovered(p) \/ GraceOver(p) \/ BackoffOver(p)
             \/ CheckLimits(p) \/ LockRefused(p) \/ LockAcquired(p)
             \/ Deactivate(p) \/ LeaveHandler(p)
    <3>1. UNCHANGED <<left, recordAge>>
      BY <2>1 DEF EnterHandler, Recovered, GraceOver, BackoffOver, CheckLimits, LockRefused,
         LockAcquired, Deactivate, LeaveHandler, counters
    <3>2. pc'[p] \notin {"sleep", "command", "wait", "schedule"}
      BY <2>1 DEF EnterHandler, Recovered, GraceOver, BackoffOver, CheckLimits, LockRefused,
         LockAcquired, Deactivate, LeaveHandler, Goto, TypeOK
    <3>3. \A q \in Procs \ {p} : pc'[q] = pc[q]
      BY <2>1 DEF EnterHandler, Recovered, GraceOver, BackoffOver, CheckLimits, LockRefused,
         LockAcquired, Deactivate, LeaveHandler, Goto, TypeOK
    <3>4. /\ \A r \in Retries : pc'[r] = "sleep" => pc[r] = "sleep"
          /\ Pending' => Pending
      BY <3>2, <3>3 DEF Pending, Procs
    <3> QED
      BY <1>1, <3>1, <3>4
  <2>2. CASE \/ CommandFailed(p) \/ CommandSent(p) \/ RestartVerified(p)
             \/ RestartUnverified(p) \/ NoRetry(p)
    <3>1. UNCHANGED <<left, recordAge>>
      BY <2>2 DEF CommandFailed, CommandSent, RestartVerified, RestartUnverified, NoRetry,
         RecordRestartAttempt, counters
    <3>2. pc[p] \in {"command", "wait", "schedule"} /\ pc'[p] # "sleep"
      BY <2>2 DEF CommandFailed, CommandSent, RestartVerified, RestartUnverified, NoRetry,
         Goto, TypeOK
    <3>3. \A q \in Procs \ {p} : pc'[q] = pc[q]
      BY <2>2 DEF CommandFailed, CommandSent, RestartVerified, RestartUnverified, NoRetry,
         Goto, TypeOK
    <3>4. /\ \A r \in Retries : pc'[r] = "sleep" => pc[r] = "sleep"
          /\ Pending' => Pending
      BY <3>2, <3>3 DEF Pending, Procs
    <3> QED
      BY <1>1, <3>1, <3>4
  <2>3. CASE PerformRestart(p)
    <3>1. left' = left /\ recordAge' = 0 /\ recordAge = Cooldown
      BY <1>0, <2>3 DEF PerformRestart, LimitsStand, Goto
    <3>2. pc[p] = "uptime" /\ pc' = [pc EXCEPT ![p] = "command"]
      BY <2>3 DEF PerformRestart, Goto
    <3>3. ~Pending /\ Pending'
      BY <2>0, <3>2 DEF Pending, Handling, Active, TypeOK
    <3>4. \A r \in Retries : Asleep(r)' => Asleep(r)
      BY <3>1, <3>2 DEF Asleep, TypeOK, Procs
    <3>5. RetriesSpread'
      BY <3>1, <3>4 DEF RetriesSpread
    <3>6. RetriesSpaced'
      BY <3>1, <3>3, <3>4 DEF RetriesSpaced, OneRetryEach
    <3>7. OneRetryEach'
      BY <1>0, <3>1, <3>3 DEF OneRetryEach
    <3> QED
      BY <3>5, <3>6, <3>7
  <2>4. ASSUME NEW n \in Retries, ScheduleRetry(p, n) PROVE Goal
    <3>1. /\ recordAge' = recordAge /\ left' = [left EXCEPT ![n] = RetryDelay]
          /\ pc[p] = "schedule" /\ pc[n] = "idle"
          /\ pc' = [pc EXCEPT ![p] = "deactivate", ![n] = "sleep"]
      BY <2>4 DEF ScheduleRetry, counters
    <3>2. Pending /\ ~Pending'
      BY <2>0, <3>1 DEF Pending, Handling, Active, TypeOK
    <3>3. \A r \in Retries \ {n} : left'[r] = left[r] /\ (Asleep(r)' => Asleep(r))
      BY <3>1 DEF Asleep, TypeOK, Procs
    <3>4. left'[n] = RetryDelay
      BY <3>1 DEF TypeOK
    <3>5. OneRetryEach'
      <4>1. \A r \in Retries \ {n} : Asleep(r)' => RetryDelay - left'[r] >= recordAge'
        BY <3>1, <3>2, <3>3 DEF OneRetryEach
      <4> QED
        BY <3>2, <4>1 DEF OneRetryEach
    <3>6. RetriesSpaced'
      BY <3>2 DEF RetriesSpaced, Pending
    <3>7. \A r, q \in Retries \ {n} :
            r # q /\ Asleep(r)' /\ Asleep(q)'
              => left'[n] >= left'[r] + Cooldown \/ left'[n] >= left'[q] + Cooldown
      BY <1>0, <3>1, <3>3, <3>4 DEF RetriesSpaced
    <3>8. RetriesSpread'
      BY <3>3, <3>7 DEF RetriesSpread
    <3> QED
      BY <3>5, <3>6, <3>8
  <2> QED
    BY <1>4, <2>1, <2>2, <2>3, <2>4 DEF HandlerStep
<1>5. CASE Tick
  <2>1. pc' = pc /\ (recordAge' = recordAge \/ recordAge' = recordAge + 1)
    BY <1>0, <1>5 DEF Tick, Older
  <2>2. \A r \in Retries : Asleep(r)' => Asleep(r) /\ left'[r] = left[r] - 1
    BY <1>0, <1>5 DEF Tick, Asleep
  <2>3. Pending' <=> Pending
    BY <2>1 DEF Pending
  <2>4. RetriesSpread'
    BY <1>0, <2>2 DEF RetriesSpread
  <2>5. RetriesSpaced'
    BY <1>0, <2>1, <2>2 DEF RetriesSpaced
  <2>6. OneRetryEach'
    BY <1>0, <2>1, <2>2, <2>3 DEF OneRetryEach
  <2> QED
    BY <2>4, <2>5, <2>6
<1>6. CASE Internet \/ UNCHANGED vars
  BY <1>1, <1>6 DEF Internet, vars, counters, Pending
<1> QED
  BY <1>2, <1>3, <1>4, <1>5, <1>6 DEF Next

\* The invariant of every reachable state.
THEOREM Invariance == Spec => []Inv
<1>1. Inv /\ [Next]_vars => Inv'
  BY TypeStep, MutexStep, VerificationStep, LimitsStep, FlagStep, SpacingStep DEF Inv
<1> QED
  BY InitInv, <1>1, PTL DEF Spec

-----------------------------------------------------------------------------
\* Every variable keeps its type.
THEOREM TypeCorrect == Spec => []TypeOK
<1>1. Inv => TypeOK
  BY DEF Inv
<1> QED
  BY Invariance, <1>1, PTL

\* However many sites and retries compete, one restart at a time, and the
\* restart flag is up exactly during it.
THEOREM RestartsExclude == Spec => []OneRestart
<1>1. Inv => OneRestart
  BY DEF Inv, HandlerMuInUse, VerificationMuInUse, FlagInUse, MutexesInUse, OneRestart
<1> QED
  BY Invariance, <1>1, PTL

\* No path through verification and handler, however the flags and mutexes
\* turned it back, leaves a mutex locked behind it or runs without its own.
THEOREM MutexesGivenBack == Spec => []MutexesInUse
<1>1. Inv => MutexesInUse
  BY DEF Inv, HandlerMuInUse, VerificationMuInUse, MutexesInUse
<1> QED
  BY Invariance, <1>1, PTL

\* The failures counted never exceed the configured limit.
THEOREM FailuresLimited == Spec => []RetryLimit
<1>1. Inv => RetryLimit
  BY DEF Inv
<1> QED
  BY Invariance, <1>1, PTL

\* The retry flag never promises a retry that is not coming.
THEOREM FlagHonest == Spec => []FlagBacked
<1>1. Inv => FlagBacked
  BY DEF Inv
<1> QED
  BY Invariance, <1>1, PTL

\* A restart finds at most one retry younger than the cooldown.
THEOREM RetriesFew == Spec => []RetriesSpaced
<1>1. Inv => RetriesSpaced
  BY DEF Inv
<1> QED
  BY Invariance, <1>1, PTL

\* Never more than two of the retries that sleep were scheduled within one
\* cooldown, for any number of goroutines: what bounds them all is the ratio of
\* retry delay and cooldown.
THEOREM RetriesBounded == Spec => []RetriesSpread
<1>1. Inv => RetriesSpread
  BY DEF Inv
<1> QED
  BY Invariance, <1>1, PTL

\* No restart command within the cooldown of the one before.
THEOREM CooldownKept == Spec => CooldownRespected
<1>1. ASSUME Inv, NEW p \in Procs, PerformRestart(p) PROVE recordAge >= Cooldown
  BY <1>1 DEF Inv, LimitsStand, PerformRestart, Goto
<1>2. Inv /\ [Next]_vars => [\A p \in Procs : PerformRestart(p) => recordAge >= Cooldown]_vars
  BY <1>1
<1> QED
  BY Invariance, <1>2, PTL DEF Spec, CooldownRespected

-----------------------------------------------------------------------------
(* The refinement: the handler between PerformRestart and its record is the *)
(* policy's restart, and handlerMu makes it the only one.                   *)

Busy == \E p \in Procs : pc[p] \in {"command", "wait"}

\* Steps that neither begin nor end a restart are none of the policy's.
LEMMA Stutter ==
  ASSUME (Busy <=> Busy'), UNCHANGED <<fails, recordAge>>
  PROVE  UNCHANGED Policy!vars
<1>1. Busy' = Busy
  BY Zenon DEF Busy
<1> QED
  BY <1>1 DEF Policy!vars, Busy

LEMMA PolicyStep == Inv /\ [Next]_vars => [Policy!Next]_(Policy!vars)
<1> SUFFICES ASSUME Inv, [Next]_vars PROVE [Policy!Next]_(Policy!vars)
  OBVIOUS
<1> DEFINE Goal == [Policy!Next]_(Policy!vars)
<1> USE ProcsAssumption DEF Inv, TypeOK, Goto
<1>0. \A p, q \in Procs : pc[p] \in Handling /\ pc[q] \in Handling => p = q
  BY DEF HandlerMuInUse
<1>1. ASSUME NEW s \in Sites, SiteStep(s) PROVE Goal
  <2>1. (Busy <=> Busy') /\ UNCHANGED <<fails, recordAge>>
    BY <1>1 DEF SiteStep, StartCheck, PingUp, PingDown, StartVerification, NoFailure, Failure,
       counters, Procs, Busy
  <2> QED
    BY <2>1, Stutter
<1>2. ASSUME NEW r \in Retries, RetryStep(r) PROVE Goal
  <2>1. (Busy <=> Busy') /\ UNCHANGED recordAge
    BY <1>2 DEF RetryStep, WakeUp, RetryFailure, RetryCancelled, counters, Procs, Busy
  <2>2. fails' = fails \/ fails' = 0
    BY <1>2 DEF RetryStep, WakeUp, RetryFailure, RetryCancelled, counters
  <2>3. CASE fails' = fails
    BY <2>1, <2>3, Stutter
  <2>4. CASE fails' = 0
    <3>1. Busy' = Busy
      BY <2>1, Zenon DEF Busy
    <3> QED
      BY <2>1, <2>4, <3>1 DEF Policy!Next, Policy!Recover, Busy
  <2> QED
    BY <2>2, <2>3, <2>4
<1>3. ASSUME NEW p \in Procs, HandlerStep(p) PROVE Goal
  <2> USE <1>0 DEF Handling, Active
  <2>1. CASE EnterHandler(p) \/ LeaveHandler(p) \/ Deactivate(p) \/ Recovered(p) \/ NoRetry(p)
             \/ GraceOver(p) \/ BackoffOver(p) \/ CheckLimits(p) \/ LockRefused(p)
             \/ LockAcquired(p) \/ CommandSent(p)
    <3>1. (Busy <=> Busy') /\ UNCHANGED <<fails, recordAge>>
      BY <2>1 DEF EnterHandler, LeaveHandler, Deactivate, Recovered, NoRetry, GraceOver, BackoffOver,
         CheckLimits, LockRefused, LockAcquired, CommandSent, counters, Busy
    <3> QED
      BY <3>1, Stutter
  <2>2. ASSUME NEW r \in Retries, ScheduleRetry(p, r) PROVE Goal
    <3>1. (Busy <=> Busy') /\ UNCHANGED <<fails, recordAge>>
      BY <2>2 DEF ScheduleRetry, counters, Procs, Busy
    <3> QED
      BY <3>1, Stutter
  <2>3. CASE PerformRestart(p)
    <3>1. ~Busy /\ Busy'
      BY <2>3 DEF PerformRestart, Busy
    <3>2. Busy' = TRUE
      BY <3>1, Zenon DEF Busy
    <3>3. recordAge = Cooldown /\ recordAge' = 0 /\ fails' = fails
      BY <2>3, LimitsAssumption DEF PerformRestart, LimitsStand
    <3> QED
      BY <3>1, <3>2, <3>3 DEF Policy!Next, Policy!Begin, Busy
  <2>4. CASE CommandFailed(p)
    <3>1. Busy /\ ~Busy'
      BY <2>4 DEF CommandFailed, Busy
    <3>2. Busy' = FALSE
      BY <3>1, Zenon DEF Busy
    <3>3. fails < MaxRetries /\ fails' = fails + 1 /\ recordAge' = recordAge
      BY <2>4 DEF CommandFailed, RecordRestartAttempt, LimitsStand
    <3> QED
      BY <3>1, <3>2, <3>3 DEF Policy!Next, Policy!Fail, Busy
  <2>5. CASE RestartVerified(p) \/ RestartUnverified(p)
    <3>1. Busy /\ ~Busy'
      BY <2>5 DEF RestartVerified, RestartUnverified, Busy
    <3>2. Busy' = FALSE
      BY <3>1, Zenon DEF Busy
    <3>3. fails' = 0 /\ recordAge' = recordAge
      BY <2>5 DEF RestartVerified, RestartUnverified, RecordRestartAttempt
    <3> QED
      BY <3>1, <3>2, <3>3 DEF Policy!Next, Policy!Succeed, Busy
  <2> QED
    BY <1>3, <2>1, <2>2, <2>3, <2>4, <2>5 DEF HandlerStep
<1>4. CASE Tick
  <2>1. (Busy <=> Busy') /\ fails' = fails
    BY <1>4 DEF Tick, Busy
  <2>2. recordAge' = recordAge \/ (recordAge < Cooldown /\ recordAge' = recordAge + 1)
    BY <1>4, LimitsAssumption DEF Tick, Older
  <2>3. CASE recordAge' = recordAge
    BY <2>1, <2>3, Stutter
  <2>4. CASE recordAge < Cooldown /\ recordAge' = recordAge + 1
    <3>1. Busy' = Busy
      BY <2>1, Zenon DEF Busy
    <3> QED
      BY <2>1, <2>4, <3>1 DEF Policy!Next, Policy!Age, Busy
  <2> QED
    BY <2>2, <2>3, <2>4
<1>5. CASE Internet \/ UNCHANGED vars
  <2>1. (Busy <=> Busy') /\ UNCHANGED <<fails, recordAge>>
    BY <1>5 DEF Internet, vars, counters, Busy
  <2> QED
    BY <2>1, Stutter
<1> QED
  BY <1>1, <1>2, <1>3, <1>4, <1>5 DEF Next

\* Any number of sites and retry goroutines restart the router as the
\* sequential policy does.
THEOREM Implementation == Spec => ImplementsPolicy
<1>1. Init => Policy!Init
  <2> SUFFICES ASSUME Init PROVE Policy!Init
    OBVIOUS
  <2>1. ~Busy
    BY DEF Init, Busy
  <2>2. Busy = FALSE
    BY <2>1, Zenon DEF Busy
  <2>3. fails \in 0..MaxRetries /\ recordAge \in 0..Cooldown
    BY DEF Init
  <2> QED
    BY <2>2, <2>3 DEF Policy!Init, Busy
<1> QED
  BY Invariance, PolicyStep, <1>1, PTL DEF Spec, ImplementsPolicy, Policy!Spec
=============================================================================
