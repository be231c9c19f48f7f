-------------------------- MODULE RouterBreakerProofs --------------------------
(***************************************************************************)
(* Proofs, for any limits of the breaker and any numbers of attempts, of   *)
(* the safety properties of RouterBreaker.  What the breaker has counted   *)
(* is what happened in a row, no more and no less, so that a change of     *)
(* state it decides by its counters was earned and comes at once.          *)
(***************************************************************************)
EXTENDS RouterBreaker, TLAPS

\* The counters are the operations that succeeded or failed in a row, and
\* below their limits, while the state lasts in which they are compared; an
\* open breaker begins the count of successes anew.
CountersExact ==
  /\ breaker.state = "closed" => breaker.failures = bad /\ breaker.failures < MaxFailures
  /\ breaker.state = "half-open" =>
       breaker.successes = good /\ breaker.successes < HalfOpenSuccesses
  /\ breaker.state = "open" => good = 0

Attempts == pc \in {"login", "token"} => tries < Tries

Inv == TypeOK /\ OpenIsSilent /\ CountersExact /\ Attempts

Breakers ==
  [state : {"closed", "open", "half-open"}, failures : 0..MaxFailures,
   successes : 0..HalfOpenSuccesses, since : 0..(ResetTimeout + 1)]

-----------------------------------------------------------------------------
LEMMA CappedType ==
  ASSUME NEW max \in Nat, NEW n \in 0..max
  PROVE  /\ Capped(n, max) \in 0..max
         /\ Capped(n, max) >= n
         /\ n < max => Capped(n, max) = n + 1
BY DEF Capped

LEMMA AdmittedBreaker ==
  ASSUME NEW b \in Breakers
  PROVE  /\ Admitted(b) \in Breakers
         /\ Admitted(b).state # "open"
         /\ b.state # "open" => Admitted(b) = b
         /\ b.state = "open" => Admitted(b).state = "half-open" /\ Admitted(b).successes = 0
<1>1. CASE b.state # "open"
  BY <1>1 DEF Admitted
<1>2. CASE b.state = "open"
  <2>1. Admitted(b) = [b EXCEPT !.state = "half-open", !.successes = 0, !.since = 0]
    BY <1>2 DEF Admitted
  <2>2. b = [state |-> b.state, failures |-> b.failures, successes |-> b.successes, since |-> b.since]
    BY DEF Breakers
  <2>3. Admitted(b) = [state |-> "half-open", failures |-> b.failures, successes |-> 0, since |-> 0]
    BY <2>1, <2>2
  <2> QED
    BY <1>2, <2>3, BreakerAssumption DEF Breakers
<1> QED
  BY <1>1, <1>2

LEMMA SucceededBreaker ==
  ASSUME NEW b \in Breakers, b.state = "half-open" => b.successes < HalfOpenSuccesses
  PROVE  /\ Succeeded(b) \in Breakers
         /\ b.state = "open" => Succeeded(b) = b
         /\ b.state = "closed" => Succeeded(b).state = "closed" /\ Succeeded(b).failures = 0
         /\ b.state = "half-open" =>
              \/ /\ Succeeded(b).state = "half-open"
                 /\ Succeeded(b).successes = b.successes + 1
                 /\ Succeeded(b).successes < HalfOpenSuccesses
              \/ /\ Succeeded(b).state = "closed" /\ Succeeded(b).failures = 0
                 /\ b.successes + 1 >= HalfOpenSuccesses
<1>1. CASE b.state = "open"
  BY <1>1 DEF Succeeded, Breakers
<1>2. CASE b.state = "closed"
  BY <1>2, BreakerAssumption DEF Succeeded, Breakers
<1>3. CASE b.state = "half-open" /\ b.successes + 1 >= HalfOpenSuccesses
  <2>1. b = [state |-> b.state, failures |-> b.failures, successes |-> b.successes, since |-> b.since]
    BY DEF Breakers
  <2>2. Succeeded(b) = [state |-> "closed", failures |-> 0, successes |-> b.successes + 1, since |-> 0]
    BY <1>3, <2>1 DEF Succeeded
  <2> QED
    BY <1>3, <2>2, BreakerAssumption DEF Breakers
<1>4. CASE b.state = "half-open" /\ b.successes + 1 < HalfOpenSuccesses
  BY <1>4, BreakerAssumption DEF Succeeded, Breakers
<1> QED
  BY <1>1, <1>2, <1>3, <1>4, BreakerAssumption DEF Breakers

LEMMA Opened ==
  ASSUME NEW b \in Breakers, NEW r, r = [b EXCEPT !.state = "open", !.since = 0]
  PROVE  r = [state |-> "open", failures |-> b.failures, successes |-> b.successes, since |-> 0]
<1>1. b = [state |-> b.state, failures |-> b.failures, successes |-> b.successes, since |-> b.since]
  BY DEF Breakers
<1> QED
  BY <1>1

LEMMA FailedBreaker ==
  ASSUME NEW b \in Breakers
  PROVE  /\ Failed(b) \in Breakers
         /\ Failed(b).failures = Capped(b.failures, MaxFailures)
         /\ b.state = "closed" =>
              \/ Failed(b).state = "closed" /\ Failed(b).failures < MaxFailures
              \/ Failed(b).state = "open" /\ Failed(b).failures >= MaxFailures
         /\ b.state # "closed" => Failed(b).state = "open"
<1> DEFINE n == Capped(b.failures, MaxFailures)
           c == [b EXCEPT !.failures = n]
<1>1. n \in 0..MaxFailures
  BY CappedType, BreakerAssumption DEF Breakers
<1>2. c \in Breakers /\ c.failures = n /\ c.state = b.state
  BY <1>1 DEF Breakers
<1>3. Failed(b) = IF (b.state = "closed" /\ n >= MaxFailures) \/ b.state = "half-open"
                    THEN [c EXCEPT !.state = "open", !.since = 0] ELSE c
  BY <1>2 DEF Failed
<1> HIDE DEF n, c
<1>4. [c EXCEPT !.state = "open", !.since = 0]
        = [state |-> "open", failures |-> c.failures, successes |-> c.successes, since |-> 0]
  BY <1>2, Opened
<1>5. CASE (b.state = "closed" /\ n >= MaxFailures) \/ b.state = "half-open"
  <2>1. Failed(b) = [state |-> "open", failures |-> c.failures, successes |-> c.successes, since |-> 0]
    BY <1>3, <1>4, <1>5
  <2>2. c.failures \in 0..MaxFailures /\ c.successes \in 0..HalfOpenSuccesses
    BY <1>2 DEF Breakers
  <2>3. Failed(b) \in Breakers
    BY <2>1, <2>2, BreakerAssumption DEF Breakers
  <2>4. Failed(b).state = "open" /\ Failed(b).failures = n
    BY <1>2, <2>1
  <2> QED
    BY <1>5, <2>3, <2>4 DEF n
<1>6. CASE ~((b.state = "closed" /\ n >= MaxFailures) \/ b.state = "half-open")
  <2>1. Failed(b) = c
    BY <1>3, <1>6
  <2>2. b.state = "closed" => n < MaxFailures
    BY <1>1, <1>6, BreakerAssumption
  <2>3. b.state \in {"closed", "open"}
    BY <1>6 DEF Breakers
  <2> QED
    BY <1>2, <2>1, <2>2, <2>3 DEF n
<1> QED
  BY <1>5, <1>6, Zenon

-----------------------------------------------------------------------------
LEMMA InitInv == Init => Inv
<1> SUFFICES ASSUME Init PROVE Inv
  OBVIOUS
<1> USE BreakerAssumption
<1>1. breaker \in Breakers /\ breaker.state = "closed" /\ breaker.failures = 0
  BY DEF Init, Breakers
<1>2. pc \in {"idle", "uptime"}
  BY DEF Init
<1>3. tries \in 0..(LoginTries + TokenTries) /\ good \in 0..HalfOpenSuccesses
      /\ bad \in 0..MaxFailures /\ bad = 0
  BY DEF Init
<1>4. TypeOK
  BY <1>1, <1>2, <1>3 DEF Init, TypeOK, Breakers
<1>5. OpenIsSilent /\ CountersExact /\ Attempts
  BY <1>1, <1>2, <1>3 DEF OpenIsSilent, CountersExact, Attempts
<1> QED
  BY <1>4, <1>5 DEF Inv

\* What an operation's end makes of the breaker.
LEMMA Recorded ==
  ASSUME Inv, breaker.state # "open", RecordSuccess \/ RecordFailure
  PROVE  /\ breaker' \in Breakers /\ good' \in 0..HalfOpenSuccesses /\ bad' \in 0..MaxFailures
         /\ CountersExact'
         /\ breaker.state # "closed" /\ breaker'.state = "closed" => good' >= HalfOpenSuccesses
         /\ breaker.state = "closed" /\ breaker'.state = "open" => bad' >= MaxFailures
<1> USE BreakerAssumption
<1>1. breaker \in Breakers /\ good \in 0..HalfOpenSuccesses /\ bad \in 0..MaxFailures
  BY DEF Inv, TypeOK, Breakers
<1>2. breaker.state \in {"closed", "half-open"}
  BY <1>1 DEF Breakers
<1>3. breaker.failures \in 0..MaxFailures /\ breaker.successes \in 0..HalfOpenSuccesses
  BY <1>1 DEF Breakers
<1>4. CASE RecordSuccess
  <2>1. /\ good' \in 0..HalfOpenSuccesses /\ good' >= good
        /\ good < HalfOpenSuccesses => good' = good + 1
    BY <1>1, <1>4, CappedType DEF RecordSuccess
  <2>2. bad' = 0 /\ breaker' = Succeeded(breaker)
    BY <1>4 DEF RecordSuccess
  <2>3. breaker.state = "half-open" => breaker.successes < HalfOpenSuccesses
                                       /\ breaker.successes = good
    BY DEF Inv, CountersExact
  <2>4. /\ breaker' \in Breakers
        /\ breaker.state = "closed" => breaker'.state = "closed" /\ breaker'.failures = 0
        /\ breaker.state = "half-open" =>
             \/ /\ breaker'.state = "half-open"
                /\ breaker'.successes = breaker.successes + 1
                /\ breaker'.successes < HalfOpenSuccesses
             \/ /\ breaker'.state = "closed" /\ breaker'.failures = 0
                /\ breaker.successes + 1 >= HalfOpenSuccesses
    BY <1>1, <2>2, <2>3, SucceededBreaker
  <2> QED
    BY <1>1, <1>2, <1>3, <2>1, <2>2, <2>3, <2>4 DEF CountersExact
<1>5. CASE RecordFailure
  <2>1. /\ bad' \in 0..MaxFailures /\ bad' >= bad
        /\ bad < MaxFailures => bad' = bad + 1
    BY <1>1, <1>5, CappedType DEF RecordFailure
  <2>2. good' = 0 /\ breaker' = Failed(breaker)
    BY <1>5 DEF RecordFailure
  <2>3. breaker.state = "closed" => breaker.failures = bad /\ breaker.failures < MaxFailures
    BY DEF Inv, CountersExact
  <2>4. /\ breaker' \in Breakers
        /\ breaker'.failures = Capped(breaker.failures, MaxFailures)
        /\ breaker.state = "closed" =>
             \/ breaker'.state = "closed" /\ breaker'.failures < MaxFailures
             \/ breaker'.state = "open" /\ breaker'.failures >= MaxFailures
        /\ breaker.state # "closed" => breaker'.state = "open"
    BY <1>1, <2>2, FailedBreaker
  <2>5. breaker.failures < MaxFailures => breaker'.failures = breaker.failures + 1
    BY <1>3, <2>4, CappedType
  <2> QED
    BY <1>1, <1>2, <1>3, <2>1, <2>2, <2>3, <2>4, <2>5 DEF CountersExact
<1> QED
  BY <1>4, <1>5

-----------------------------------------------------------------------------
\* What BreakerEarned asks of one step.
Earned ==
  /\ breaker.state # "closed" /\ breaker'.state = "closed" => good' >= HalfOpenSuccesses
  /\ breaker.state = "closed" /\ breaker'.state = "open" => bad' >= MaxFailures

\* Every step keeps the invariant and earns its change of the breaker.
LEMMA Step == Inv /\ [Next]_vars => Inv' /\ Earned
<1> SUFFICES ASSUME Inv, [Next]_vars PROVE Inv' /\ Earned
  OBVIOUS
<1> USE BreakerAssumption DEF Inv
<1>1. CASE StartRestart
  BY <1>1 DEF StartRestart, Enter, RecordNothing, TypeOK, OpenIsSilent, CountersExact, Attempts, Earned
<1>2. CASE CheckUptime \/ RestartRouter
  <2>1. breaker \in Breakers
    BY DEF TypeOK, Breakers
  <2>2. CASE breaker' = Admitted(breaker)
    <3>1. breaker' \in Breakers /\ breaker'.state # "open" /\ Earned /\ CountersExact'
      BY <1>2, <2>1, <2>2, AdmittedBreaker
         DEF CheckUptime, RestartRouter, Earned, CountersExact, Breakers, TypeOK
    <3> QED
      BY <1>2, <3>1 DEF CheckUptime, RestartRouter, AfterUptime, Enter, TypeOK, OpenIsSilent,
         Attempts, Breakers, Tries
  <2>3. CASE UNCHANGED breaker /\ pc' \in {"idle", "restart", "fetch", "login"} /\ ~CanExecute(breaker)
    BY <1>2, <2>3 DEF CheckUptime, RestartRouter, AfterUptime, Enter, TypeOK, OpenIsSilent,
       CountersExact, Attempts, Earned, Breakers, Tries
  <2> QED
    BY <1>2, <2>2, <2>3 DEF CheckUptime, RestartRouter, AfterUptime, Enter
<1>3. CASE FetchFails \/ UptimeKnown \/ GiveUp \/ CommandFails \/ CommandSent
  <2>1. breaker.state # "open" /\ (RecordSuccess \/ RecordFailure)
    BY <1>3 DEF FetchFails, UptimeKnown, GiveUp, CommandFails, CommandSent, OpenIsSilent
  <2>2. pc' \in {"idle", "restart"} /\ tries' = 0 /\ UNCHANGED <<config, restart, broken>>
    BY <1>3 DEF FetchFails, UptimeKnown, GiveUp, CommandFails, CommandSent, AfterUptime, Enter
  <2>3. /\ breaker' \in Breakers /\ good' \in 0..HalfOpenSuccesses /\ bad' \in 0..MaxFailures
        /\ CountersExact' /\ Earned
    BY <2>1, Recorded DEF Earned
  <2> QED
    BY <2>2, <2>3 DEF TypeOK, OpenIsSilent, Attempts, Breakers
<1>4. CASE NoUptime \/ RestartOtherwise \/ SessionEnds \/ LoggedIn \/ TokenObtained \/ TryAgain
  BY <1>4 DEF NoUptime, RestartOtherwise, SessionEnds, LoggedIn, TokenObtained, TryAgain, AfterUptime, Enter, RecordNothing,
     TypeOK, OpenIsSilent, CountersExact, Attempts, Tries, Earned
<1>5. CASE Tick
  <2>1. breaker \in Breakers
    BY DEF TypeOK, Breakers
  <2>2. Capped(breaker.since, ResetTimeout + 1) \in 0..(ResetTimeout + 1)
    BY <2>1, CappedType DEF Breakers
  <2>3. /\ breaker' \in Breakers /\ breaker'.state = breaker.state
        /\ breaker'.failures = breaker.failures /\ breaker'.successes = breaker.successes
    BY <1>5, <2>1, <2>2 DEF Tick, Breakers
  <2> QED
    BY <1>5, <2>3 DEF Tick, TypeOK, OpenIsSilent, CountersExact, Attempts, Tries, Earned, Breakers
<1>6. CASE RouterChanges
  BY <1>6 DEF RouterChanges, Pages, TypeOK, OpenIsSilent, CountersExact, Attempts, Tries, Earned
<1>7. CASE UNCHANGED vars
  BY <1>7 DEF vars, TypeOK, OpenIsSilent, CountersExact, Attempts, Tries, Earned
<1> QED
  BY <1>1, <1>2, <1>3, <1>4, <1>5, <1>6, <1>7 DEF Next, Operation

\* The invariant of every reachable state.
THEOREM Invariance == Spec => []Inv
<1>1. Inv /\ [Next]_vars => Inv'
  BY Step
<1> QED
  BY InitInv, <1>1, PTL DEF Spec

\* Every variable keeps its type.
THEOREM TypeCorrect == Spec => []TypeOK
<1>1. Inv => TypeOK
  BY DEF Inv
<1> QED
  BY Invariance, <1>1, PTL

\* No request is under way while the breaker is open, for any limits.
THEOREM SilentWhileOpen == Spec => []OpenIsSilent
<1>1. Inv => OpenIsSilent
  BY DEF Inv
<1> QED
  BY Invariance, <1>1, PTL

\* The breaker opens and closes only on operations that failed, or succeeded,
\* in a row, as many as configured.
THEOREM ChangesEarned == Spec => BreakerEarned
<1>1. Inv /\ [Next]_vars => [Earned]_vars
  BY Step
<1>2. [][Earned]_vars <=> BreakerEarned
  BY DEF BreakerEarned, Earned
<1> QED
  BY Invariance, <1>1, <1>2, PTL DEF Spec

\* The breaker never lets more operations in a row fail, or succeed, than it
\* is configured to before it opens, or closes.
THEOREM ChangesInTime == Spec => []BreakerPrompt
<1>1. Inv => BreakerPrompt
  BY DEF Inv, CountersExact, BreakerPrompt
<1> QED
  BY Invariance, <1>1, PTL
=============================================================================
