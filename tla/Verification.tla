----------------------------- MODULE Verification -----------------------------
(***************************************************************************)
(* How one node decides that the internet, and not just a site, is down:   *)
(* checkSite pings its site, a bad answer is verified with the sites of    *)
(* highest priority, the handler sleeps and verifies again with the first  *)
(* sites of the configuration, and after a restart counts how many answer. *)
(* Sites are pinged one after another while each of them comes and goes.   *)
(*                                                                         *)
(* One goroutine at a time verifies (verificationMu, handlerMu; see        *)
(* RestartCoordinator): the model follows one line of verifications, begun *)
(* by the loop of a site or by a scheduled retry.                          *)
(***************************************************************************)
EXTENDS Naturals, FiniteSets

CONSTANTS Sites,     \* the configured sites, with different addresses
          Config,    \* their order in the configuration, from 1
          Priority,  \* Priority[s], the highest first
          Primary    \* the sites that are not verification_only

Total == Cardinality(Sites)

\* An order of all the sites.
Orders == {o \in [1..Total -> Sites] : \A i, j \in 1..Total : o[i] = o[j] => i = j}

\* ValidateConfig: two sites or more, one of them primary.
ASSUME SitesAssumption ==
  IsFiniteSet(Sites) /\ Total >= 2 /\ Primary \subseteq Sites /\ Primary # {}
ASSUME OrderAssumption == Config \in Orders /\ Priority \in [Sites -> Nat]

VARIABLES
  count,     \* VerificationSiteCount
  ranked,    \* getVerificationSites, sorted once at the start
  site,      \* the site whose loop this is
  isDown,    \* its SiteState.IsDown
  link,      \* what a ping of each site finds now
  pc,        \* where the line of verifications is
  phase,     \* why it sleeps or pings
  i,         \* the index of the site it pings next
  ups,       \* SitesUp, or successCount after a restart
  heldUp,    \* history: the sites up ever since the line began or restarted
  heldBad    \* history: the sites lossy or down ever since

settings == <<count, ranked, site>>
history == <<link, heldUp, heldBad>>
vars == <<settings, isDown, history, pc, phase, i, ups>>

\* checkCount and verificationCount: min(count, len(sites))
N == IF count < Total THEN count ELSE Total

\* The sites a verification in this order pings.
Checked(order) == {order[j] : j \in 1..N}

Sleeps == {"grace", "backoff", "delay", "wait"}

TypeOK ==
  /\ count \in 1..(Total + 1)
  /\ ranked \in Orders
  /\ site \in Primary
  /\ isDown \in BOOLEAN
  /\ link \in [Sites -> {"up", "lossy", "down"}]
  /\ pc \in {"idle", "sleep", "ping", "decided", "command"}
  /\ phase \in Sleeps \cup {"check", "retry"}
  /\ i \in 1..(Total + 1)
  /\ ups \in 0..Total
  /\ heldUp \in SUBSET Sites /\ heldBad \in SUBSET Sites

\* Success and less than half of the packets lost.
Good(l) == l = "up"

\* sort.Slice leaves sites of equal priority in any order.
Sorted(o) == \A j, k \in 1..Total : j < k => Priority[o[j]] >= Priority[o[k]]

Init ==
  /\ count \in 1..(Total + 1)
  /\ ranked \in {o \in Orders : Sorted(o)}
  /\ site \in Primary /\ isDown \in BOOLEAN
  /\ link \in [Sites -> {"up", "lossy", "down"}]
  /\ pc = "idle" /\ phase = "check" /\ i = 1 /\ ups = 0
  /\ heldUp = {} /\ heldBad = {}

\* The history begins anew.
Observe ==
  /\ heldUp' = {s \in Sites : Good(link[s])}
  /\ heldBad' = {s \in Sites : ~Good(link[s])}
  /\ UNCHANGED link

\* Faulty variant: the loop begins one index early.
StartPings_FromZero(why) ==
  /\ pc' = "ping" /\ phase' = why
  /\ i' = 0 /\ ups' = 0

\* VerifyConnectivityWithDNS or VerifyRestartSuccess begins.
StartPings(why) ==
  /\ pc' = "ping" /\ phase' = why
  /\ i' = 1 /\ ups' = 0

-----------------------------------------------------------------------------
(* checkSite and the pings                                                  *)

\* Faulty variant: only a site that just went down is verified.
CheckSite_OnlyChange ==
  /\ pc = "idle"
  /\ isDown' = (link[site] = "down")
  /\ IF Good(link[site]) \/ isDown = isDown' THEN UNCHANGED <<pc, phase, i, ups>> ELSE StartPings("check")
  /\ Observe
  /\ UNCHANGED settings

\* The site is pinged, UpdateSiteState goes by Success alone, and a site that
\* is down, or loses half its packets, is verified.
CheckSite ==
  /\ pc = "idle"
  /\ isDown' = (link[site] = "down")
  /\ IF Good(link[site]) THEN UNCHANGED <<pc, phase, i, ups>> ELSE StartPings("check")
  /\ Observe
  /\ UNCHANGED settings

\* A retry goroutine wakes up.
WakeUp ==
  /\ pc = "idle"
  /\ StartPings("retry")
  /\ Observe
  /\ UNCHANGED <<settings, isDown>>

\* The failing site's loop goes by priority, all the others by the file.
Order == IF phase = "check" THEN ranked ELSE Config

\* Faulty variant: the answer of the last site is not counted.
PingNext_Short ==
  /\ pc = "ping" /\ i <= N
  /\ i' = i + 1
  /\ ups' = IF Good(link[Order[i]]) /\ i < N THEN ups + 1 ELSE ups
  /\ UNCHANGED <<settings, isDown, history, pc, phase>>

PingNext ==
  /\ pc = "ping" /\ i <= N
  /\ i' = i + 1
  /\ ups' = IF Good(link[Order[i]]) THEN ups + 1 ELSE ups
  /\ UNCHANGED <<settings, isDown, history, pc, phase>>

Judging == pc = "ping" /\ i > N

\* What comes after a verification, with nothing else changed.
GoOn(place, why) ==
  /\ pc' = place /\ phase' = why
  /\ UNCHANGED <<settings, isDown, history, i, ups>>

\* Faulty variant: half of the sites, rounded down.
Threshold_Down == N \div 2

\* At least half of the sites.
Threshold == (N + 1) \div 2

AllDown == ups = 0
RestartWorked == ups >= Threshold

-----------------------------------------------------------------------------
(* The verdict, and what the handler does with it                           *)

\* Not all down: the site alone is at fault, or the connection is back.
SomeUp ==
  /\ Judging /\ phase # "wait" /\ ~AllDown
  /\ GoOn("idle", phase)

\* All down in checkSite: shouldHandleFailure and the mutex may refuse, else
\* the handler begins with its grace period.  So it does after a retry.
OutageSuspected ==
  /\ Judging /\ phase \in {"check", "retry"} /\ AllDown
  /\ GoOn("idle", phase) \/ GoOn("sleep", "grace")

\* Faulty variant: after the grace period the first verdict still counts.
SleepOver_NoRecheck ==
  /\ pc = "sleep" /\ phase # "wait"
  /\ GoOn("decided", phase)

\* Grace period, backoff or power-loss delay: then the sites are verified.
SleepOver ==
  /\ pc = "sleep" /\ phase # "wait"
  /\ StartPings(phase)
  /\ UNCHANGED <<settings, isDown, history>>

\* Still down after a sleep: a backoff after earlier failures, then the limits
\* and the lock.
StillDown ==
  /\ Judging /\ AllDown
  /\ \/ phase = "grace" /\ GoOn("sleep", "backoff")
     \/ phase \in {"grace", "backoff"} /\ GoOn("decided", phase)
     \/ phase = "delay" /\ GoOn("command", phase)

\* Limits, lock, and the router's uptime.
Decide ==
  /\ pc = "decided"
  /\ GoOn("idle", phase) \/ GoOn("sleep", "delay") \/ GoOn("command", phase)

\* RestartRouter fails, or the wait for the router begins.
Command ==
  /\ pc = "command"
  /\ GoOn("idle", phase) \/ GoOn("sleep", "wait")

\* VerifyRestartSuccess after its wait.
WaitOver ==
  /\ pc = "sleep" /\ phase = "wait"
  /\ StartPings("wait")
  /\ Observe
  /\ UNCHANGED <<settings, isDown>>

\* The record gets its VerificationOK; a retry may be scheduled.
RestartJudged ==
  /\ Judging /\ phase = "wait"
  /\ GoOn("idle", phase)

-----------------------------------------------------------------------------
(* The internet                                                             *)

LinkChanges(s) ==
  /\ \E l \in {"up", "lossy", "down"} \ {link[s]} :
       /\ link' = [link EXCEPT ![s] = l]
       /\ heldUp' = IF Good(l) THEN heldUp ELSE heldUp \ {s}
       /\ heldBad' = IF Good(l) THEN heldBad \ {s} ELSE heldBad
  /\ UNCHANGED <<settings, isDown, pc, phase, i, ups>>

-----------------------------------------------------------------------------
Line ==
  \/ CheckSite \/ PingNext
  \/ SomeUp \/ OutageSuspected \/ SleepOver \/ StillDown
  \/ Decide \/ Command \/ WaitOver \/ RestartJudged

Next ==
  \/ Line
  \/ WakeUp
  \/ \E s \in Sites : LinkChanges(s)

Spec == Init /\ [][Next]_vars

\* The ticker fires, sleeps end and pings have a timeout.
FairSpec == Spec /\ WF_vars(Line)

-----------------------------------------------------------------------------
(* Properties.                                                              *)

\* A site that was up all the time since the failure was noticed, among those
\* pinged by the verification that the restart rests on, prevents the restart:
\* no sequence of outages of single sites, each seen by one of the pings, adds
\* up to one with it, whatever sleeps lie in between (ping.go:112-131,
\* monitor.go:310-345, 385-400).
NoNeedlessRestart ==
  pc \in {"decided", "command"} => heldUp \cap Checked(Config) = {}

\* A failure is taken up only if neither the site itself nor any site of
\* highest priority was up all the time, and it is called off only if one of
\* the sites was not bad all the time (monitor.go:222-283, 318-345, 538-553).
VerdictsRight ==
  Judging /\ phase # "wait" =>
    IF AllDown THEN heldUp \cap Checked(Order) = {} /\ (phase = "check" => site \notin heldUp)
               ELSE ~(Checked(Order) \subseteq heldBad)

\* README: a restart is verified when at least 50% of the sites respond, and
\* only then, for every number of sites (router.go:649-654).
HalfRespond ==
  Judging /\ phase = "wait" =>
    IF RestartWorked THEN 2 * Cardinality(Checked(Config) \ heldBad) >= N
                     ELSE 2 * Cardinality(Checked(Config) \cap heldUp) < N

\* In an outage that lasts a verification finds everything down again and
\* again, be the sites down or only lossy.
OutageFound ==
  <>[](\A s \in Sites : link[s] # "up") => []<>(Judging /\ phase # "wait" /\ AllDown)

=============================================================================
