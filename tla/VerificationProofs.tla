-------------------------- MODULE VerificationProofs --------------------------
(* What is proved of Verification: its types, that no site that was up all    *)
(* the time stands against a restart, and that verdicts rest on what was so.  *)
EXTENDS Verification, FiniteSetTheorems, TLAPS

-----------------------------------------------------------------------------
(* The number of sites that are pinged                                        *)

LEMMA TotalType == Total \in Nat /\ Total >= 2
  BY SitesAssumption, FS_CardinalityType DEF Total

LEMMA NType ==
  ASSUME count \in 1..(Total + 1)
  PROVE  N \in 1..Total
  BY TotalType DEF N

\* Both orders are orders of the sites.
LEMMA OrderType ==
  ASSUME TypeOK
  PROVE  Order \in [1..Total -> Sites]
  BY OrderAssumption DEF Order, Orders, TypeOK

-----------------------------------------------------------------------------
(* The invariant: the history agrees with the present, and what the pings of  *)
(* a verification have found so far is what its verdict will rest on.         *)

HistoryTrue ==
  \A s \in Sites : (s \in heldUp => Good(link[s])) /\ (s \in heldBad => ~Good(link[s]))

\* None of the sites pinged so far was up all the time.
NoneHeldUp == \A j \in 1..N : j < i => Order[j] \notin heldUp

\* One of the sites pinged so far was not bad all the time.
OneNotBad == \E j \in 1..N : j < i /\ Order[j] \notin heldBad

PingsTrue ==
  pc = "ping" =>
    /\ i <= N + 1 /\ ups < i
    /\ ups = 0 => NoneHeldUp
    /\ ups # 0 => OneNotBad
    /\ phase = "check" => site \notin heldUp

SleepsTrue == pc \in {"sleep", "decided", "command"} => phase \in Sleeps

IInv == TypeOK /\ HistoryTrue /\ PingsTrue /\ SleepsTrue /\ NoNeedlessRestart

LEMMA InitIInv == Init => IInv
<1> SUFFICES ASSUME Init
             PROVE  IInv
  OBVIOUS
<1>1. TypeOK
  BY TotalType DEF Init, TypeOK, Sleeps
<1>2. HistoryTrue /\ PingsTrue /\ SleepsTrue /\ NoNeedlessRestart
  BY DEF Init, HistoryTrue, PingsTrue, SleepsTrue, NoNeedlessRestart
<1>3. QED BY <1>1, <1>2 DEF IInv

\* A new history is true.
LEMMA ObserveTrue ==
  ASSUME TypeOK, Observe
  PROVE  HistoryTrue' /\ heldUp' \in SUBSET Sites /\ heldBad' \in SUBSET Sites /\ link' = link
  BY DEF Observe, HistoryTrue, Good

\* When the pings begin nothing has been found.
LEMMA StartTrue ==
  ASSUME IInv, NEW why \in Sleeps \cup {"check", "retry"}, StartPings(why), UNCHANGED settings,
         isDown' \in BOOLEAN, link' \in [Sites -> {"up", "lossy", "down"}],
         heldUp' \in SUBSET Sites, heldBad' \in SUBSET Sites, HistoryTrue',
         why = "check" => site \notin heldUp'
  PROVE  IInv'
<1>1. TypeOK'
  BY TotalType DEF IInv, TypeOK, StartPings, settings
<1>2. N' = N /\ N \in 1..Total
  BY NType DEF N, settings, IInv, TypeOK
<1>3. PingsTrue'
  <2>1. i' = 1 /\ ups' = 0 /\ phase' = why /\ pc' = "ping" /\ site' = site
    BY DEF StartPings, settings
  <2>2. NoneHeldUp'
    BY <1>2, <2>1, TotalType DEF NoneHeldUp
  <2>3. i' <= N' + 1 /\ ups' < i'
    BY <1>2, <2>1, TotalType
  <2>4. QED BY <2>1, <2>2, <2>3 DEF PingsTrue
<1>4. SleepsTrue' /\ NoNeedlessRestart'
  BY DEF StartPings, SleepsTrue, NoNeedlessRestart
<1>5. QED BY <1>1, <1>3, <1>4 DEF IInv

\* After a verdict only the place matters.
LEMMA GoOnTrue ==
  ASSUME IInv, NEW place \in {"idle", "sleep", "decided", "command"},
         NEW why \in Sleeps \cup {"check", "retry"}, GoOn(place, why),
         place # "idle" => why \in Sleeps,
         place \in {"decided", "command"} => heldUp \cap Checked(Config) = {}
  PROVE  IInv'
<1>1. TypeOK'
  <2>1. isDown' = isDown
    BY DEF GoOn
  <2>2. isDown' \in BOOLEAN
    BY <2>1, Zenon DEF IInv, TypeOK
  <2>3. QED BY <2>2 DEF IInv, TypeOK, GoOn, settings, history
<1>2. HistoryTrue'
  BY DEF IInv, HistoryTrue, GoOn, history, Good
<1>3. PingsTrue' /\ SleepsTrue'
  BY DEF PingsTrue, SleepsTrue, GoOn
<1>4. NoNeedlessRestart'
  BY DEF NoNeedlessRestart, GoOn, settings, history, Checked, N
<1>5. QED BY <1>1, <1>2, <1>3, <1>4 DEF IInv

-----------------------------------------------------------------------------
(* The steps                                                                  *)

LEMMA CheckSiteKeepsIInv ==
  ASSUME IInv, CheckSite
  PROVE  IInv'
<1>1. /\ HistoryTrue' /\ heldUp' \in SUBSET Sites /\ heldBad' \in SUBSET Sites /\ link' = link
      /\ isDown' \in BOOLEAN /\ UNCHANGED settings
  <2>1. isDown' \in BOOLEAN
    BY Zenon DEF CheckSite
  <2>2. QED BY <2>1, ObserveTrue DEF CheckSite, IInv
<1>2. CASE Good(link[site])
  <2>1. UNCHANGED <<pc, phase, i, ups>> /\ pc = "idle"
    BY <1>2 DEF CheckSite
  <2>2. TypeOK'
    BY <1>1, <2>1 DEF IInv, TypeOK, settings
  <2>3. QED BY <1>1, <2>1, <2>2 DEF IInv, PingsTrue, SleepsTrue, NoNeedlessRestart
<1>3. CASE ~Good(link[site])
  <2>1. StartPings("check")
    BY <1>3 DEF CheckSite
  <2>2. site \notin heldUp'
    BY <1>3 DEF CheckSite, Observe
  <2>3. QED BY <1>1, <2>1, <2>2, StartTrue DEF IInv, TypeOK
<1>4. QED BY <1>2, <1>3

LEMMA StartsKeepIInv ==
  ASSUME IInv, WakeUp \/ SleepOver \/ WaitOver
  PROVE  IInv'
<1>1. CASE WakeUp
  BY <1>1, ObserveTrue, StartTrue DEF WakeUp, IInv, TypeOK
<1>2. CASE WaitOver
  BY <1>2, ObserveTrue, StartTrue DEF WaitOver, IInv, TypeOK, Sleeps
<1>3. CASE SleepOver
  <2>1. HistoryTrue'
    BY <1>3 DEF SleepOver, history, IInv, HistoryTrue, Good
  <2>2. pc = "sleep" /\ phase \in Sleeps \cup {"check", "retry"} /\ StartPings(phase)
    BY <1>3 DEF SleepOver, IInv, TypeOK
  <2>3. phase # "check"
    BY <2>2 DEF IInv, SleepsTrue, Sleeps
  <2>4. /\ UNCHANGED settings /\ isDown' \in BOOLEAN /\ link' \in [Sites -> {"up", "lossy", "down"}]
        /\ heldUp' \in SUBSET Sites /\ heldBad' \in SUBSET Sites
    BY <1>3 DEF SleepOver, history, IInv, TypeOK
  <2>5. QED BY <2>1, <2>2, <2>3, <2>4, StartTrue
<1>4. QED BY <1>1, <1>2, <1>3

\* One ping more: a good answer shows a site that was not bad all the time,
\* any other one that was not up all the time.
LEMMA PingNextKeepsIInv ==
  ASSUME IInv, PingNext
  PROVE  IInv'
<1>0. /\ N' = N /\ N \in 1..Total /\ Order' = Order /\ Order \in [1..Total -> Sites]
      /\ UNCHANGED <<settings, isDown, history, pc, phase>>
      /\ pc = "ping" /\ i \in 1..N /\ i' = i + 1
  BY NType, OrderType DEF IInv, TypeOK, PingNext, N, Order, settings
<1>s. Order[i] \in Sites
  BY <1>0, TotalType
<1>1. ups' = ups \/ ups' = ups + 1
  BY DEF PingNext
<1>2. ups \in Nat /\ ups < i
  BY <1>0 DEF IInv, TypeOK, PingsTrue
<1>3. TypeOK'
  <2>1. i' \in 1..(Total + 1) /\ ups' \in 0..Total
    BY <1>0, <1>1, <1>2, TotalType
  <2>2. QED BY <1>0, <2>1 DEF IInv, TypeOK, settings, history
<1>4. HistoryTrue'
  BY <1>0 DEF IInv, HistoryTrue, history, Good
<1>5. PingsTrue'
  <2>1. i' <= N' + 1 /\ ups' < i'
    BY <1>0, <1>1, <1>2
  <2>2. ups' = 0 => NoneHeldUp'
    <3>1. ASSUME ups' = 0, NEW j \in 1..N, j < i + 1
          PROVE  Order[j] \notin heldUp
      <4>1. ups = 0 /\ ~Good(link[Order[i]])
        BY <1>0, <1>2, <3>1 DEF PingNext
      <4>2. Order[i] \in Sites /\ Order[i] \notin heldUp
        BY <1>s, <4>1 DEF IInv, HistoryTrue
      <4>3. j < i => Order[j] \notin heldUp
        BY <1>0, <4>1 DEF IInv, PingsTrue, NoneHeldUp
      <4>4. QED BY <1>0, <3>1, <4>2, <4>3
    <3>2. QED BY <1>0, <3>1 DEF NoneHeldUp, history
  <2>3. ups' # 0 => OneNotBad'
    <3>1. CASE Good(link[Order[i]])
      <4>1. Order[i] \in Sites /\ Order[i] \notin heldBad
        BY <1>s, <3>1 DEF IInv, HistoryTrue
      <4>2. QED BY <1>0, <4>1 DEF OneNotBad, history
    <3>2. CASE ~Good(link[Order[i]])
      BY <1>0, <3>2 DEF PingNext, IInv, PingsTrue, OneNotBad, history
    <3>3. QED BY <3>1, <3>2
  <2>4. phase' = "check" => site' \notin heldUp'
    BY <1>0 DEF IInv, PingsTrue, settings, history
  <2>5. QED BY <2>1, <2>2, <2>3, <2>4 DEF PingsTrue
<1>6. SleepsTrue' /\ NoNeedlessRestart'
  BY <1>0 DEF SleepsTrue, NoNeedlessRestart
<1>7. QED BY <1>3, <1>4, <1>5, <1>6 DEF IInv

\* A verdict of all down: none of the sites pinged was up all the time.
LEMMA AllDownVerdict ==
  ASSUME IInv, Judging, AllDown
  PROVE  heldUp \cap Checked(Order) = {}
<1>1. N \in 1..Total /\ i \in Nat
  BY NType DEF IInv, TypeOK
<1>2. NoneHeldUp /\ \A j \in 1..N : j < i
  BY <1>1 DEF IInv, PingsTrue, Judging, AllDown
<1>3. QED BY <1>2 DEF NoneHeldUp, Checked

LEMMA SomeUpVerdict ==
  ASSUME IInv, Judging, ~AllDown
  PROVE  ~(Checked(Order) \subseteq heldBad)
<1>1. PICK j \in 1..N : Order[j] \notin heldBad
  BY DEF IInv, PingsTrue, Judging, AllDown, OneNotBad
<1>2. QED BY <1>1 DEF Checked

LEMMA VerdictsKeepIInv ==
  ASSUME IInv, SomeUp \/ OutageSuspected \/ StillDown \/ Decide \/ Command \/ RestartJudged
  PROVE  IInv'
<1>0. phase \in Sleeps \cup {"check", "retry"}
  BY DEF IInv, TypeOK
<1>1. CASE SomeUp \/ RestartJudged
  BY <1>0, <1>1, GoOnTrue DEF SomeUp, RestartJudged
<1>2. CASE OutageSuspected \/ StillDown
  <2>1. StillDown => heldUp \cap Checked(Config) = {}
    BY AllDownVerdict DEF StillDown, Order
  <2>2. QED BY <1>0, <1>2, <2>1, GoOnTrue DEF OutageSuspected, StillDown, Sleeps
<1>4. CASE Decide \/ Command
  <2>1. heldUp \cap Checked(Config) = {} /\ phase \in Sleeps
    BY <1>4 DEF Decide, Command, IInv, NoNeedlessRestart, SleepsTrue
  <2>2. QED BY <1>0, <1>4, <2>1, GoOnTrue DEF Decide, Command, Sleeps
<1>5. QED BY <1>1, <1>2, <1>4

\* A link that changes only takes its site out of the history.
LEMMA LinkKeepsIInv ==
  ASSUME IInv, NEW s \in Sites, LinkChanges(s)
  PROVE  IInv'
<1>0. /\ UNCHANGED <<settings, isDown, pc, phase, i, ups>>
      /\ heldUp' \subseteq heldUp /\ heldBad' \subseteq heldBad
      /\ N' = N /\ Order' = Order
  BY DEF LinkChanges, settings, N, Order
<1>1. PICK l \in {"up", "lossy", "down"} :
         /\ link' = [link EXCEPT ![s] = l]
         /\ heldUp' = IF Good(l) THEN heldUp ELSE heldUp \ {s}
         /\ heldBad' = IF Good(l) THEN heldBad \ {s} ELSE heldBad
  BY DEF LinkChanges
<1>2. TypeOK'
  BY <1>0, <1>1 DEF IInv, TypeOK, settings
<1>3. HistoryTrue'
  BY <1>1 DEF IInv, TypeOK, HistoryTrue, Good
<1>4. PingsTrue'
  BY <1>0 DEF IInv, PingsTrue, NoneHeldUp, OneNotBad, settings
<1>5. SleepsTrue' /\ NoNeedlessRestart'
  BY <1>0 DEF IInv, SleepsTrue, NoNeedlessRestart, Checked, settings
<1>6. QED BY <1>2, <1>3, <1>4, <1>5 DEF IInv

LEMMA NextIInv == IInv /\ [Next]_vars => IInv'
<1> SUFFICES ASSUME IInv, [Next]_vars
             PROVE  IInv'
  OBVIOUS
<1>1. CASE Line \/ WakeUp
  BY <1>1, CheckSiteKeepsIInv, StartsKeepIInv, PingNextKeepsIInv, VerdictsKeepIInv DEF Line
<1>2. CASE \E s \in Sites : LinkChanges(s)
  BY <1>2, LinkKeepsIInv
<1>3. CASE UNCHANGED vars
  <2>1. UNCHANGED <<settings, isDown, history, pc, phase, i, ups>> /\ N' = N /\ Order' = Order
    BY <1>3 DEF vars, settings, N, Order
  <2>2. TypeOK' /\ HistoryTrue'
    BY <2>1 DEF IInv, TypeOK, HistoryTrue, Good, settings, history
  <2>3. PingsTrue' /\ SleepsTrue' /\ NoNeedlessRestart'
    BY <2>1 DEF IInv, PingsTrue, NoneHeldUp, OneNotBad, SleepsTrue, NoNeedlessRestart, Checked, settings, history
  <2>4. QED BY <2>2, <2>3 DEF IInv
<1>4. QED BY <1>1, <1>2, <1>3 DEF Next

-----------------------------------------------------------------------------

\* Types hold throughout (ping.go:91-137, monitor.go:222-345).
THEOREM TypeCorrect == Spec => []TypeOK
<1>1. IInv => TypeOK
  BY DEF IInv
<1>2. QED BY InitIInv, NextIInv, <1>1, PTL DEF Spec

\* Whatever the sites do one after another, a restart is not decided against
\* a verified site that was up all the time (monitor.go:313-345, 389-400).
THEOREM RestartIsNeeded == Spec => []NoNeedlessRestart
<1>1. IInv => NoNeedlessRestart
  BY DEF IInv
<1>2. QED BY InitIInv, NextIInv, <1>1, PTL DEF Spec

\* Every verdict, for any number of sites and any verification_site_count,
\* rests on what was so (ping.go:112-131).
THEOREM VerdictsHold == Spec => []VerdictsRight
<1>1. IInv => VerdictsRight
  <2> SUFFICES ASSUME IInv, Judging, phase # "wait"
               PROVE  IF AllDown THEN heldUp \cap Checked(Order) = {} /\ (phase = "check" => site \notin heldUp)
                                 ELSE ~(Checked(Order) \subseteq heldBad)
    BY DEF VerdictsRight
  <2>1. phase = "check" => site \notin heldUp
    BY DEF IInv, PingsTrue, Judging
  <2>2. QED BY <2>1, AllDownVerdict, SomeUpVerdict
<1>2. QED BY InitIInv, NextIInv, <1>1, PTL DEF Spec

-----------------------------------------------------------------------------
(* After a restart the verdict counts, so the proof must: of the sites that   *)
(* were pinged, no more were up all the time than answered, and no fewer were *)
(* not bad all the time.                                                      *)

Pinged == {Order[j] : j \in 1..(i - 1)}

CountsTrue ==
  pc = "ping" =>
    /\ ups <= Cardinality(Pinged \ heldBad)
    /\ Cardinality(Pinged \cap heldUp) <= ups

LEMMA SitesFinite ==
  ASSUME NEW S \in SUBSET Sites
  PROVE  /\ IsFiniteSet(S) /\ Cardinality(S) \in Nat
         /\ \A R \in SUBSET S : Cardinality(R) <= Cardinality(S)
<1>1. IsFiniteSet(S)
  BY SitesAssumption, FS_Subset
<1>2. QED BY <1>1, FS_Subset, FS_CardinalityType

LEMMA PingedSites ==
  ASSUME IInv, pc = "ping"
  PROVE  Pinged \in SUBSET Sites
<1>1. \A j \in 1..(i - 1) : j \in 1..Total
  BY NType, TotalType DEF IInv, TypeOK, PingsTrue
<1>2. QED BY <1>1, OrderType DEF Pinged, IInv

\* Nothing is counted when the pings begin.
LEMMA StartCounts ==
  ASSUME IInv, pc' = "ping" => i' = 1 /\ ups' = 0
  PROVE  CountsTrue'
<1> SUFFICES ASSUME pc' = "ping"
             PROVE  ups' <= Cardinality(Pinged' \ heldBad') /\ Cardinality(Pinged' \cap heldUp') <= ups'
  BY DEF CountsTrue
<1>1. Pinged' = {}
  BY DEF Pinged
<1>2. Pinged' \ heldBad' = {} /\ Pinged' \cap heldUp' = {}
  BY <1>1
<1>3. QED BY <1>2, FS_EmptySet

\* The next ping is of a site not pinged before.
LEMMA PingNextCounts ==
  ASSUME IInv, CountsTrue, PingNext
  PROVE  CountsTrue'
<1> DEFINE s == Order[i]
           P == Pinged
<1>1. /\ pc = "ping" /\ i \in 1..N /\ i' = i + 1 /\ N \in 1..Total
      /\ Order' = Order /\ heldUp' = heldUp /\ heldBad' = heldBad /\ ups \in Nat
  BY NType DEF IInv, TypeOK, PingNext, Order, settings, history
<1>2. Order \in [1..Total -> Sites] /\ \A j, k \in 1..Total : Order[j] = Order[k] => j = k
  BY OrderAssumption DEF Order, Orders, IInv, TypeOK
<1>3. s \in Sites /\ s \notin P
  BY <1>1, <1>2, TotalType DEF Pinged
<1>4. Pinged' = P \cup {s}
  <2>1. 1..(i' - 1) = 1..(i - 1) \cup {i}
    BY <1>1, TotalType
  <2>2. QED BY <1>1, <2>1 DEF Pinged
<1>5. P \in SUBSET Sites
  BY <1>1, PingedSites
<1>6. ups <= Cardinality(P \ heldBad) /\ Cardinality(P \cap heldUp) <= ups
  BY <1>1 DEF CountsTrue
<1> HIDE DEF P, s
<1>7. /\ IsFiniteSet(P \ heldBad) /\ IsFiniteSet(P \cap heldUp)
      /\ Cardinality(P \ heldBad) \in Nat /\ Cardinality(P \cap heldUp) \in Nat
  BY <1>5, SitesFinite
<1>8. CASE Good(link[s])
  <2>1. ups' = ups + 1
    BY <1>8 DEF PingNext, s
  <2>2. s \notin heldBad
    BY <1>3, <1>8 DEF IInv, HistoryTrue
  <2>3. Pinged' \ heldBad' = (P \ heldBad) \cup {s} /\ s \notin P \ heldBad
    BY <1>1, <1>3, <1>4, <2>2
  <2>4. Cardinality(Pinged' \ heldBad') = Cardinality(P \ heldBad) + 1
    BY <1>7, <2>3, FS_AddElement
  <2>5. Cardinality(Pinged' \cap heldUp') <= Cardinality(P \cap heldUp) + 1
    <3>1. /\ Cardinality((P \cap heldUp) \cup {s}) = Cardinality(P \cap heldUp) + 1
          /\ (P \cap heldUp) \cup {s} \in SUBSET Sites
      BY <1>3, <1>5, <1>7, FS_AddElement
    <3>2. Pinged' \cap heldUp' \in SUBSET ((P \cap heldUp) \cup {s})
      BY <1>1, <1>4
    <3>3. Cardinality(Pinged' \cap heldUp') <= Cardinality((P \cap heldUp) \cup {s})
      BY <3>1, <3>2, SitesFinite
    <3>4. QED BY <3>1, <3>3
  <2>6. Cardinality(Pinged' \cap heldUp') \in Nat
    BY <1>1, <1>3, <1>4, <1>5, SitesFinite
  <2>7. QED BY <1>1, <1>6, <1>7, <2>1, <2>4, <2>5, <2>6 DEF CountsTrue
<1>9. CASE ~Good(link[s])
  <2>1. ups' = ups
    BY <1>9 DEF PingNext, s
  <2>2. s \notin heldUp
    BY <1>3, <1>9 DEF IInv, HistoryTrue
  <2>3. Pinged' \cap heldUp' = P \cap heldUp
    BY <1>1, <1>4, <2>2
  <2>4. Pinged' \ heldBad' \in SUBSET Sites /\ P \ heldBad \in SUBSET (Pinged' \ heldBad')
    BY <1>1, <1>3, <1>4, <1>5
  <2>5. /\ Cardinality(P \ heldBad) <= Cardinality(Pinged' \ heldBad')
        /\ Cardinality(Pinged' \ heldBad') \in Nat
    BY <2>4, SitesFinite
  <2>6. QED BY <1>1, <1>6, <1>7, <2>1, <2>3, <2>5 DEF CountsTrue
<1>10. QED BY <1>8, <1>9

\* A link that changes leaves fewer sites to account for on either side.
LEMMA LinkCounts ==
  ASSUME IInv, CountsTrue, NEW s \in Sites, LinkChanges(s)
  PROVE  CountsTrue'
<1>1. /\ UNCHANGED <<pc, i, ups>> /\ Pinged' = Pinged
      /\ heldUp' \in SUBSET heldUp /\ heldBad' \in SUBSET heldBad
  BY DEF LinkChanges, settings, Order, Pinged
<1> SUFFICES ASSUME pc = "ping"
             PROVE  ups <= Cardinality(Pinged \ heldBad') /\ Cardinality(Pinged \cap heldUp') <= ups
  BY <1>1 DEF CountsTrue
<1> DEFINE P == Pinged
<1>2. P \in SUBSET Sites /\ ups \in Nat
  BY PingedSites DEF IInv, TypeOK
<1>3. ups <= Cardinality(P \ heldBad) /\ Cardinality(P \cap heldUp) <= ups
  BY DEF CountsTrue
<1> HIDE DEF P
<1>4. P \ heldBad' \in SUBSET Sites /\ P \ heldBad \in SUBSET (P \ heldBad')
  BY <1>1, <1>2
<1>5. P \cap heldUp \in SUBSET Sites /\ P \cap heldUp' \in SUBSET (P \cap heldUp)
  BY <1>1, <1>2
<1>6. /\ Cardinality(P \ heldBad) <= Cardinality(P \ heldBad')
      /\ Cardinality(P \cap heldUp') <= Cardinality(P \cap heldUp)
      /\ Cardinality(P \ heldBad) \in Nat /\ Cardinality(P \ heldBad') \in Nat
      /\ Cardinality(P \cap heldUp) \in Nat /\ Cardinality(P \cap heldUp') \in Nat
  <2>1. P \ heldBad \in SUBSET Sites /\ P \cap heldUp' \in SUBSET Sites
    BY <1>2
  <2>2. QED BY <1>4, <1>5, <2>1, SitesFinite
<1>7. ups <= Cardinality(P \ heldBad') /\ Cardinality(P \cap heldUp') <= ups
  BY <1>2, <1>3, <1>6
<1>8. QED BY <1>7 DEF P

LEMMA NextCounts == IInv /\ CountsTrue /\ [Next]_vars => CountsTrue'
<1> SUFFICES ASSUME IInv, CountsTrue, [Next]_vars
             PROVE  CountsTrue'
  OBVIOUS
<1>1. CASE CheckSite
  <2>1. pc' = "ping" => i' = 1 /\ ups' = 0
    BY <1>1 DEF CheckSite, StartPings
  <2>2. QED BY <2>1, StartCounts
<1>2. CASE WakeUp \/ SleepOver \/ WaitOver
  BY <1>2, StartCounts DEF WakeUp, SleepOver, WaitOver, StartPings
<1>3. CASE SomeUp \/ OutageSuspected \/ StillDown \/ Decide \/ Command \/ RestartJudged
  <2>1. pc' # "ping"
    BY <1>3 DEF SomeUp, OutageSuspected, StillDown, Decide, Command, RestartJudged, GoOn
  <2>2. QED BY <2>1 DEF CountsTrue
<1>4. CASE \E s \in Sites : LinkChanges(s)
  BY <1>4, LinkCounts
<1>5. CASE UNCHANGED vars
  BY <1>5 DEF vars, settings, history, CountsTrue, Pinged, Order
<1>6. QED BY <1>1, <1>2, <1>3, <1>4, <1>5, PingNextCounts DEF Next, Line

\* After a restart the verdict is success exactly when at least half of the
\* sites that are verified answer, for any number of sites (router.go:625-653).
THEOREM HalfIsEnough == Spec => []HalfRespond
<1>1. Init => IInv /\ CountsTrue
  BY InitIInv DEF Init, CountsTrue
<1>2. (IInv /\ CountsTrue) /\ [Next]_vars => (IInv /\ CountsTrue)'
  BY NextIInv, NextCounts
<1>3. IInv /\ CountsTrue => HalfRespond
  <2> SUFFICES ASSUME IInv, CountsTrue, Judging, phase = "wait"
               PROVE  IF RestartWorked THEN 2 * Cardinality(Checked(Config) \ heldBad) >= N
                                       ELSE 2 * Cardinality(Checked(Config) \cap heldUp) < N
    BY DEF HalfRespond
  <2>1. N \in 1..Total /\ i = N + 1 /\ ups \in Nat /\ pc = "ping"
    BY NType, TotalType DEF IInv, TypeOK, PingsTrue, Judging
  <2>2. Pinged = Checked(Config)
    BY <2>1, TotalType DEF Pinged, Checked, Order
  <2>3. /\ ups <= Cardinality(Checked(Config) \ heldBad)
        /\ Cardinality(Checked(Config) \cap heldUp) <= ups
    BY <2>1, <2>2 DEF CountsTrue
  <2>4. Checked(Config) \ heldBad \in SUBSET Sites /\ Checked(Config) \cap heldUp \in SUBSET Sites
    BY <2>1, <2>2, PingedSites
  <2>5. /\ Cardinality(Checked(Config) \ heldBad) \in Nat
        /\ Cardinality(Checked(Config) \cap heldUp) \in Nat
    BY <2>4, SitesFinite
  <2>6. QED BY <2>1, <2>3, <2>5, TotalType DEF RestartWorked, Threshold
<1>4. QED BY <1>1, <1>2, <1>3, PTL DEF Spec
=============================================================================
