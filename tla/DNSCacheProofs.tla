----------------------------- MODULE DNSCacheProofs -----------------------------
(***************************************************************************)
(* Proofs, for any resolvers, addresses, TTL and duration of a lookup, of  *)
(* the safety properties of DNSCache.  What carries the argument is that   *)
(* an answer in flight was true as long ago as it has been in flight, so   *)
(* that whoever stores last stores an address no older than a lookup.      *)
(***************************************************************************)
EXTENDS DNSCache, TLAPS

\* An address the DNS has is not gone.
PresentNow == \A a \in records : gone[a] = 0

\* An answer under way was true when it was given.
AnswerTrue == \A r \in Resolvers : InFlight(r) => gone[answer[r]] <= age[r]

Inv == TypeOK /\ PresentNow /\ AnswerTrue /\ BoundedStaleness

Entries == [ip : Addresses, left : 0..TTL]

-----------------------------------------------------------------------------
LEMMA InitInv == Init => Inv
<1> SUFFICES ASSUME Init PROVE Inv
  OBVIOUS
<1>1. 0 \in 0..LongAgo /\ LongAgo \in 0..LongAgo /\ 0 \in 0..Slow
  BY TimesAssumption DEF LongAgo
<1>2. gone \in [Addresses -> 0..LongAgo]
  BY <1>1 DEF Init
<1>3. changed \in [Resolvers -> BOOLEAN]
  BY Zenon DEF Init
<1>4. TypeOK
  BY <1>1, <1>2, <1>3 DEF Init, TypeOK
<1>5. PresentNow
  BY DEF Init, PresentNow
<1>6. AnswerTrue /\ BoundedStaleness
  BY DEF Init, AnswerTrue, InFlight, BoundedStaleness, Fresh
<1> QED
  BY <1>4, <1>5, <1>6 DEF Inv

\* An entry one tick older is an entry.
LEMMA OlderEntry ==
  ASSUME NEW e \in Entries, e.left > 0
  PROVE  /\ [e EXCEPT !.left = @ - 1] \in Entries
         /\ [e EXCEPT !.left = @ - 1].ip = e.ip
         /\ [e EXCEPT !.left = @ - 1].left = e.left - 1
BY TimesAssumption DEF Entries

LEMMA TypeStep == TypeOK /\ Next => TypeOK'
<1> SUFFICES ASSUME TypeOK, Next PROVE TypeOK'
  OBVIOUS
<1> USE DEF TypeOK
<1>1. ASSUME NEW r \in Resolvers, Hit(r) PROVE TypeOK'
  <2>1. entry.ip \in Addresses
    BY <1>1 DEF Hit, Fresh
  <2> QED
    BY <1>1, <2>1 DEF Hit, Ping
<1>2. ASSUME NEW r \in Resolvers, Miss(r) PROVE TypeOK'
  BY <1>2 DEF Miss, Goto
<1>3. ASSUME NEW r \in Resolvers, Answer(r) PROVE TypeOK'
  BY <1>3, TimesAssumption DEF Answer, Goto
<1>4. ASSUME NEW r \in Resolvers, LookupFails(r) PROVE TypeOK'
  BY <1>4 DEF LookupFails, Goto, Ping
<1>5. ASSUME NEW r \in Resolvers, EmptyAnswer(r) PROVE TypeOK'
  <2>1. entry # NoEntry => entry.ip \in Addresses
    OBVIOUS
  <2> QED
    BY <1>5, <2>1 DEF EmptyAnswer, Goto, Ping
<1>6. ASSUME NEW r \in Resolvers, Compare(r) PROVE TypeOK'
  <2>1. changed' \in [Resolvers -> BOOLEAN]
    BY <1>6, Zenon DEF Compare
  <2>2. pc' \in [Resolvers -> {"idle", "lookup", "compare", "store"}]
    BY <1>6 DEF Compare, Goto
  <2> QED
    BY <1>6, <2>1, <2>2 DEF Compare
<1>7. ASSUME NEW r \in Resolvers, Store(r) PROVE TypeOK'
  BY <1>7, TimesAssumption DEF Store, Goto, Ping
<1>8. ASSUME CleanupExpired PROVE TypeOK'
  BY <1>8 DEF CleanupExpired
<1>9. ASSUME DNSChanges PROVE TypeOK'
  BY <1>9, TimesAssumption DEF DNSChanges, LongAgo
<1>10. ASSUME Tick PROVE TypeOK'
  <2>1. age' \in [Resolvers -> 0..Slow]
    BY <1>10, TimesAssumption DEF Tick
  <2>2. gone' \in [Addresses -> 0..LongAgo]
    BY <1>10, TimesAssumption DEF Tick, Later, LongAgo
  <2>3. entry' \in Entries \cup {NoEntry}
    BY <1>10, OlderEntry DEF Tick, Fresh, Entries
  <2> QED
    BY <1>10, <2>1, <2>2, <2>3 DEF Tick, Entries
<1> QED
  BY <1>1, <1>2, <1>3, <1>4, <1>5, <1>6, <1>7, <1>8, <1>9, <1>10 DEF Next, Lookup

LEMMA PresentStep == TypeOK /\ PresentNow /\ Next => PresentNow'
<1> SUFFICES ASSUME TypeOK, PresentNow, Next PROVE PresentNow'
  OBVIOUS
<1>1. CASE DNSChanges \/ Tick
  BY <1>1 DEF DNSChanges, Tick, PresentNow, TypeOK
<1>2. CASE UNCHANGED <<records, gone>>
  BY <1>2 DEF PresentNow
<1> QED
  BY <1>1, <1>2 DEF Next, Lookup, Hit, Miss, Answer, LookupFails, EmptyAnswer, Compare, Store,
                    CleanupExpired

LEMMA AnswerStep == Inv /\ Next => AnswerTrue'
<1> SUFFICES ASSUME Inv, Next, NEW q \in Resolvers, InFlight(q)'
             PROVE  (gone[answer[q]] <= age[q])'
  BY DEF AnswerTrue
<1> USE DEF Inv, TypeOK
<1>1. ASSUME NEW r \in Resolvers, Answer(r) PROVE (gone[answer[q]] <= age[q])'
  <2>1. CASE q = r
    <3>1. answer'[q] \in records /\ age'[q] = 0
      BY <1>1, <2>1 DEF Answer
    <3> QED
      BY <1>1, <3>1 DEF Answer, PresentNow
  <2>2. CASE q # r
    <3>1. InFlight(q) /\ answer'[q] = answer[q] /\ age'[q] = age[q]
      BY <1>1, <2>2 DEF Answer, Goto, InFlight
    <3> QED
      BY <1>1, <3>1 DEF Answer, AnswerTrue
  <2> QED
    BY <2>1, <2>2
<1>2. ASSUME NEW r \in Resolvers, Compare(r) PROVE (gone[answer[q]] <= age[q])'
  <2>1. InFlight(q)
    BY <1>2 DEF Compare, Goto, InFlight
  <2> QED
    BY <1>2, <2>1 DEF Compare, AnswerTrue
<1>3. ASSUME NEW r \in Resolvers, Hit(r) \/ Miss(r) \/ LookupFails(r) \/ EmptyAnswer(r) \/ Store(r)
      PROVE  (gone[answer[q]] <= age[q])'
  <2>1. InFlight(q)
    BY <1>3 DEF Hit, Miss, LookupFails, EmptyAnswer, Store, Goto, InFlight
  <2>2. UNCHANGED <<gone, answer, age>>
    BY <1>3 DEF Hit, Miss, LookupFails, EmptyAnswer, Store
  <2> QED
    BY <2>1, <2>2 DEF AnswerTrue
<1>4. ASSUME CleanupExpired PROVE (gone[answer[q]] <= age[q])'
  BY <1>4 DEF CleanupExpired, InFlight, AnswerTrue
<1>5. ASSUME DNSChanges PROVE (gone[answer[q]] <= age[q])'
  <2>1. InFlight(q) /\ answer'[q] = answer[q] /\ age'[q] = age[q]
    BY <1>5 DEF DNSChanges, InFlight
  <2>2. gone'[answer[q]] <= gone[answer[q]]
    BY <1>5, TimesAssumption DEF DNSChanges, LongAgo
  <2>3. gone[answer[q]] <= age[q]
    BY <2>1 DEF AnswerTrue
  <2> QED
    BY <1>5, <2>1, <2>2, <2>3, TypeStep, TimesAssumption DEF LongAgo
<1>6. ASSUME Tick PROVE (gone[answer[q]] <= age[q])'
  <2>1. InFlight(q) /\ answer'[q] = answer[q]
    BY <1>6 DEF Tick, InFlight
  <2>2. age'[q] = age[q] + 1
    BY <1>6, <2>1 DEF Tick
  <2>3. gone'[answer[q]] <= gone[answer[q]] + 1
    BY <1>6, TimesAssumption DEF Tick, Later, LongAgo
  <2>4. gone[answer[q]] <= age[q]
    BY <2>1 DEF AnswerTrue
  <2> QED
    BY <2>1, <2>2, <2>3, <2>4, TypeStep, TimesAssumption DEF LongAgo
<1> QED
  BY <1>1, <1>2, <1>3, <1>4, <1>5, <1>6 DEF Next, Lookup

LEMMA StalenessStep == Inv /\ Next => BoundedStaleness'
<1> SUFFICES ASSUME Inv, Next, Fresh(entry)'
             PROVE  (gone[entry.ip] <= LongAgo - entry.left)'
  BY DEF BoundedStaleness
<1> USE DEF Inv, TypeOK
<1>1. ASSUME NEW r \in Resolvers, Store(r) PROVE (gone[entry.ip] <= LongAgo - entry.left)'
  <2>1. entry'.ip = answer[r] /\ entry'.left = TTL /\ gone' = gone
    BY <1>1 DEF Store
  <2>2. gone[answer[r]] <= age[r]
    BY <1>1 DEF Store, Goto, InFlight, AnswerTrue
  <2> QED
    BY <2>1, <2>2, TimesAssumption DEF LongAgo
<1>2. ASSUME NEW r \in Resolvers,
             Hit(r) \/ Miss(r) \/ Answer(r) \/ LookupFails(r) \/ EmptyAnswer(r) \/ Compare(r)
      PROVE  (gone[entry.ip] <= LongAgo - entry.left)'
  <2>1. UNCHANGED <<gone, entry>>
    BY <1>2 DEF Hit, Miss, Answer, LookupFails, EmptyAnswer, Compare
  <2> QED
    BY <2>1 DEF BoundedStaleness, Fresh
<1>3. CASE CleanupExpired
  BY <1>3 DEF CleanupExpired, Fresh
<1>4. CASE DNSChanges
  <2>1. Fresh(entry) /\ entry' = entry
    BY <1>4 DEF DNSChanges, Fresh
  <2>2. entry \in Entries
    BY <2>1 DEF Fresh, Entries
  <2>3. gone'[entry.ip] <= gone[entry.ip]
    BY <1>4, <2>2, TimesAssumption DEF DNSChanges, LongAgo, Entries
  <2>4. gone'[entry.ip] \in Nat
    BY <1>4, <2>2, TypeStep DEF Entries
  <2> QED
    BY <2>1, <2>2, <2>3, <2>4, TimesAssumption DEF BoundedStaleness, LongAgo, Entries
<1>5. CASE Tick
  <2>1. Fresh(entry)
    BY <1>5 DEF Tick, Fresh
  <2>2. entry \in Entries /\ entry.left > 0
    BY <2>1 DEF Fresh, Entries
  <2>3. entry'.ip = entry.ip /\ entry'.left = entry.left - 1
    BY <1>5, <2>1, <2>2, OlderEntry DEF Tick
  <2>4. gone'[entry.ip] <= gone[entry.ip] + 1
    BY <1>5, <2>2, TimesAssumption DEF Tick, Later, LongAgo, Entries
  <2>5. gone'[entry.ip] \in Nat
    BY <2>2, TypeStep DEF Entries
  <2>6. gone[entry.ip] <= LongAgo - entry.left
    BY <2>1 DEF BoundedStaleness
  <2>7. gone[entry.ip] \in Nat /\ entry.left \in Nat /\ LongAgo \in Nat
    BY <2>2, TimesAssumption DEF Entries, LongAgo
  <2> QED
    BY <2>3, <2>4, <2>5, <2>6, <2>7
<1> QED
  BY <1>1, <1>2, <1>3, <1>4, <1>5 DEF Next, Lookup

LEMMA InvStep == Inv /\ [Next]_vars => Inv'
<1> SUFFICES ASSUME Inv, [Next]_vars PROVE Inv'
  OBVIOUS
<1>1. CASE Next
  BY <1>1, TypeStep, PresentStep, AnswerStep, StalenessStep DEF Inv
<1>2. CASE UNCHANGED vars
  BY <1>2 DEF vars, Inv, TypeOK, PresentNow, AnswerTrue, InFlight, BoundedStaleness, Fresh
<1> QED
  BY <1>1, <1>2

-----------------------------------------------------------------------------
\* Every value the variables take is of its type (dns_cache.go).
THEOREM TypeCorrect == Spec => []TypeOK
<1>1. Inv => TypeOK
  BY DEF Inv
<1> QED
  BY <1>1, InitInv, InvStep, PTL DEF Spec

\* An address served from the cache was in the DNS no longer ago than a TTL
\* and a lookup, whatever the order in which lookups are answered and stored
\* (dns_cache.go:44-118).
THEOREM Staleness == Spec => []BoundedStaleness
<1>1. Inv => BoundedStaleness
  BY DEF Inv
<1> QED
  BY <1>1, InitInv, InvStep, PTL DEF Spec
=============================================================================
