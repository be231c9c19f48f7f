------------------------------- MODULE DNSCache -------------------------------
(***************************************************************************)
(* The DNS cache of dns_cache.go and its one caller, PingSiteWithDNS.      *)
(* Resolve checks the cache under the read lock, looks the name up without *)
(* a lock, reads the old entry, and stores the new one under the write     *)
(* lock: four critical sections, between any two of which another goroutine *)
(* (a site loop, a verification, a retry) may resolve the same name and    *)
(* dnsCacheCleanupLoop may remove what has expired.                        *)
(*                                                                         *)
(* Every operation treats each name alike and by itself, so the module     *)
(* follows one name.  The DNS gives a set of addresses, in any order, of   *)
(* which Resolve takes the first IPv4 one; a lookup that was answered may  *)
(* be delivered later.  Times are ticks.                                   *)
(***************************************************************************)
EXTENDS Naturals

CONSTANTS Resolvers,  \* the goroutines that ping by this name
          Addresses,  \* the addresses the name may have
          TTL,        \* of an entry
          Slow,       \* bound: ticks from the DNS's answer to its storage
          NoEntry,    \* no entry for the name
          Name        \* the name itself, where an address is expected

ASSUME TimesAssumption == TTL \in Nat \ {0} /\ Slow \in Nat
ASSUME NamesAssumption ==
  /\ NoEntry \notin [ip : Addresses, left : 0..TTL]
  /\ Name \notin Addresses

VARIABLES
  records,  \* the addresses the DNS has for the name
  gone,     \* history: ticks since the DNS last had each address, as far as told apart
  entry,    \* dc.entries of the name
  pc,       \* where each goroutine is in Resolve
  answer,   \* the address each one was given
  age,      \* ticks since the DNS gave it
  changed,  \* ipChanged
  target    \* the address each goroutine pings, or the name itself

vars == <<records, gone, entry, pc, answer, age, changed, target>>

\* As long ago as it takes to be sure that no entry is left.
LongAgo == TTL + Slow

TypeOK ==
  /\ records \subseteq Addresses
  /\ gone \in [Addresses -> 0..LongAgo]
  /\ entry \in [ip : Addresses, left : 0..TTL] \cup {NoEntry}
  /\ pc \in [Resolvers -> {"idle", "lookup", "compare", "store"}]
  /\ answer \in [Resolvers -> Addresses]
  /\ age \in [Resolvers -> 0..Slow]
  /\ changed \in [Resolvers -> BOOLEAN]
  /\ target \in [Resolvers -> Addresses \cup {Name}]

Init ==
  /\ records \in SUBSET Addresses
  /\ gone = [a \in Addresses |-> IF a \in records THEN 0 ELSE LongAgo]
  /\ entry = NoEntry
  /\ pc = [r \in Resolvers |-> "idle"]
  /\ answer \in [Resolvers -> Addresses]
  /\ age = [r \in Resolvers |-> 0]
  /\ changed = [r \in Resolvers |-> FALSE]
  /\ target = [r \in Resolvers |-> Name]

Goto(r, from, to) == pc[r] = from /\ pc' = [pc EXCEPT ![r] = to]
Ping(r, a) == target' = [target EXCEPT ![r] = a]

\* now.Before(entry.ExpiresAt)
Fresh(e) == e # NoEntry /\ e.left > 0

-----------------------------------------------------------------------------
(* Resolve                                                                  *)

Hit(r) ==
  /\ pc[r] = "idle" /\ Fresh(entry)
  /\ Ping(r, entry.ip)
  /\ UNCHANGED <<records, gone, entry, pc, answer, age, changed>>

Miss(r) ==
  /\ Goto(r, "idle", "lookup") /\ ~Fresh(entry)
  /\ UNCHANGED <<records, gone, entry, answer, age, changed, target>>

\* net.LookupIP has an answer: the addresses as they are now.
Answer(r) ==
  /\ Goto(r, "lookup", "compare")
  /\ \E a \in records : answer' = [answer EXCEPT ![r] = a]
  /\ age' = [age EXCEPT ![r] = 0]
  /\ UNCHANGED <<records, gone, entry, changed, target>>

\* net.LookupIP fails: Resolve returns the cached address, if any, with the
\* error, and PingSiteWithDNS, given an error, pings by name.
LookupFails(r) ==
  /\ Goto(r, "lookup", "idle")
  /\ Ping(r, Name)
  /\ UNCHANGED <<records, gone, entry, answer, age, changed>>

\* Faulty variant: the fallback is cached again.
EmptyAnswer_Cached(r) ==
  /\ Goto(r, "lookup", "idle") /\ records = {}
  /\ Ping(r, IF entry = NoEntry THEN Name ELSE entry.ip)
  /\ entry' = IF entry = NoEntry THEN NoEntry ELSE [entry EXCEPT !.left = TTL]
  /\ UNCHANGED <<records, gone, answer, age, changed>>

\* An answer without addresses: the cached address without an error, however
\* long it has expired, or an error if there is none.
EmptyAnswer(r) ==
  /\ Goto(r, "lookup", "idle") /\ records = {}
  /\ Ping(r, IF entry = NoEntry THEN Name ELSE entry.ip)
  /\ UNCHANGED <<records, gone, entry, answer, age, changed>>

\* entry.ResolvedIP against the new address, under the read lock
Compare(r) ==
  /\ Goto(r, "compare", "store")
  /\ changed' = [changed EXCEPT ![r] = entry # NoEntry /\ entry.ip # answer[r]]
  /\ UNCHANGED <<records, gone, entry, answer, age, target>>

\* The new entry, under the write lock: it replaces what is there by now.
Store(r) ==
  /\ Goto(r, "store", "idle")
  /\ entry' = [ip |-> answer[r], left |-> TTL]
  /\ Ping(r, answer[r])
  /\ UNCHANGED <<records, gone, answer, age, changed>>

-----------------------------------------------------------------------------
(* The clean-up, the DNS and time.                                          *)

CleanupExpired ==
  /\ entry # NoEntry /\ entry.left = 0
  /\ entry' = NoEntry
  /\ UNCHANGED <<records, gone, pc, answer, age, changed, target>>

DNSChanges ==
  /\ records' \in SUBSET Addresses \ {records}
  /\ gone' = [a \in Addresses |-> IF a \in records' THEN 0 ELSE gone[a]]
  /\ UNCHANGED <<entry, pc, answer, age, changed, target>>

InFlight(r) == pc[r] \in {"compare", "store"}
Later(n, cap) == IF n < cap THEN n + 1 ELSE cap

\* Faulty variant: an entry's age is counted past its expiry.
Tick_Uncapped ==
  /\ \A r \in Resolvers : InFlight(r) => age[r] < Slow
  /\ age' = [r \in Resolvers |-> IF InFlight(r) THEN age[r] + 1 ELSE age[r]]
  /\ gone' = [a \in Addresses |-> IF a \in records THEN 0 ELSE Later(gone[a], LongAgo)]
  /\ entry' = IF entry = NoEntry THEN NoEntry ELSE [entry EXCEPT !.left = @ - 1]
  /\ UNCHANGED <<records, pc, answer, changed, target>>

Tick ==
  /\ \A r \in Resolvers : InFlight(r) => age[r] < Slow
  /\ age' = [r \in Resolvers |-> IF InFlight(r) THEN age[r] + 1 ELSE age[r]]
  /\ gone' = [a \in Addresses |-> IF a \in records THEN 0 ELSE Later(gone[a], LongAgo)]
  /\ entry' = IF Fresh(entry) THEN [entry EXCEPT !.left = @ - 1] ELSE entry
  /\ UNCHANGED <<records, pc, answer, changed, target>>

-----------------------------------------------------------------------------
Lookup(r) == Answer(r) \/ LookupFails(r) \/ EmptyAnswer(r) \/ Compare(r) \/ Store(r)

Next ==
  \/ \E r \in Resolvers : Hit(r) \/ Miss(r) \/ Lookup(r)
  \/ CleanupExpired \/ DNSChanges \/ Tick

Spec == Init /\ [][Next]_vars

-----------------------------------------------------------------------------
(* Properties.                                                              *)

\* An address served from the cache was in the DNS no longer ago than its
\* TTL and the time its lookup took, although the check, the lookup and the
\* store are apart and an older answer may be stored over a newer one, with
\* a new TTL (dns_cache.go:56, 112).
BoundedStaleness ==
  Fresh(entry) => gone[entry.ip] <= LongAgo - entry.left
=============================================================================
