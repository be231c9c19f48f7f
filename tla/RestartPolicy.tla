----------------------------- MODULE RestartPolicy -----------------------------
(***************************************************************************)
(* What the restart logic promises the router: one restart at a time, none *)
(* within the cooldown of the one before, and no more failures in a row    *)
(* than the limit.  It knows no sites, goroutines, mutexes or flags;       *)
(* RestartCoordinator implements it.                                       *)
(***************************************************************************)
EXTENDS Naturals

CONSTANTS MaxRetries,  \* RestartMaxRetries
          Cooldown     \* RestartCooldownMinutes, in ticks

VARIABLES
  busy,   \* a restart is under way
  fails,  \* failed restarts since a success or a recovery
  age     \* since the latest restart began; Cooldown if that long ago

vars == <<busy, fails, age>>

Init ==
  /\ busy = FALSE
  /\ fails \in 0..MaxRetries
  /\ age \in 0..Cooldown

Begin ==
  /\ ~busy /\ age = Cooldown
  /\ busy' = TRUE /\ age' = 0
  /\ UNCHANGED fails

Fail ==
  /\ busy /\ fails < MaxRetries
  /\ busy' = FALSE /\ fails' = fails + 1
  /\ UNCHANGED age

Succeed ==
  /\ busy
  /\ busy' = FALSE /\ fails' = 0
  /\ UNCHANGED age

\* Connectivity is back of its own accord.
Recover ==
  /\ fails' = 0
  /\ UNCHANGED <<busy, age>>

Age ==
  /\ age < Cooldown /\ age' = age + 1
  /\ UNCHANGED <<busy, fails>>

Next == Begin \/ Fail \/ Succeed \/ Recover \/ Age

Spec == Init /\ [][Next]_vars
=============================================================================
