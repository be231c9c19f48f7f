------------------------ MODULE RestartRecoveryProofs ------------------------
(***************************************************************************)
(* What RestartRecovery's run checks on a limit of two, a cooldown of two  *)
(* ticks and three goroutines that save, proved for all limits, any        *)
(* goroutines and any number of ends.                                      *)
(***************************************************************************)
EXTENDS RestartRecovery, TLAPS

\* Only a process that runs has a handler, a retry or a save, only a save has
\* copies, and the handler stays with its own until it returns.
StoppedInv ==
  /\ ~up => pc = "idle" /\ ~retry /\ saving = {}
  /\ Handler \in saving => pc = "save"
  /\ saving = {} => copies = {}

\* Unless forgotten, the latest attempt is the one in memory; between the
\* command and the record it is not there yet, and without a process there is
\* no memory: what matters then is what the next one loads.
AttemptInv == up => forgotten \/ pc \in {"command", "wait"} \/ attempt = since

\* What the handler has checked still holds when it acts on it.
CheckedInv ==
  /\ pc \in {"lock", "command"} => fails < MaxRetries
  /\ pc = "lock" => attempt >= Cooldown

\* Every failure in a row is counted, or was missing where a process started.
CountInv == failed <= fails + lost

IInv == TypeOK /\ StoppedInv /\ AttemptInv /\ CheckedInv /\ CountInv

-----------------------------------------------------------------------------
\* An age stays an age when it grows.
LEMMA OlderType ==
  ASSUME NEW age \in 0..Cooldown
  PROVE  /\ Older(age) \in 0..Cooldown
         /\ age >= Cooldown => Older(age) >= Cooldown
BY LimitsAssumption DEF Older

\* A state that grows older stays a state and keeps its counter, and a file
\* without one stays as it is.
LEMMA AgedType ==
  ASSUME NEW f
  PROVE  /\ f \in Saved => Aged(f) \in Saved /\ Aged(f).fails = f.fails
         /\ f \notin Saved => Aged(f) = f
<1>1. ASSUME f \in Saved PROVE Aged(f) \in Saved /\ Aged(f).fails = f.fails
  <2>1. f.attempt \in 0..Cooldown /\ f.fails \in 0..MaxRetries
    BY <1>1 DEF Saved
  <2>2. Aged(f) = [fails |-> f.fails, attempt |-> Older(f.attempt)]
    BY <1>1 DEF Aged, Saved
  <2> QED
    BY <2>1, <2>2, OlderType DEF Saved
<1> QED
  BY <1>1 DEF Aged

\* What a process loads is a state: its counter is within the limit.
LEMMA LoadedType ==
  ASSUME NEW f, NEW state \in Loaded(f)
  PROVE  state \in Saved /\ (state = Fresh \/ state = f)
BY LimitsAssumption DEF Loaded, Fresh, Saved

\* The flags and the files among the variables, and the rest.
FlagsOK == up \in BOOLEAN /\ retry \in BOOLEAN /\ status \in BOOLEAN /\ forgotten \in BOOLEAN

FilesOK ==
  /\ saving \subseteq Savers /\ copies \subseteq Saved \cup {Torn}
  /\ disk \in File
  /\ saving = {} => copies = {}

RestOK ==
  /\ pc \in {"idle", "lock", "command", "wait", "save"}
  /\ fails \in 0..MaxRetries /\ attempt \in 0..Cooldown
  /\ since \in 0..Cooldown
  /\ failed \in Nat /\ lost \in Nat
  /\ ends \in 0..MaxEnds

LEMMA TypeParts ==
  /\ TypeOK /\ StoppedInv => FlagsOK /\ FilesOK /\ RestOK
  /\ FlagsOK /\ FilesOK /\ RestOK => TypeOK
BY Zenon DEF TypeOK, FlagsOK, FilesOK, RestOK, StoppedInv

\* The invariant holds in a process that has loaded any state file.
LEMMA Initially == Init => IInv
<1> SUFFICES ASSUME Init PROVE IInv
  OBVIOUS
<1> USE DEF Init
<1>1. FlagsOK
  BY Zenon DEF FlagsOK
<1>2. RestOK /\ FilesOK
  BY LimitsAssumption DEF RestOK, FilesOK
<1>3. TypeOK
  BY <1>1, <1>2, TypeParts
<1>4. StoppedInv /\ AttemptInv
  BY Zenon DEF StoppedInv, AttemptInv
<1>5. CheckedInv /\ CountInv
  BY <1>2 DEF CheckedInv, CountInv, RestOK
<1> QED
  BY <1>3, <1>4, <1>5 DEF IInv

\* The steps that leave the files alone, and those of the handler that leave
\* the rest alone.
HandlerStep ==
  \/ CheckLimits \/ NoRestart \/ PerformRestart \/ CommandFailed \/ CommandSent
  \/ Recorded \/ RetryCancelled

LEMMA HandlerKeeps ==
  HandlerStep => UNCHANGED files /\ up /\ up' = up /\ (up' <=> up) /\ UNCHANGED ends
<1>1. HandlerStep => up
  BY DEF HandlerStep, Goto, CheckLimits, NoRestart, PerformRestart, CommandFailed,
     CommandSent, Recorded, RetryCancelled
<1>2. ASSUME CheckLimits \/ NoRestart \/ PerformRestart \/ CommandSent
      PROVE  UNCHANGED <<up, files, ends>>
  BY <1>2, Zenon DEF CheckLimits, NoRestart, PerformRestart, CommandSent
<1>3. ASSUME CommandFailed \/ Recorded \/ RetryCancelled
      PROVE  UNCHANGED <<up, files, ends>>
  BY <1>3, Zenon DEF CommandFailed, Recorded, RetryCancelled
<1>4. HandlerStep => UNCHANGED <<up, files, ends>>
  BY <1>2, <1>3, Zenon DEF HandlerStep
<1> QED
  BY <1>1, <1>4, Zenon

FileStep == (\E s \in Savers : BeginSave(s) \/ EndSave(s)) \/ Publish \/ StatusRead
            \/ StatusBackup

LEMMA FileStepKeeps ==
  FileStep => /\ UNCHANGED <<counters, history, ends>>
              /\ up' = up /\ (up' <=> up) /\ (retry' <=> retry) /\ (forgotten' <=> forgotten)
              /\ pc' \in {pc, "idle"}
<1>1. ASSUME FileStep PROVE UNCHANGED <<up, counters, retry, history, ends>>
  BY <1>1, Zenon DEF FileStep, BeginSave, EndSave, Publish, StatusRead, StatusBackup
<1>2. ASSUME FileStep PROVE pc' \in {pc, "idle"}
  BY <1>2 DEF FileStep, BeginSave, EndSave, Publish, StatusRead, StatusBackup
<1> QED
  BY <1>1, <1>2, Zenon DEF history

LEMMA Steps ==
  Next <=> HandlerStep \/ FileStep \/ End \/ Start \/ Tick
BY DEF Next, HandlerStep, FileStep

\* Every step leaves the flags flags.
LEMMA FlagsKept == FlagsOK /\ [Next]_vars => FlagsOK'
<1> SUFFICES ASSUME FlagsOK, [Next]_vars PROVE FlagsOK'
  OBVIOUS
<1> USE DEF FlagsOK, Goto, history, files
<1>1. CASE CheckLimits \/ NoRestart \/ PerformRestart \/ CommandSent
  BY <1>1, Zenon DEF CheckLimits, NoRestart, PerformRestart, CommandSent
<1>2. CASE CommandFailed \/ Recorded \/ RetryCancelled
  BY <1>2, Zenon DEF CommandFailed, Recorded, RetryCancelled
<1>3. CASE FileStep
  BY <1>3, Zenon DEF FileStep, BeginSave, EndSave, Publish, StatusRead, StatusBackup
<1>4. CASE End \/ Tick
  BY <1>4, Zenon DEF End, Tick
<1>5. CASE Start
  BY <1>5, Zenon DEF Start, Missed
<1>6. CASE UNCHANGED vars
  BY <1>6, Zenon DEF vars
<1> QED
  BY <1>1, <1>2, <1>3, <1>4, <1>5, <1>6, Steps, Zenon DEF HandlerStep

\* Every step keeps the types of the files: a save copies the memory, and what
\* is published is one of the copies.
LEMMA FilesKept == RestOK /\ FilesOK /\ [Next]_vars => FilesOK'
<1> SUFFICES ASSUME RestOK, FilesOK, [Next]_vars PROVE FilesOK'
  OBVIOUS
<1> USE DEF FilesOK, File
<1>1. CASE HandlerStep
  BY <1>1, HandlerKeeps DEF files
<1>2. ASSUME NEW s \in Savers, BeginSave(s) PROVE FilesOK'
  <2>1. Memory \in Saved
    BY DEF RestOK, Memory, Saved
  <2> QED
    BY <1>2, <2>1 DEF BeginSave
<1>3. ASSUME NEW s \in Savers, EndSave(s) PROVE FilesOK'
  BY <1>3 DEF EndSave
<1>4. CASE Publish
  BY <1>4 DEF Publish
<1>5. CASE StatusRead \/ StatusBackup
  BY <1>5 DEF StatusRead, StatusBackup
<1>6. CASE End
  BY <1>6 DEF End
<1>7. CASE Start
  BY <1>7 DEF Start
<1>8. CASE Tick
  <2>1. disk' \in File
    BY <1>8, AgedType DEF Tick
  <2>2. copies' \subseteq Saved \cup {Torn}
    BY <1>8, AgedType DEF Tick
  <2>3. copies = {} => copies' = {}
    BY <1>8 DEF Tick
  <2> QED
    BY <1>8, <2>1, <2>2, <2>3 DEF Tick
<1>9. CASE UNCHANGED vars
  BY <1>9 DEF vars, files
<1> QED
  BY <1>1, <1>2, <1>3, <1>4, <1>5, <1>6, <1>7, <1>8, <1>9, Steps DEF FileStep

\* Every step keeps the other types: a failure is counted only below the limit,
\* and a process loads nothing beyond it.
LEMMA RestKept == RestOK /\ CheckedInv /\ [Next]_vars => RestOK'
<1> SUFFICES ASSUME RestOK, CheckedInv, [Next]_vars PROVE RestOK'
  OBVIOUS
<1> USE LimitsAssumption DEF RestOK, Goto, counters, history
<1>1. CASE CheckLimits
  BY <1>1 DEF CheckLimits
<1>2. CASE NoRestart \/ PerformRestart \/ CommandSent
  BY <1>2 DEF NoRestart, PerformRestart, CommandSent
<1>3. CASE CommandFailed
  BY <1>3 DEF CommandFailed, CheckedInv
<1>4a. CASE Recorded
  BY <1>4a DEF Recorded
<1>4b. CASE RetryCancelled
  BY <1>4b DEF RetryCancelled
<1>5. CASE FileStep
  BY <1>5, FileStepKeeps
<1>6. CASE End
  BY <1>6 DEF End
<1>7. CASE Start
  <2>1. PICK state \in Loaded(disk) :
          fails' = state.fails /\ attempt' = state.attempt /\ Missed(state)
    BY <1>7 DEF Start
  <2>2. state.fails \in 0..MaxRetries /\ state.attempt \in 0..Cooldown
    BY <2>1, LoadedType DEF Saved
  <2>3. lost' \in Nat
    BY <2>1, <2>2 DEF Missed
  <2> QED
    BY <1>7, <2>1, <2>2, <2>3 DEF Start
<1>8. CASE Tick
  BY <1>8, OlderType DEF Tick
<1>9. CASE UNCHANGED vars
  BY <1>9 DEF vars
<1> QED
  BY <1>1, <1>2, <1>3, <1>4a, <1>4b, <1>5, <1>6, <1>7, <1>8, <1>9, Steps DEF HandlerStep

\* Every step keeps the link between memory and history: this is where a
\* restart that nothing remembers, or a failure nobody counts, would show.
LEMMA LinkStep ==
  IInv /\ [Next]_vars => StoppedInv' /\ AttemptInv' /\ CheckedInv' /\ CountInv'
<1> SUFFICES ASSUME IInv, [Next]_vars
             PROVE  StoppedInv' /\ AttemptInv' /\ CheckedInv' /\ CountInv'
  OBVIOUS
<1>0. RestOK /\ FilesOK
  BY TypeParts DEF IInv
<1>a. (saving = {} => copies = {})'
  BY <1>0, FilesKept DEF FilesOK
<1> USE <1>a, LimitsAssumption
    DEF IInv, TypeOK, Goto, StoppedInv, AttemptInv, CheckedInv, CountInv,
        counters, history, files
<1>1. CASE CheckLimits \/ NoRestart
  BY <1>1 DEF CheckLimits, NoRestart
<1>2. CASE PerformRestart
  BY <1>2 DEF PerformRestart
<1>3. CASE CommandFailed
  BY <1>3 DEF CommandFailed
<1>4. CASE CommandSent
  BY <1>4 DEF CommandSent
<1>5. CASE Recorded
  BY <1>5 DEF Recorded
<1>6. CASE RetryCancelled
  BY <1>6 DEF RetryCancelled
<1>7. ASSUME NEW s \in Savers, BeginSave(s)
      PROVE  StoppedInv' /\ AttemptInv' /\ CheckedInv' /\ CountInv'
  BY <1>7 DEF BeginSave
<1>8. ASSUME NEW s \in Savers, EndSave(s)
      PROVE  StoppedInv' /\ AttemptInv' /\ CheckedInv' /\ CountInv'
  <2>1. FileStep
    BY <1>8 DEF FileStep
  <2>2. saving' = saving \ {s} /\ pc' = IF s = Handler THEN "idle" ELSE pc
    BY <1>8 DEF EndSave
  <2>3. s = Handler => pc = "save"
    BY <1>8 DEF EndSave
  <2> QED
    BY <2>1, <2>2, <2>3, FileStepKeeps
<1>9. CASE Publish \/ StatusRead \/ StatusBackup
  <2>1. FileStep
    BY <1>9 DEF FileStep
  <2>2. saving' = saving /\ pc' = pc
    BY <1>9, Zenon DEF Publish, StatusRead, StatusBackup
  <2> QED
    BY <2>1, <2>2, FileStepKeeps
<1>10. CASE End
  BY <1>10 DEF End
<1>11. CASE Start
  <2>1. PICK state \in Loaded(disk) :
          fails' = state.fails /\ attempt' = state.attempt /\ Missed(state)
    BY <1>11 DEF Start
  <2>2. state.fails \in 0..MaxRetries
    BY <2>1, LoadedType DEF Saved
  <2>3. ~up /\ up' /\ pc = "idle" /\ pc' = "idle" /\ failed' = failed /\ since' = since
    BY <1>11 DEF Start
  <2>4. CountInv'
    BY <2>1, <2>2, <2>3 DEF Missed
  <2>5. forgotten' \/ attempt' = since'
    BY <2>1, <2>3 DEF Missed
  <2>6. saving' = saving /\ (retry' <=> retry)
    BY <1>11, Zenon DEF Start
  <2> QED
    BY <2>3, <2>4, <2>5, <2>6
<1>12. CASE Tick
  BY <1>12, OlderType DEF Tick
<1>13. CASE UNCHANGED vars
  BY <1>13 DEF vars
<1> QED
  BY <1>1, <1>2, <1>3, <1>4, <1>5, <1>6, <1>7, <1>8, <1>9, <1>10, <1>11, <1>12,
     <1>13, Steps DEF HandlerStep, FileStep

\* The invariant holds of every behaviour.
LEMMA Invariant == Spec => []IInv
<1>1. IInv /\ [Next]_vars => IInv'
  <2> SUFFICES ASSUME IInv, [Next]_vars PROVE IInv'
    OBVIOUS
  <2>1. FlagsOK /\ FilesOK /\ RestOK
    BY TypeParts DEF IInv
  <2>2. FlagsOK' /\ FilesOK' /\ RestOK'
    BY <2>1, FlagsKept, FilesKept, RestKept DEF IInv
  <2>3. TypeOK'
    BY <2>2, Zenon DEF TypeOK, FlagsOK, FilesOK, RestOK
  <2> QED
    BY <2>3, LinkStep DEF IInv
<1> QED
  BY Initially, <1>1, PTL DEF Spec

-----------------------------------------------------------------------------
\* Every variable stays in its type: the counter never passes the limit.
THEOREM TypeCorrect == Spec => []TypeOK
<1>1. IInv => TypeOK
  BY DEF IInv
<1> QED
  BY Invariant, <1>1, PTL

\* The failures in a row exceed the limit by no more than those that were
\* missing from what a process loaded, for any limit, any number of ends, and
\* whatever saves, overlapping saves and -status have made of the file.
THEOREM LimitSurvives == Spec => []LimitUnlessLost
<1>1. IInv => LimitUnlessLost
  BY LimitsAssumption DEF IInv, TypeOK, CountInv, LimitUnlessLost
<1> QED
  BY Invariant, <1>1, PTL

\* What a start misses is at most what one process can have counted: at the
\* end of a process there is room for it until the next one has started.
LostInv == lost + (IF up THEN 0 ELSE MaxRetries) <= MaxRetries * ends

LEMMA Product ==
  ASSUME NEW k \in Nat
  PROVE  /\ MaxRetries * k \in Nat
         /\ MaxRetries * (k + 1) = MaxRetries * k + MaxRetries
BY LimitsAssumption

LEMMA LostStep == IInv /\ LostInv /\ [Next]_vars => LostInv'
<1> SUFFICES ASSUME IInv, LostInv, [Next]_vars PROVE LostInv'
  OBVIOUS
<1> PICK m : m = MaxRetries * ends
  OBVIOUS
<1>0. /\ ends \in Nat /\ lost \in Nat /\ fails \in 0..MaxRetries
      /\ m \in Nat /\ lost + (IF up THEN 0 ELSE MaxRetries) <= m
  <2>1. ends \in Nat /\ lost \in Nat /\ fails \in 0..MaxRetries
    BY LimitsAssumption DEF IInv, TypeOK
  <2> QED
    BY <2>1, Product DEF LostInv
<1>1. CASE End
  <2>1. ends' = ends + 1 /\ lost' = lost /\ up /\ ~up'
    BY <1>1 DEF End, history
  <2>2. MaxRetries * (ends + 1) = m + MaxRetries
    BY <1>0, Product
  <2>3. lost + MaxRetries <= m + MaxRetries
    BY <1>0, <2>1, LimitsAssumption
  <2> QED
    BY <2>1, <2>2, <2>3 DEF LostInv
<1>2. CASE Start
  <2>1. PICK state \in Loaded(disk) : Missed(state)
    BY <1>2 DEF Start
  <2>2. state.fails \in 0..MaxRetries
    BY <2>1, LoadedType DEF Saved
  <2>3. ~up /\ up' /\ ends' = ends
    BY <1>2 DEF Start
  <2>4. lost' <= m
    BY <1>0, <2>1, <2>2, <2>3, LimitsAssumption DEF Missed
  <2>5. lost' \in Nat
    BY <1>0, <2>1, <2>2, LimitsAssumption DEF Missed
  <2> QED
    BY <2>3, <2>4, <2>5 DEF LostInv
<1>3. CASE Recorded \/ RetryCancelled
  <2>1. lost' = 0 /\ ends' = ends /\ up'
    BY <1>3, HandlerKeeps, Zenon DEF Recorded, RetryCancelled, HandlerStep
  <2>2. 0 <= m
    BY <1>0
  <2> QED
    BY <2>1, <2>2 DEF LostInv
<1>4. ASSUME UNCHANGED <<up, lost, ends>> PROVE LostInv'
  BY <1>4 DEF LostInv
<1>5. CASE CheckLimits \/ NoRestart \/ PerformRestart \/ CommandFailed \/ CommandSent
  BY <1>4, <1>5 DEF CheckLimits, NoRestart, PerformRestart, CommandFailed, CommandSent,
     Goto, history
<1>6. CASE FileStep
  BY <1>4, <1>6, FileStepKeeps DEF history
<1>7. CASE Tick \/ UNCHANGED vars
  BY <1>4, <1>7 DEF Tick, vars, history
<1> QED
  BY <1>1, <1>2, <1>3, <1>5, <1>6, <1>7, Steps DEF HandlerStep

\* After k ends of the process at most (k + 1) * MaxRetries commands have failed
\* in a row, whatever was saved and when, and whatever could be read of it.
THEOREM CrashLoopLimited == Spec => []LimitPerProcess
<1>1. Init => LostInv
  BY Product DEF Init, LostInv
<1>2. IInv /\ LostInv => LimitPerProcess
  <2> SUFFICES ASSUME IInv, LostInv PROVE LimitPerProcess
    OBVIOUS
  <2>1. failed \in Nat /\ lost \in Nat /\ ends \in Nat /\ failed <= MaxRetries + lost
    BY LimitsAssumption DEF IInv, TypeOK, CountInv
  <2>2. PICK m : m = MaxRetries * ends
    OBVIOUS
  <2>3. m \in Nat /\ MaxRetries * (ends + 1) = m + MaxRetries
    BY <2>1, <2>2, Product
  <2>4. lost <= m
    BY <2>1, <2>2, <2>3, LimitsAssumption DEF LostInv
  <2>5. failed <= m + MaxRetries
    BY <2>1, <2>3, <2>4, LimitsAssumption
  <2> QED
    BY <2>3, <2>5 DEF LimitPerProcess
<1> QED
  BY Invariant, LostStep, <1>1, <1>2, PTL DEF Spec

\* A restart within the cooldown of the one before means that a process has
\* started since from a state without that one.
Spaced == PerformRestart => since >= Cooldown \/ forgotten

THEOREM CooldownSurvives == Spec => SpacedUnlessForgotten
<1>1. IInv /\ [Next]_vars => [Spaced]_vars
  <2> SUFFICES ASSUME IInv, PerformRestart, ~forgotten PROVE since >= Cooldown
    BY DEF Spaced
  <2> QED
    BY DEF IInv, AttemptInv, CheckedInv, PerformRestart, Goto
<1>2. [][Spaced]_vars <=> SpacedUnlessForgotten
  BY DEF Spaced, SpacedUnlessForgotten
<1> QED
  BY Invariant, <1>1, <1>2, PTL DEF Spec

\* At the limit, with no retry asleep and no other counter in a file or a save,
\* every step stays there, whatever it does to the file, or is the start of a
\* process that finds no state in it.
LimitStays == AtLimit => AtLimit' \/ StartsFresh

LEMMA LimitStep == IInv /\ AtLimit /\ Next => AtLimit' \/ StartsFresh
<1> SUFFICES ASSUME IInv, AtLimit, Next PROVE AtLimit' \/ StartsFresh
  OBVIOUS
<1> USE LimitsAssumption, FileAssumption
    DEF IInv, TypeOK, Goto, StoppedInv, AtLimit, counters
<1>1. CASE CheckLimits
  <2>1. up /\ up' /\ ~retry /\ UNCHANGED files
    BY <1>1, Zenon DEF CheckLimits
  <2>2. ~retry'
    BY <1>1, <2>1, Zenon DEF CheckLimits
  <2>3. pc' = "idle" /\ fails' = MaxRetries
    BY <1>1, <2>1 DEF CheckLimits
  <2> QED
    BY <2>1, <2>2, <2>3 DEF files
<1>2. CASE NoRestart \/ PerformRestart \/ CommandFailed \/ CommandSent \/ Recorded
           \/ RetryCancelled
  BY <1>2 DEF NoRestart, PerformRestart, CommandFailed, CommandSent, Recorded,
     RetryCancelled
<1>3. ASSUME NEW s \in Savers, BeginSave(s) PROVE AtLimit'
  <2>1. Memory.fails = MaxRetries
    BY <1>3 DEF BeginSave, Memory
  <2>2. copies' \subseteq copies \cup {Memory, Torn}
    BY <1>3 DEF BeginSave
  <2> QED
    BY <1>3, <2>1, <2>2 DEF BeginSave
<1>4. ASSUME NEW s \in Savers, EndSave(s) PROVE AtLimit'
  <2>1. copies' \subseteq copies
    BY <1>4 DEF EndSave
  <2> QED
    BY <1>4, <2>1 DEF EndSave
<1>5. CASE Publish
  BY <1>5 DEF Publish
<1>6. CASE StatusRead \/ StatusBackup
  BY <1>6 DEF StatusRead, StatusBackup
<1>7. CASE End
  BY <1>7 DEF End
<1>8. CASE Start
  <2>1. PICK state \in Loaded(disk) : fails' = state.fails /\ attempt' = state.attempt
    BY <1>8 DEF Start
  <2>2. /\ ~up /\ up' /\ pc = "idle" /\ pc' = "idle" /\ ~retry /\ retry' = retry
        /\ copies = {} /\ copies' = {}
        /\ disk' = disk \/ disk' = Absent
    BY <1>8 DEF Start
  <2>3. CASE state = Fresh
    <3>1. Memory' = Fresh
      BY <2>1, <2>3 DEF Memory, Fresh
    <3> QED
      BY <2>2, <3>1 DEF StartsFresh
  <2>4. CASE state = disk
    <3>1. disk \in Saved
      BY <2>1, <2>4, LoadedType
    <3>2. fails' = MaxRetries
      BY <2>1, <2>4, <3>1
    <3> QED
      BY <2>2, <3>2
  <2> QED
    BY <2>1, <2>3, <2>4, LoadedType
<1>9. CASE Tick
  <2>1. disk' \in Saved => disk'.fails = MaxRetries
    BY <1>9, AgedType DEF Tick
  <2>2. ASSUME NEW f \in copies', f \in Saved PROVE f.fails = MaxRetries
    BY <1>9, <2>2, AgedType DEF Tick
  <2> QED
    BY <1>9, <2>1, <2>2 DEF Tick
<1> QED
  BY <1>1, <1>2, <1>3, <1>4, <1>5, <1>6, <1>7, <1>8, <1>9 DEF Next

THEOREM LimitFinal == Spec => LimitIsFinal
<1>1. IInv /\ [Next]_vars => [LimitStays]_vars
  BY LimitStep DEF LimitStays
<1>2. [][LimitStays]_vars <=> LimitIsFinal
  BY DEF LimitStays, LimitIsFinal
<1> QED
  BY Invariant, <1>1, <1>2, PTL DEF Spec

=============================================================================
