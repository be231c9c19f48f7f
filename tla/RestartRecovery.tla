--------------------------- MODULE RestartRecovery ---------------------------
(***************************************************************************)
(* The restart limits across the end of the process.  One handler at a     *)
(* time (handlerMu, see RestartCoordinator) restarts the router; the       *)
(* counters it goes by are in memory, and on disk as some save published   *)
(* them.  The process crashes, or ends on a signal, wherever the handler   *)
(* is, and its successor loads what it finds.                              *)
(*                                                                         *)
(* StateFile models a save system call by system call.  Here it is a copy  *)
(* of the counters, which the file may come to hold from then on until the *)
(* save has returned.  Saves that run together, directly or by way of      *)
(* others, may each publish what any of them copied, or a torn file: no    *)
(* less than StateFile allows them.                                        *)
(***************************************************************************)
EXTENDS Naturals

CONSTANTS MaxRetries,  \* RestartMaxRetries
          Cooldown,    \* RestartCooldownMinutes, in ticks
          MaxEnds,     \* bound: how often the process ends
          Savers,      \* the goroutines that save
          Handler,     \* the one of them that restarts the router
          Absent,      \* no state file
          Torn         \* a state file that holds no state

Saved == [fails : 0..MaxRetries, attempt : 0..Cooldown]

ASSUME LimitsAssumption ==
  MaxRetries \in Nat \ {0} /\ Cooldown \in Nat \ {0} /\ MaxEnds \in Nat
ASSUME SaversAssumption == Handler \in Savers
ASSUME FileAssumption == Absent \notin Saved /\ Torn \notin Saved /\ Absent # Torn

VARIABLES
  up,         \* the process runs
  pc,         \* where the handler is
  fails,      \* ConsecutiveRestartFails
  attempt,    \* since LastRestartAttempt; Cooldown if zero or that old
  retry,      \* retry goroutines sleep: one or several
  saving,     \* the goroutines in SaveState
  copies,     \* what the file may come to hold by their saves
  disk,       \* the state file: fails and attempt
  status,     \* a -status process is about to move the state file away
  since,      \* history: since the latest restart command, as far as Cooldown
  forgotten,  \* history: a process started from a state without that attempt
  failed,     \* history: commands that failed in a row
  lost,       \* history: how many of them were missing where a process started
  ends        \* how often it has ended

counters == <<fails, attempt>>
files == <<saving, copies, disk, status>>
history == <<since, forgotten, failed, lost>>
vars == <<up, pc, counters, retry, files, history, ends>>

\* What the state file may be.
File == Saved \cup {Absent, Torn}

TypeOK ==
  /\ up \in BOOLEAN
  /\ pc \in {"idle", "lock", "command", "wait", "save"}
  /\ fails \in 0..MaxRetries /\ attempt \in 0..Cooldown
  /\ retry \in BOOLEAN
  /\ saving \subseteq Savers /\ copies \subseteq Saved \cup {Torn}
  /\ disk \in File /\ status \in BOOLEAN
  /\ since \in 0..Cooldown /\ forgotten \in BOOLEAN
  /\ failed \in Nat /\ lost \in Nat
  /\ ends \in 0..MaxEnds

\* What SaveState copies.
Memory == [fails |-> fails, attempt |-> attempt]

\* NewServiceState
Fresh == [fails |-> 0, attempt |-> Cooldown]

\* What LoadState makes of a state file f: a state when it holds one, and a
\* fresh one when it does not, or cannot be read.
Loaded(f) == {Fresh} \cup ({f} \cap Saved)

\* A process that has loaded any state file, or found none that it can use.
Init ==
  /\ up = TRUE /\ pc = "idle" /\ retry = FALSE
  /\ fails \in 0..MaxRetries /\ attempt \in 0..Cooldown
  /\ disk \in File /\ Memory \in Loaded(disk)
  /\ saving = {} /\ copies = {} /\ status = FALSE
  /\ since = attempt /\ forgotten = FALSE
  /\ failed = fails /\ lost = 0 /\ ends = 0

Goto(from, to) == up /\ pc = from /\ pc' = to

-----------------------------------------------------------------------------
(* handleConnectivityFailure and performRestart                             *)

\* Faulty variant: the limit is off by one.
CheckLimits_OneMore ==
  /\ Goto("idle", IF fails <= MaxRetries /\ attempt >= Cooldown THEN "lock" ELSE "idle")
  /\ retry' \in {retry, FALSE}
  /\ UNCHANGED <<up, counters, files, history, ends>>

\* CanAttemptRestart, asked by the loop of a site or by the last retry.
CheckLimits ==
  /\ Goto("idle", IF fails < MaxRetries /\ attempt >= Cooldown THEN "lock" ELSE "idle")
  /\ retry' \in {retry, FALSE}
  /\ UNCHANGED <<up, counters, files, history, ends>>

\* The cluster lock is refused, or connectivity is back.
NoRestart ==
  /\ Goto("lock", "idle")
  /\ UNCHANGED <<up, counters, retry, files, history, ends>>

\* The record is made, with its Timestamp, and the command is sent.
PerformRestart ==
  /\ Goto("lock", "command")
  /\ since' = 0 /\ forgotten' = FALSE
  /\ UNCHANGED <<up, counters, retry, files, failed, lost, ends>>

\* Faulty variant: the failure is not counted.
CommandFailed_NotCounted ==
  /\ Goto("command", "idle")
  /\ attempt' = since /\ fails' = fails
  /\ failed' = failed + 1
  /\ retry' = TRUE
  /\ UNCHANGED <<up, files, since, forgotten, lost, ends>>

\* RecordRestartAttempt after a command that failed: a retry is scheduled
\* below the limit, and performRestart returns without a save.
CommandFailed ==
  /\ Goto("command", "idle")
  /\ attempt' = since /\ fails' = fails + 1
  /\ failed' = failed + 1
  /\ retry' = (retry \/ fails' < MaxRetries)
  /\ UNCHANGED <<up, files, since, forgotten, lost, ends>>

CommandSent ==
  /\ Goto("command", "wait")
  /\ UNCHANGED <<up, counters, retry, files, history, ends>>

\* RecordRestartAttempt after the wait for the router, a success whether the
\* sites answer or not; when they do not, a retry is scheduled.
Recorded ==
  /\ Goto("wait", "save")
  /\ attempt' = since /\ fails' = 0
  /\ failed' = 0 /\ lost' = 0
  /\ retry' \in {retry, TRUE}
  /\ UNCHANGED <<up, files, since, forgotten, ends>>

\* A retry goroutine finds connectivity restored.
RetryCancelled ==
  /\ up /\ retry
  /\ retry' \in {retry, FALSE}
  /\ fails' = 0
  /\ failed' = 0 /\ lost' = 0
  /\ UNCHANGED <<up, pc, attempt, files, since, forgotten, ends>>

-----------------------------------------------------------------------------
(* SaveState, -status, and the end of the process                           *)

\* The copy under the mutex: by the handler after a restart, at any time by
\* stateSaverLoop, and by main and Monitor.Stop after a signal, before os.Exit
\* ends whatever else goes on.
BeginSave(s) ==
  /\ up /\ s \notin saving
  /\ s = Handler => pc = "save"
  /\ saving' = saving \cup {s}
  /\ copies' = IF saving = {} THEN {Memory} ELSE copies \cup {Memory, Torn}
  /\ UNCHANGED <<up, pc, counters, retry, disk, status, history, ends>>

\* The temporary file gets its name, or is written to after it has.
Publish ==
  /\ disk' \in copies
  /\ UNCHANGED <<up, pc, counters, retry, saving, copies, status, history, ends>>

\* SaveState returns, whether it has published anything or failed.
EndSave(s) ==
  /\ s \in saving
  /\ saving' = saving \ {s}
  /\ copies' = IF saving' = {} THEN {} ELSE copies
  /\ pc' = IF s = Handler THEN "idle" ELSE pc
  /\ UNCHANGED <<up, counters, retry, disk, status, history, ends>>

\* LoadState in a -status process finds a torn file ...
StatusRead ==
  /\ disk = Torn /\ status' = TRUE
  /\ UNCHANGED <<up, pc, counters, retry, saving, copies, disk, history, ends>>

\* ... and moves away what is there by then.
StatusBackup ==
  /\ status /\ status' = FALSE
  /\ disk' \in {disk, Absent}
  /\ UNCHANGED <<up, pc, counters, retry, saving, copies, history, ends>>

\* What ends with the process.
End ==
  /\ up /\ ends < MaxEnds
  /\ up' = FALSE /\ ends' = ends + 1
  /\ pc' = "idle" /\ retry' = FALSE /\ saving' = {} /\ copies' = {}
  /\ UNCHANGED <<counters, disk, status, history>>

\* What the state that is loaded lacks of what there was.
Missed(state) ==
  /\ forgotten' = (forgotten \/ state.attempt # since)
  /\ lost' = IF fails > state.fails THEN lost + (fails - state.fails) ELSE lost

\* Faulty variant: the time of the last attempt is not read back.
Start_NoAttempt ==
  /\ ~up /\ up' = TRUE
  /\ \E state \in Loaded(disk) :
       fails' = state.fails /\ attempt' = Cooldown /\ Missed(state)
  /\ disk' \in (IF disk = Torn THEN {Torn, Absent} ELSE {disk})
  /\ UNCHANGED <<pc, retry, saving, copies, status, since, failed, ends>>

\* main loads the state file, and moves a torn one out of the way.
Start ==
  /\ ~up /\ up' = TRUE
  /\ \E state \in Loaded(disk) :
       fails' = state.fails /\ attempt' = state.attempt /\ Missed(state)
  /\ disk' \in (IF disk = Torn THEN {Torn, Absent} ELSE {disk})
  /\ UNCHANGED <<pc, retry, saving, copies, status, since, failed, ends>>

-----------------------------------------------------------------------------
\* Faulty variant: an age counted past the cooldown.
Older_Uncapped(age) == IF age <= Cooldown THEN age + 1 ELSE Cooldown

\* One tick more, as far as the cooldown.
Older(age) == IF age < Cooldown THEN age + 1 ELSE Cooldown

\* A state holds the time of its attempt, which is a tick longer ago.
Aged(f) == IF f \in Saved THEN [f EXCEPT !.attempt = Older(@)] ELSE f

Tick ==
  /\ attempt' = Older(attempt) /\ since' = Older(since)
  /\ disk' = Aged(disk) /\ copies' = {Aged(f) : f \in copies}
  /\ UNCHANGED <<up, pc, fails, retry, saving, status, forgotten, failed, lost, ends>>

Next ==
  \/ CheckLimits \/ NoRestart \/ PerformRestart \/ CommandFailed \/ CommandSent
  \/ Recorded \/ RetryCancelled
  \/ \E s \in Savers : BeginSave(s) \/ EndSave(s)
  \/ Publish \/ StatusRead \/ StatusBackup
  \/ End \/ Start \/ Tick

Spec == Init /\ [][Next]_vars

-----------------------------------------------------------------------------
(* Properties.                                                              *)

\* A restart begins within the cooldown of the one before only if a process
\* has started since from a state that lacks it: within one life, and in the
\* next whenever the file it reads holds the attempt, the cooldown stands,
\* wherever the handler and the saves were (monitor.go:435, 471).
SpacedUnlessForgotten == [][PerformRestart => since >= Cooldown \/ forgotten]_vars

\* Across all ends of the process the commands that fail in a row exceed the
\* limit by no more than those missing from what was loaded (monitor.go:435).
LimitUnlessLost == failed <= MaxRetries + lost

\* However the process comes and goes, and whatever becomes of its file, each
\* one sends at most MaxRetries commands that fail in a row: a crash loop is
\* bounded by its crashes (monitor.go:435, state.go:246).
LimitPerProcess == failed <= MaxRetries * (ends + 1)

\* At the limit, with no retry asleep and no other state on disk or about to be
\* saved, no restart will be made again for as long as the state file is read:
\* neither recovery, nor a crash, nor any save resets the counter, only a
\* process that finds no state in the file and starts afresh (monitor.go:504,
\* state.go:77, 246).
AtLimit ==
  /\ up => fails = MaxRetries /\ ~retry /\ pc \in {"idle", "save"}
  /\ \A f \in (copies \cup {disk}) \cap Saved : f.fails = MaxRetries
StartsFresh == ~up /\ up' /\ Memory' = Fresh
LimitIsFinal == [][AtLimit => AtLimit' \/ StartsFresh]_vars

=============================================================================
