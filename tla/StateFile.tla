------------------------------- MODULE StateFile -------------------------------
(***************************************************************************)
(* Persistence (state.go, main.go): SaveState copies ServiceState under    *)
(* its mutex, then writes a temporary file and renames it, without a       *)
(* mutex, and several goroutines may do so at once: stateSaverLoop, the    *)
(* handler after a restart, and the signal handler, which saves twice and  *)
(* ends the process.  All use the same temporary name.  LoadState runs at  *)
(* start and in every `restartko -status` process.                         *)
(*                                                                         *)
(* A state is its version, which grows with what must not be forgotten     *)
(* (restart attempts); the encodings of two saves differ in length.  A     *)
(* write is one system call.  A file descriptor is known by the name its   *)
(* file has now.  Only the process crashes, not the machine: what was      *)
(* written stays.                                                          *)
(***************************************************************************)
EXTENDS Naturals, FiniteSets

CONSTANTS Savers,      \* the goroutines that save
          Ticker,      \* stateSaverLoop
          Signal,      \* the signal handler of main
          MaxVersion,  \* bound: versions of the state
          Absent,      \* no such file
          Empty,       \* a truncated file
          Broken       \* bytes that are not one JSON value

ASSUME SaversAssumption == Ticker \in Savers /\ Signal \in Savers /\ Ticker # Signal
ASSUME VersionAssumption == MaxVersion \in Nat
ASSUME ContentAssumption ==
  /\ Absent \notin Nat /\ Empty \notin Nat /\ Broken \notin Nat
  /\ Absent # Empty /\ Absent # Broken /\ Empty # Broken

VARIABLES
  up,        \* whether the service runs
  version,   \* of the state in memory
  pc,        \* where each goroutine is in SaveState
  snap,      \* the version each one copied
  fd,        \* the name of the file each one has open: "tmp", "file", or "none"
  tmp,       \* what is under the temporary name
  file,      \* what is under the state file's name
  stopping,  \* saves the signal handler has finished
  status,    \* whether a -status process is about to move the state file away
  alone,     \* history: no other save ran during this one so far
  unread     \* history: there is a state in the file that could not be read at the start

disk == <<tmp, file>>
vars == <<up, version, pc, snap, fd, disk, stopping, status, alone, unread>>

Versions == 0..MaxVersion
Content == Versions \cup {Absent, Empty, Broken}

TypeOK ==
  /\ up \in BOOLEAN /\ version \in Versions
  /\ pc \in [Savers -> {"idle", "open", "write", "rename", "remove"}]
  /\ snap \in [Savers -> Versions]
  /\ fd \in [Savers -> {"tmp", "file", "none"}]
  /\ tmp \in Content /\ file \in Content
  /\ stopping \in 0..2 /\ status \in BOOLEAN
  /\ alone \in [Savers -> BOOLEAN] /\ unread \in BOOLEAN

\* The first start, with no file.
Init ==
  /\ up = TRUE /\ version = 0
  /\ pc = [s \in Savers |-> "idle"]
  /\ snap = [s \in Savers |-> 0]
  /\ fd = [s \in Savers |-> "none"]
  /\ tmp = Absent /\ file = Absent
  /\ stopping = 0 /\ status = FALSE
  /\ alone = [s \in Savers |-> FALSE] /\ unread = FALSE

Goto(s, from, to) == pc[s] = from /\ pc' = [pc EXCEPT ![s] = to]

\* SaveState returns, with or without an error.
Return(s, from) ==
  /\ Goto(s, from, "idle")
  /\ stopping' = IF s = Signal THEN stopping + 1 ELSE stopping

\* The open files once the file called a is called b.
Renamed(a, b) == [s \in Savers |-> IF fd[s] = a THEN b ELSE IF fd[s] = b THEN "none" ELSE fd[s]]

\* What the open file of s holds, and c put there.
Old(s) == CASE fd[s] = "tmp" -> tmp [] fd[s] = "file" -> file [] OTHER -> Empty
Put(s, c) ==
  /\ tmp' = IF fd[s] = "tmp" THEN c ELSE tmp
  /\ file' = IF fd[s] = "file" THEN c ELSE file

-----------------------------------------------------------------------------
(* SaveState                                                                *)

\* Faulty variant: the signal handler saves after the process ended its saves.
BeginSave_AfterStop(s) ==
  /\ up
  /\ Goto(s, "idle", "open")
  /\ snap' = [snap EXCEPT ![s] = version]
  /\ alone' = [t \in Savers |-> t = s /\ \A u \in Savers : pc[u] = "idle"]
  /\ UNCHANGED <<up, version, fd, disk, stopping, status, unread>>

\* The copy under the mutex.  main saves once, and once more in Stop.
BeginSave(s) ==
  /\ up /\ (s = Signal => stopping < 2)
  /\ Goto(s, "idle", "open")
  /\ snap' = [snap EXCEPT ![s] = version]
  /\ alone' = [t \in Savers |-> t = s /\ \A u \in Savers : pc[u] = "idle"]
  /\ UNCHANGED <<up, version, fd, disk, stopping, status, unread>>

\* Faulty variant: the temporary file is opened without truncating it.
Open_NoTruncate(s) ==
  /\ Goto(s, "open", "write")
  /\ fd' = [fd EXCEPT ![s] = "tmp"]
  /\ tmp' = IF tmp = Absent THEN Empty ELSE tmp
  /\ UNCHANGED <<up, version, snap, file, stopping, status, alone, unread>>

\* os.WriteFile creates or truncates the temporary file
Open(s) ==
  /\ Goto(s, "open", "write")
  /\ fd' = [fd EXCEPT ![s] = "tmp"]
  /\ tmp' = Empty
  /\ UNCHANGED <<up, version, snap, file, stopping, status, alone, unread>>

OpenFails(s) ==
  /\ Return(s, "open")
  /\ UNCHANGED <<up, version, snap, fd, disk, status, alone, unread>>

\* ... and writes from its start, wherever the file is by now: over longer
\* bytes of another save the result is neither state.
Write(s) ==
  /\ Goto(s, "write", "rename")
  /\ \E c \in {snap[s]} \cup (IF Old(s) = Empty THEN {} ELSE {Broken}) : Put(s, c)
  /\ fd' = [fd EXCEPT ![s] = "none"]
  /\ UNCHANGED <<up, version, snap, stopping, status, alone, unread>>

\* Faulty variant: a write that failed goes unnoticed.
WriteFails_Unnoticed(s) ==
  /\ Goto(s, "write", "rename")
  /\ \E c \in {Old(s), Broken} : Put(s, c)
  /\ fd' = [fd EXCEPT ![s] = "none"]
  /\ UNCHANGED <<up, version, snap, stopping, status, alone, unread>>

\* The disk is full: nothing or a part was written.
WriteFails(s) ==
  /\ Return(s, "write")
  /\ \E c \in {Old(s), Broken} : Put(s, c)
  /\ fd' = [fd EXCEPT ![s] = "none"]
  /\ UNCHANGED <<up, version, snap, status, alone, unread>>

Rename(s) ==
  /\ tmp # Absent
  /\ Return(s, "rename")
  /\ file' = tmp /\ tmp' = Absent
  /\ fd' = Renamed("tmp", "file") /\ unread' = FALSE
  /\ UNCHANGED <<up, version, snap, status, alone>>

\* Another save has renamed or removed the temporary file, or the file system
\* refuses.
RenameFails(s) ==
  /\ Goto(s, "rename", "remove")
  /\ UNCHANGED <<up, version, snap, fd, disk, stopping, status, alone, unread>>

\* os.Remove, of whichever temporary file is there now; its error is ignored
Remove(s) ==
  /\ Return(s, "remove")
  /\ \/ tmp' = Absent /\ fd' = Renamed("tmp", "none")
     \/ UNCHANGED <<tmp, fd>>
  /\ UNCHANGED <<up, version, snap, file, status, alone, unread>>

-----------------------------------------------------------------------------
(* The service and -status                                                  *)

\* An attempt is recorded.
Update ==
  /\ up /\ version < MaxVersion
  /\ version' = version + 1
  /\ UNCHANGED <<up, pc, snap, fd, disk, stopping, status, alone, unread>>

End ==
  /\ up' = FALSE /\ version' = 0
  /\ pc' = [s \in Savers |-> "idle"]
  /\ snap' = [s \in Savers |-> 0]
  /\ fd' = [s \in Savers |-> "none"]
  /\ stopping' = 0
  /\ alone' = [s \in Savers |-> FALSE] /\ unread' = FALSE
  /\ UNCHANGED <<disk, status>>

Crash == up /\ End

\* os.Exit waits for no other save.
Exit == up /\ stopping = 2 /\ End

\* LoadState: an empty or broken file means a fresh state, and so does one that
\* cannot be read, which stays where it is; a broken one is moved out of the
\* way, if that can be done.
LoadState ==
  /\ ~up /\ up' = TRUE
  /\ \/ /\ version' = IF file \in Nat THEN file ELSE 0
        /\ file' \in (IF file = Broken THEN {file, Absent} ELSE {file})
        /\ unread' = FALSE
     \/ /\ version' = 0 /\ file' = file
        /\ unread' = (file \in Nat)
  /\ UNCHANGED <<pc, snap, fd, tmp, stopping, status, alone>>

\* LoadState in a -status process, when it reads a broken file; reading any
\* other changes nothing.
StatusRead ==
  /\ ~status /\ file = Broken
  /\ status' = TRUE
  /\ UNCHANGED <<up, version, pc, snap, fd, disk, stopping, alone, unread>>

\* ... and moves away the state file as it is by then, if that can be done.
StatusBackup ==
  /\ status /\ status' = FALSE
  /\ \/ file' = Absent /\ fd' = Renamed("file", "none")
     \/ UNCHANGED <<file, fd>>
  /\ UNCHANGED <<up, version, pc, snap, tmp, stopping, alone, unread>>

-----------------------------------------------------------------------------
SaveStep(s) ==
  \/ Open(s) \/ OpenFails(s) \/ Write(s) \/ WriteFails(s)
  \/ Rename(s) \/ RenameFails(s) \/ Remove(s)

Next ==
  \/ \E s \in Savers : BeginSave(s) \/ SaveStep(s)
  \/ Update \/ Crash \/ Exit \/ LoadState \/ StatusRead \/ StatusBackup

Spec == Init /\ [][Next]_vars

\* A save moves on, and the ticker of stateSaverLoop fires.
Fairness ==
  /\ \A s \in Savers : WF_vars(SaveStep(s))
  /\ WF_vars(BeginSave(Ticker))
FairSpec == Spec /\ Fairness

-----------------------------------------------------------------------------
(* Properties.                                                              *)

\* README, state persistence: writes are atomic, to .tmp and then renamed.
\* The state file is absent or one complete state.
FileComplete == file \notin {Empty, Broken}

\* A save that no other save overlaps either publishes exactly the state it
\* copied, in place of one that is not newer or could not be read at the start,
\* or fails and leaves the state file alone, whatever temporary file crashes,
\* full disks and lost races have left behind (state.go:55-64).
SoloSave ==
  [][\A s \in Savers :
       alone[s] /\ pc[s] # "idle" /\ pc'[s] # pc[s] /\ up' =>
         IF pc[s] = "rename" /\ pc'[s] = "idle"
         THEN file' = snap[s] /\ (file \in Nat /\ ~unread => file <= snap[s])
         ELSE file' = file]_vars

\* Only a save that another one overlapped turns a complete state file into a
\* torn one: crashes and os.Exit in the middle of a save, full disks, what
\* they leave under the temporary name, and -status processes never do
\* (state.go:55-64, main.go:166).
TornByOverlap ==
  [][FileComplete /\ ~FileComplete' => \E s \in Savers : ~alone[s] /\ pc'[s] # pc[s]]_vars

\* What overlapping saves do to the file does not last: once only the ticker
\* saves, and its saves succeed time and again, the file comes to hold the state
\* in memory and keeps holding it (monitor.go:562).
TickerPublishes == pc[Ticker] = "rename" /\ pc'[Ticker] = "idle"
FileSettles ==
  /\ <>[](up /\ ~status /\ \A s \in Savers \ {Ticker} : pc[s] = "idle")
  /\ []<><<TickerPublishes>>_vars
  => <>[](file = version)

=============================================================================
