---------------------------- MODULE StateFileProofs ----------------------------
(***************************************************************************)
(* Proofs, for any set of saving goroutines, that a save which overlaps no *)
(* other publishes exactly what it copied or nothing, and never turns back *)
(* a state file that its process could read.  The latter needs to know     *)
(* that no temporary file of an earlier life of the process is ever        *)
(* renamed: whoever comes to rename has truncated the file before.         *)
(***************************************************************************)
EXTENDS StateFile, TLAPS

\* Saves run in a running process only, have the file open only to write it,
\* and the signal handler begins two.
SaveShape ==
  /\ \A s \in Savers : pc[s] # "idle" => up /\ snap[s] <= version
  /\ \A s \in Savers : pc[s] # "write" => fd[s] = "none"
  /\ pc[Signal] # "idle" => stopping < 2

\* Neither the state file nor a temporary file that may yet be renamed is
\* newer than the state in memory, unless the state file could not be read.
NotAhead ==
  /\ up /\ ~unread /\ file \in Nat => file <= version
  /\ \A s \in Savers : pc[s] \in {"write", "rename", "remove"} /\ tmp \in Nat => tmp <= version

\* A save that has been alone so far finds the disk as it left it.
Undisturbed ==
  \A s \in Savers : alone[s] /\ pc[s] # "idle" =>
    /\ \A t \in Savers \ {s} : pc[t] = "idle"
    /\ file \in Nat /\ ~unread => file <= snap[s]
    /\ pc[s] = "write" => fd[s] = "tmp" /\ tmp = Empty
    /\ pc[s] = "rename" => tmp = snap[s]

Inv == TypeOK /\ SaveShape /\ NotAhead /\ Undisturbed

\* What SoloSave asks of one step.
Solo ==
  \A s \in Savers :
    alone[s] /\ pc[s] # "idle" /\ pc'[s] # pc[s] /\ up' =>
      IF pc[s] = "rename" /\ pc'[s] = "idle"
      THEN file' = snap[s] /\ (file \in Nat /\ ~unread => file <= snap[s])
      ELSE file' = file

-----------------------------------------------------------------------------
LEMMA InitInv == Init => Inv
<1> SUFFICES ASSUME Init PROVE Inv
  OBVIOUS
<1> USE SaversAssumption, VersionAssumption, ContentAssumption
<1>1. TypeOK
  <2>1. alone \in [Savers -> BOOLEAN]
    BY Zenon DEF Init
  <2>2. 0 \in Versions /\ Absent \in Content
    BY DEF Versions, Content
  <2>3. /\ pc \in [Savers -> {"idle", "open", "write", "rename", "remove"}]
        /\ snap \in [Savers -> Versions]
        /\ fd \in [Savers -> {"tmp", "file", "none"}]
    BY <2>2 DEF Init
  <2>4. up \in BOOLEAN /\ status \in BOOLEAN /\ unread \in BOOLEAN
    BY Zenon DEF Init
  <2>5. version \in Versions /\ tmp \in Content /\ file \in Content /\ stopping \in 0..2
    BY <2>2 DEF Init
  <2> QED
    BY <2>1, <2>3, <2>4, <2>5, Zenon DEF TypeOK
<1>2. \A s \in Savers : pc[s] = "idle" /\ fd[s] = "none"
  BY DEF Init
<1>3. file \notin Nat
  BY DEF Init
<1>4. SaveShape /\ NotAhead /\ Undisturbed
  BY <1>2, <1>3 DEF SaveShape, NotAhead, Undisturbed
<1> QED
  BY <1>1, <1>4 DEF Inv

LEMMA BeginStep ==
  ASSUME Inv, NEW s \in Savers, BeginSave(s)
  PROVE  Inv' /\ Solo
<1> USE SaversAssumption, VersionAssumption, ContentAssumption DEF Inv
<1>1. TypeOK'
  BY DEF BeginSave, Goto, disk, TypeOK
<1>2. SaveShape'
  BY DEF BeginSave, Goto, disk, TypeOK, SaveShape, Versions
<1>3. NotAhead'
  BY DEF BeginSave, Goto, disk, TypeOK, NotAhead
<1>4. Undisturbed'
  <2> SUFFICES ASSUME NEW t \in Savers, alone'[t], pc'[t] # "idle"
               PROVE  /\ \A u \in Savers \ {t} : pc'[u] = "idle"
                      /\ file' \in Nat /\ ~unread' => file' <= snap'[t]
                      /\ pc'[t] = "open"
    BY DEF Undisturbed
  <2>1. t = s /\ \A u \in Savers : pc[u] = "idle"
    BY DEF BeginSave
  <2>2. snap'[s] = version /\ up /\ file' = file
    BY DEF BeginSave, disk, TypeOK
  <2> QED
    BY <2>1, <2>2 DEF BeginSave, Goto, TypeOK, NotAhead
<1>5. Solo
  BY DEF BeginSave, Goto, TypeOK, Solo
<1> QED
  BY <1>1, <1>2, <1>3, <1>4, <1>5

LEMMA TypeStep ==
  ASSUME Inv, NEW s \in Savers, SaveStep(s)
  PROVE  TypeOK' /\ SaveShape'
<1> USE SaversAssumption, VersionAssumption, ContentAssumption
<1>1. TypeOK /\ SaveShape
  BY DEF Inv
<1>2. s = Signal => stopping + 1 \in 0..2 \/ pc[s] = "idle"
  BY <1>1 DEF TypeOK, SaveShape
<1>3. snap[s] \in Content /\ Broken \in Content /\ Empty \in Content /\ Absent \in Content
      /\ Old(s) \in Content
  BY <1>1 DEF TypeOK, Content, Old
<1>4. CASE Open(s)
  BY <1>1, <1>3, <1>4 DEF Open, Goto, TypeOK, SaveShape
<1>5. CASE OpenFails(s)
  BY <1>1, <1>2, <1>5 DEF OpenFails, Return, Goto, disk, TypeOK, SaveShape
<1>6. CASE Write(s)
  <2>1. tmp' \in Content /\ file' \in Content
    BY <1>1, <1>3, <1>6 DEF Write, Put, TypeOK
  <2> QED
    BY <1>1, <1>6, <2>1 DEF Write, Goto, TypeOK, SaveShape
<1>7. CASE WriteFails(s)
  <2>1. tmp' \in Content /\ file' \in Content
    BY <1>1, <1>3, <1>7 DEF WriteFails, Put, TypeOK
  <2> QED
    BY <1>1, <1>2, <1>7, <2>1 DEF WriteFails, Return, Goto, TypeOK, SaveShape
<1>8. CASE Rename(s)
  BY <1>1, <1>2, <1>3, <1>8 DEF Rename, Return, Goto, Renamed, TypeOK, SaveShape
<1>9. CASE RenameFails(s)
  BY <1>1, <1>9 DEF RenameFails, Goto, disk, TypeOK, SaveShape
<1>10. CASE Remove(s)
  BY <1>1, <1>2, <1>3, <1>10 DEF Remove, Return, Goto, Renamed, TypeOK, SaveShape
<1> QED
  BY <1>4, <1>5, <1>6, <1>7, <1>8, <1>9, <1>10 DEF SaveStep

LEMMA AheadStep ==
  ASSUME Inv, NEW s \in Savers, SaveStep(s)
  PROVE  NotAhead'
<1> USE SaversAssumption, VersionAssumption, ContentAssumption
<1>1. TypeOK /\ SaveShape /\ NotAhead
  BY DEF Inv
<1>2. version' = version /\ up' = up /\ version \in Nat
  BY <1>1 DEF SaveStep, Open, OpenFails, Write, WriteFails, Rename, RenameFails, Remove,
     TypeOK, Versions
<1>3. CASE Open(s)
  BY <1>1, <1>2, <1>3 DEF Open, Goto, TypeOK, NotAhead
<1>4. CASE OpenFails(s) \/ RenameFails(s)
  BY <1>1, <1>2, <1>4 DEF OpenFails, RenameFails, Return, Goto, disk, TypeOK, NotAhead
<1>5. CASE Write(s) \/ WriteFails(s)
  <2>1. pc[s] = "write" /\ snap[s] <= version
    BY <1>1, <1>5 DEF Write, WriteFails, Return, Goto, SaveShape
  <2>2. PICK c \in {snap[s], Broken, Old(s)} : Put(s, c)
    BY <1>5 DEF Write, WriteFails
  <2>3. tmp \in Nat => tmp <= version
    BY <1>1, <2>1 DEF NotAhead
  <2>4. ~unread /\ file \in Nat => file <= version
    BY <1>1, <2>1 DEF NotAhead, SaveShape
  <2>5. tmp' \in Nat => tmp' <= version
    BY <2>1, <2>2, <2>3 DEF Put, Old
  <2>6. ~unread /\ file' \in Nat => file' <= version
    BY <2>1, <2>2, <2>4 DEF Put, Old
  <2>7. unread' = unread
    BY <1>5 DEF Write, WriteFails
  <2> QED
    BY <1>2, <2>5, <2>6, <2>7 DEF NotAhead
<1>6. CASE Rename(s)
  BY <1>1, <1>2, <1>6 DEF Rename, Return, Goto, TypeOK, NotAhead
<1>7. CASE Remove(s)
  BY <1>1, <1>2, <1>7 DEF Remove, Return, Goto, TypeOK, NotAhead
<1> QED
  BY <1>3, <1>4, <1>5, <1>6, <1>7 DEF SaveStep

LEMMA UndisturbedStep ==
  ASSUME Inv, NEW s \in Savers, SaveStep(s)
  PROVE  Undisturbed' /\ Solo
<1> USE SaversAssumption, VersionAssumption, ContentAssumption
<1>1. TypeOK /\ SaveShape /\ Undisturbed
  BY DEF Inv
<1>2. /\ pc[s] # "idle" /\ alone' = alone /\ snap' = snap
      /\ \A t \in Savers \ {s} : pc'[t] = pc[t]
  BY <1>1 DEF SaveStep, Open, OpenFails, Write, WriteFails, Rename, RenameFails, Remove,
     Return, Goto, TypeOK
<1>3. ASSUME NEW t \in Savers, t # s PROVE ~(alone[t] /\ pc[t] # "idle")
  BY <1>1, <1>2, <1>3 DEF Undisturbed
<1>4. CASE ~alone[s]
  BY <1>2, <1>3, <1>4 DEF Undisturbed, Solo
<1>5. CASE alone[s]
  <2>1. /\ \A t \in Savers \ {s} : pc[t] = "idle"
        /\ file \in Nat /\ ~unread => file <= snap[s]
        /\ pc[s] = "write" => fd[s] = "tmp" /\ tmp = Empty
        /\ pc[s] = "rename" => tmp = snap[s]
    BY <1>1, <1>2, <1>5 DEF Undisturbed
  <2>2. snap[s] \in Nat /\ snap[s] # Absent
    BY <1>1 DEF TypeOK, Versions
  <2>3. CASE Open(s)
    BY <1>1, <1>2, <1>3, <2>1, <2>3 DEF Open, Goto, TypeOK, Undisturbed, Solo
  <2>4. CASE Write(s)
    <3>1. Old(s) = Empty /\ fd[s] = "tmp"
      BY <2>1, <2>4 DEF Write, Goto, Old
    <3>2. tmp' = snap[s] /\ file' = file
      BY <2>4, <3>1 DEF Write, Put
    <3> QED
      BY <1>1, <1>2, <1>3, <2>1, <2>4, <3>2 DEF Write, Goto, TypeOK, Undisturbed, Solo
  <2>5. CASE Rename(s)
    BY <1>1, <1>2, <1>3, <2>1, <2>5 DEF Rename, Return, Goto, TypeOK, Undisturbed, Solo
  <2>6. CASE OpenFails(s) \/ WriteFails(s)
    <3>1. file' = file
      BY <2>1, <2>6 DEF OpenFails, WriteFails, Return, Goto, disk, Put
    <3>2. pc' = [pc EXCEPT ![s] = "idle"] /\ pc[s] # "rename"
      BY <2>6 DEF OpenFails, WriteFails, Return, Goto
    <3> QED
      BY <1>1, <1>2, <1>3, <3>1, <3>2 DEF TypeOK, Undisturbed, Solo
  <2>7. CASE RenameFails(s) \/ Remove(s)
    BY <1>1, <1>2, <1>3, <2>1, <2>7
       DEF RenameFails, Remove, Return, Goto, disk, TypeOK, Undisturbed, Solo
  <2> QED
    BY <2>3, <2>4, <2>5, <2>6, <2>7 DEF SaveStep
<1> QED
  BY <1>4, <1>5

\* The service and the -status process.
LEMMA OtherStep ==
  ASSUME Inv, Update \/ End \/ LoadState \/ StatusRead \/ StatusBackup \/ UNCHANGED vars
  PROVE  Inv' /\ Solo
<1> USE SaversAssumption, VersionAssumption, ContentAssumption DEF Inv
<1>1. CASE Update
  BY <1>1 DEF Update, disk, TypeOK, SaveShape, NotAhead, Undisturbed, Solo, Versions
<1>2. CASE End
  <2>1. alone' \in [Savers -> BOOLEAN]
    BY <1>2, Zenon DEF End
  <2>2. 0 \in Versions /\ up' = FALSE
    BY <1>2 DEF End, Versions
  <2>3. \A s \in Savers : pc'[s] = "idle" /\ fd'[s] = "none"
    BY <1>2 DEF End
  <2>4. /\ pc' \in [Savers -> {"idle", "open", "write", "rename", "remove"}]
        /\ snap' \in [Savers -> Versions]
        /\ fd' \in [Savers -> {"tmp", "file", "none"}]
    BY <1>2, <2>2 DEF End
  <2>5. up' \in BOOLEAN /\ status' \in BOOLEAN /\ unread' \in BOOLEAN
    BY <1>2, Zenon DEF End, TypeOK
  <2>6. version' \in Versions /\ tmp' \in Content /\ file' \in Content /\ stopping' \in 0..2
    BY <1>2, <2>2 DEF End, disk, TypeOK
  <2>7. TypeOK'
    BY <2>1, <2>4, <2>5, <2>6, Zenon DEF TypeOK
  <2>8. SaveShape' /\ NotAhead' /\ Undisturbed' /\ Solo
    BY <2>2, <2>3 DEF SaveShape, NotAhead, Undisturbed, Solo
  <2> QED
    BY <2>7, <2>8
<1>3. CASE LoadState
  <2>1. \A s \in Savers : pc[s] = "idle" /\ pc'[s] = "idle"
    BY <1>3 DEF LoadState, SaveShape
  <2>2. version' \in Versions
    BY <1>3 DEF LoadState, TypeOK, Versions, Content
  <2>3. unread' \in BOOLEAN /\ up' \in BOOLEAN
    <3>1. up' = TRUE
      BY <1>3 DEF LoadState
    <3>2. unread' = FALSE \/ unread' = (file \in Nat)
      BY <1>3 DEF LoadState
    <3>3. (file \in Nat) \in BOOLEAN
      OBVIOUS
    <3>4. unread' \in BOOLEAN
      BY <3>2, <3>3
    <3> QED
      BY <3>1, <3>4, Zenon
  <2>4. /\ UNCHANGED <<pc, snap, fd, tmp, stopping, status, alone>>
        /\ file' \in {file, Absent}
    BY <1>3 DEF LoadState
  <2>5. TypeOK'
    <3>1. status' \in BOOLEAN /\ alone' \in [Savers -> BOOLEAN]
      BY <2>4, Zenon DEF TypeOK
    <3> QED
      BY <2>2, <2>3, <2>4, <3>1 DEF TypeOK, Content
  <2>6. ~unread' /\ file' \in Nat => file' <= version'
    <3>1. CASE version' = IF file \in Nat THEN file ELSE 0
      BY <2>4, <3>1
    <3>2. CASE version' = 0 /\ file' = file /\ unread' = (file \in Nat)
      BY <3>2
    <3> QED
      BY <1>3, <3>1, <3>2 DEF LoadState
  <2> QED
    BY <2>1, <2>4, <2>5, <2>6 DEF SaveShape, NotAhead, Undisturbed, Solo
<1>4. CASE StatusRead
  BY <1>4 DEF StatusRead, disk, TypeOK, SaveShape, NotAhead, Undisturbed, Solo
<1>5. CASE StatusBackup
  <2>1. /\ file' \in {file, Absent}
        /\ UNCHANGED <<up, version, pc, snap, tmp, stopping, alone, unread>>
        /\ up' <=> up
        /\ unread' <=> unread
    BY <1>5, Zenon DEF StatusBackup
  <2>2. /\ fd' \in [Savers -> {"tmp", "file", "none"}]
        /\ \A s \in Savers : fd[s] \in {"tmp", "none"} => fd'[s] = fd[s]
    BY <1>5 DEF StatusBackup, Renamed, TypeOK
  <2>3. TypeOK'
    BY <1>5, <2>1, <2>2 DEF StatusBackup, TypeOK, Content
  <2>4. SaveShape' /\ NotAhead' /\ Undisturbed' /\ Solo
    BY <2>1, <2>2 DEF SaveShape, NotAhead, Undisturbed, Solo
  <2> QED
    BY <2>3, <2>4
<1>6. CASE UNCHANGED vars
  BY <1>6 DEF vars, disk, TypeOK, SaveShape, NotAhead, Undisturbed, Solo
<1> QED
  BY <1>1, <1>2, <1>3, <1>4, <1>5, <1>6

LEMMA Step == Inv /\ [Next]_vars => Inv' /\ Solo
<1> SUFFICES ASSUME Inv, [Next]_vars PROVE Inv' /\ Solo
  OBVIOUS
<1>1. ASSUME NEW s \in Savers, BeginSave(s) PROVE Inv' /\ Solo
  BY <1>1, BeginStep
<1>2. ASSUME NEW s \in Savers, SaveStep(s) PROVE Inv' /\ Solo
  BY <1>2, TypeStep, AheadStep, UndisturbedStep DEF Inv
<1> QED
  BY <1>1, <1>2, OtherStep DEF Next, Crash, Exit

\* The invariant of every reachable state.
THEOREM Invariance == Spec => []Inv
<1>1. Inv /\ [Next]_vars => Inv'
  BY Step
<1> QED
  BY InitInv, <1>1, PTL DEF Spec

\* Every variable keeps its type.
THEOREM TypeCorrect == Spec => []TypeOK
<1>1. Inv => TypeOK
  BY DEF Inv
<1> QED
  BY Invariance, <1>1, PTL

\* A save without company publishes what it copied or leaves the file alone, and
\* never turns back a file that its process could read, for any number of
\* savers, crashes and failed saves before it.
THEOREM SoloSaves == Spec => SoloSave
<1>1. Inv /\ [Next]_vars => [Solo]_vars
  BY Step
<1>2. [][Solo]_vars <=> SoloSave
  BY DEF SoloSave, Solo
<1> QED
  BY Invariance, <1>1, <1>2, PTL DEF Spec
-----------------------------------------------------------------------------
(* Who tears the file.                                                      *)

\* What TornByOverlap asks of one step.
Tearing == FileComplete /\ ~FileComplete' => \E s \in Savers : ~alone[s] /\ pc'[s] # pc[s]

\* A save that has been alone renames what it wrote in whole, and has never
\* the state file itself open.
LEMMA AloneKeepsWhole ==
  ASSUME Inv, NEW s \in Savers, SaveStep(s), alone[s], FileComplete
  PROVE  FileComplete'
<1> USE ContentAssumption DEF FileComplete
<1>1. TypeOK /\ Undisturbed /\ pc[s] # "idle"
  BY DEF Inv, SaveStep, Open, OpenFails, Write, WriteFails, Rename, RenameFails, Remove,
     Return, Goto
<1>2. /\ pc[s] = "write" => fd[s] = "tmp"
      /\ pc[s] = "rename" => tmp = snap[s]
      /\ snap[s] \in Nat
  BY <1>1 DEF Undisturbed, TypeOK, Versions
<1>3. CASE Write(s) \/ WriteFails(s)
  BY <1>2, <1>3 DEF Write, WriteFails, Return, Goto, Put
<1>4. CASE Rename(s)
  BY <1>2, <1>4 DEF Rename, Return, Goto
<1>5. CASE Open(s) \/ OpenFails(s) \/ RenameFails(s) \/ Remove(s)
  BY <1>5 DEF Open, OpenFails, RenameFails, Remove, disk
<1> QED
  BY <1>3, <1>4, <1>5 DEF SaveStep

LEMMA TearingStep == Inv /\ [Next]_vars => Tearing
<1> SUFFICES ASSUME Inv, [Next]_vars PROVE Tearing
  OBVIOUS
<1>1. ASSUME NEW s \in Savers, SaveStep(s) PROVE Tearing
  <2>1. pc'[s] # pc[s]
    BY <1>1 DEF SaveStep, Open, OpenFails, Write, WriteFails, Rename, RenameFails, Remove,
       Return, Goto, Inv, TypeOK
  <2> QED
    BY <1>1, <2>1, AloneKeepsWhole DEF Tearing
<1>2. ASSUME NEW s \in Savers, BeginSave(s) PROVE Tearing
  BY <1>2 DEF BeginSave, disk, Tearing, FileComplete
<1>3. CASE Update \/ End \/ StatusRead \/ UNCHANGED vars
  BY <1>3 DEF Update, End, StatusRead, vars, disk, Tearing, FileComplete
<1>4. CASE LoadState \/ StatusBackup
  BY <1>4, ContentAssumption DEF LoadState, StatusBackup, Tearing, FileComplete
<1> QED
  BY <1>1, <1>2, <1>3, <1>4 DEF Next, Crash, Exit

\* A state file that tears is torn by a save that overlapped another, for any
\* number of savers: nothing a lone save, a crash, a full disk or a -status
\* process does leaves an incomplete file under its name.
THEOREM OverlapTears == Spec => TornByOverlap
<1>1. Inv /\ [Next]_vars => [Tearing]_vars
  BY TearingStep
<1>2. [][Tearing]_vars <=> TornByOverlap
  BY DEF TornByOverlap, Tearing
<1> QED
  BY Invariance, <1>1, <1>2, PTL DEF Spec
=============================================================================
