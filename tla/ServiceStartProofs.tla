-------------------------- MODULE ServiceStartProofs --------------------------
(* What is proved of ServiceStart: its types; that a suspected power loss was *)
(* one, the router having come up after the last save of the state; and that  *)
(* the service stands still only behind a wedged status request, and then for *)
(* good.                                                                      *)
EXTENDS ServiceStart, TLAPS

-----------------------------------------------------------------------------
(* Types                                                                      *)

\* A goroutine that goes from one place to another stays among the places.
LEMMA GotoType ==
  ASSUME TypeOK, NEW p \in Procs, NEW from, NEW to, Goto(p, from, to),
         to \in Places
  PROVE  pc' \in [Procs -> Places]
  BY DEF TypeOK, Goto

\* The mutex keeps the types, whoever asks for it.
LEMMA MutexType ==
  ASSUME TypeOK, NEW p \in Writers \cup {Start}, NEW from, NEW to, to \in {"idle", "delay"}
  PROVE  /\ Lock(p, from) => pc' \in [Procs -> Places]
                             /\ writer' = writer
         /\ Announce(p) => pc' \in [Procs -> Places]
                           /\ writer' = p
         /\ Locked(p) => pc' \in [Procs -> Places]
                         /\ writer' = writer
         /\ Unlock(p, to) => pc' \in [Procs -> Places]
                             /\ writer' = Nobody
<1>0. p \in Procs
  BY DEF Procs
<1>1. Lock(p, from) => pc' \in [Procs -> Places] /\ writer' = writer
  BY <1>0, GotoType DEF Lock, Places, Waiting
<1>2. Announce(p) => pc' \in [Procs -> Places] /\ writer' = p
  BY <1>0, GotoType DEF Announce, Places, Waiting
<1>3. Locked(p) => pc' \in [Procs -> Places] /\ writer' = writer
  BY <1>0, GotoType DEF Locked, Places
<1>4. Unlock(p, to) => pc' \in [Procs -> Places] /\ writer' = Nobody
  BY <1>0 DEF Unlock, TypeOK, Places, Reading
<1>5. QED BY <1>1, <1>2, <1>3, <1>4

\* The variables a step of a handler or of the mutex leaves alone.
Rest == <<clock, lastSave, boot, asks, downtime, suspected>>

\* So do the handlers and the loops ...
LEMMA HandlersType ==
  ASSUME TypeOK
  PROVE  /\ \A s \in Status : HandleStatus(s) => TypeOK' /\ UNCHANGED Rest
         /\ \A r \in Readers : HandleRead(r) => TypeOK' /\ UNCHANGED Rest
         /\ \A w \in Writers : Write(w) => TypeOK' /\ UNCHANGED Rest
<1>1. ASSUME NEW s \in Status, HandleStatus(s)
      PROVE  TypeOK' /\ UNCHANGED Rest
  <2>1. pc' \in [Procs -> Places]
    BY <1>1, GotoType DEF HandleStatus, NestedRead, RLock, Procs, Places, Reading, Waiting
  <2>2. writer' = writer /\ UNCHANGED Rest
    BY <1>1 DEF HandleStatus, NestedRead, RLock, Rest, time
  <2>3. QED BY <2>1, <2>2 DEF TypeOK, Rest
<1>2. ASSUME NEW r \in Readers, HandleRead(r)
      PROVE  TypeOK' /\ UNCHANGED Rest
  <2>1. pc' \in [Procs -> Places]
    BY <1>2, GotoType DEF HandleRead, RLock, Procs, Places, Reading, Waiting
  <2>2. writer' = writer /\ UNCHANGED Rest
    BY <1>2 DEF HandleRead, RLock, Rest, time
  <2>3. QED BY <2>1, <2>2 DEF TypeOK, Rest
<1>3. ASSUME NEW w \in Writers, Write(w)
      PROVE  TypeOK' /\ UNCHANGED Rest
  <2>1. pc' \in [Procs -> Places] /\ writer' \in Writers \cup {Start, Nobody}
    BY <1>3, MutexType DEF Write, TypeOK
  <2>2. UNCHANGED Rest
    BY <1>3 DEF Write, Announce, Locked, Rest, time
  <2>3. QED BY <2>1, <2>2 DEF TypeOK, Rest
<1>4. QED BY <1>1, <1>2, <1>3

-----------------------------------------------------------------------------
(* The invariant: the downtime that the router's uptime is compared with was  *)
(* taken no later than now, and the verdict stands as the property says.      *)

IInv ==
  /\ TypeOK
  /\ pc[Start] = "fetch" => lastSave # Never /\ downtime <= clock - lastSave
  /\ NoFalseSuspicion

\* Only Start gets to "fetch", and only by AskUptime.
LEMMA FetchOnlyStart ==
  ASSUME TypeOK, pc[Start] # "fetch"
  PROVE  /\ \A s \in Status : HandleStatus(s) => pc'[Start] # "fetch"
         /\ \A r \in Readers : HandleRead(r) => pc'[Start] # "fetch"
         /\ \A w \in Writers : Write(w) => pc'[Start] # "fetch"
<1>1. Start \in Procs /\ pc \in [Procs -> Places]
  BY DEF Procs, TypeOK
<1>2. ASSUME NEW s \in Status, HandleStatus(s)
      PROVE  pc'[Start] # "fetch"
  BY <1>1, <1>2, ProcsAssumption DEF HandleStatus, NestedRead, RLock, Goto
<1>3. ASSUME NEW r \in Readers, HandleRead(r)
      PROVE  pc'[Start] # "fetch"
  BY <1>1, <1>3, ProcsAssumption DEF HandleRead, RLock, Goto
<1>4. ASSUME NEW w \in Writers, Write(w)
      PROVE  pc'[Start] # "fetch"
  BY <1>1, <1>4, ProcsAssumption DEF Write, Lock, Announce, Locked, Unlock, Goto
<1>5. QED BY <1>2, <1>3, <1>4

LEMMA InitIInv == Init => IInv
<1> SUFFICES ASSUME Init
             PROVE  IInv
  OBVIOUS
<1>1. pc \in [Procs -> Places] /\ pc[Start] # "fetch"
  BY DEF Init, Places, Procs
<1>2. /\ clock \in 0..Horizon /\ lastSave \in (-Past)..0 \cup {Never}
      /\ boot \in (-Past)..Horizon /\ downtime \in 0..(Past + Horizon)
  BY TimesAssumption DEF Init
<1>3. writer \in Writers \cup {Start, Nobody} /\ asks \in BOOLEAN
  BY DEF Init
<1>4. suspected \in BOOLEAN /\ ~suspected
  BY DEF Init
<1>5. QED BY <1>1, <1>2, <1>3, <1>4 DEF IInv, TypeOK, NoFalseSuspicion

\* What Start does.
LEMMA StartKeepsIInv ==
  ASSUME IInv, StartUp
  PROVE  IInv'
<1>0. Start \in Procs /\ pc \in [Procs -> Places] /\ Start \in Writers \cup {Start}
  BY DEF Procs, TypeOK, IInv
<1> USE TimesAssumption
<1>1. CASE RLock(Start, "idle", "read", "rlock") /\ UNCHANGED <<time, downtime, suspected>>
  <2>1. pc' \in [Procs -> Places] /\ pc'[Start] # "fetch" /\ writer' = writer
    BY <1>0, <1>1 DEF RLock, Goto, Places, Reading, Waiting
  <2>2. QED BY <1>1, <2>1 DEF IInv, TypeOK, NoFalseSuspicion, time
<1>2. CASE NoPowerLoss \/ UptimeUnknown \/ Launch
  <2>1. pc' \in [Procs -> Places] /\ pc'[Start] # "fetch"
    BY <1>0, <1>2 DEF NoPowerLoss, UptimeUnknown, Launch, Goto, Places, Reading
  <2>2. QED BY <1>2, <2>1 DEF IInv, TypeOK, NoFalseSuspicion, NoPowerLoss, UptimeUnknown, Launch, time
<1>3. CASE AskUptime
  <2>1. pc' \in [Procs -> Places]
    BY <1>0, <1>3 DEF AskUptime, Goto, Places, Reading
  <2>2. downtime' \in 0..(Past + Horizon) /\ downtime' <= clock' - lastSave' /\ lastSave' # Never
    BY <1>3 DEF AskUptime, IInv, TypeOK, time
  <2>3. QED BY <1>3, <2>1, <2>2 DEF IInv, TypeOK, NoFalseSuspicion, AskUptime, time
<1>4. CASE UptimeKnown
  <2>1. pc' \in [Procs -> Places] /\ pc'[Start] # "fetch" /\ pc[Start] = "fetch"
    BY <1>0, <1>4 DEF UptimeKnown, Goto, Places, Reading
  <2>2. /\ lastSave # Never /\ downtime <= clock - lastSave
        /\ clock \in Int /\ boot \in Int /\ downtime \in Int /\ lastSave \in Int
    BY <2>1 DEF IInv, TypeOK
  <2>3. suspected' = (clock - boot <= downtime)
    BY <1>4 DEF UptimeKnown, PowerLoss
  <2>4. suspected' \in BOOLEAN
    BY <2>2, <2>3
  <2>5. suspected' => boot >= lastSave
    <3>1. ASSUME suspected'
          PROVE  clock - boot <= downtime
      BY <2>3, <3>1, Zenon
    <3>2. QED BY <2>2, <3>1
  <2>6. QED BY <1>4, <2>1, <2>2, <2>4, <2>5 DEF IInv, TypeOK, NoFalseSuspicion, UptimeKnown, time
<1>5. CASE MarkPowerLoss
  <2>1. pc' \in [Procs -> Places] /\ writer' \in Writers \cup {Start, Nobody}
    BY <1>0, <1>5, MutexType, GotoType DEF MarkPowerLoss, IInv, TypeOK, Places
  <2>2. pc'[Start] # "fetch"
    BY <1>0, <1>5 DEF MarkPowerLoss, Lock, Announce, Locked, Unlock, Goto
  <2>3. UNCHANGED Rest
    BY <1>5 DEF MarkPowerLoss, Announce, Locked, Rest, time
  <2>4. QED BY <2>1, <2>2, <2>3 DEF IInv, TypeOK, NoFalseSuspicion, Rest
<1>6. QED BY <1>1, <1>2, <1>3, <1>4, <1>5 DEF StartUp

\* Time and the router's boots only add to clock and boot.
LEMMA WorldKeepsIInv ==
  ASSUME IInv, Tick \/ RouterBoots
  PROVE  IInv'
<1> USE TimesAssumption
<1>1. CASE Tick
  <2>1. TypeOK'
    BY <1>1 DEF IInv, TypeOK, Tick
  <2>2. pc[Start] = "fetch" => lastSave # Never /\ downtime <= clock' - lastSave
    BY <1>1 DEF IInv, TypeOK, Tick
  <2>3. QED BY <1>1, <2>1, <2>2 DEF IInv, Tick, NoFalseSuspicion
<1>2. CASE RouterBoots
  <2>1. TypeOK'
    BY <1>2 DEF IInv, TypeOK, RouterBoots
  <2>2. suspected => boot' >= lastSave
    BY <1>2 DEF IInv, TypeOK, NoFalseSuspicion, RouterBoots
  <2>3. QED BY <1>2, <2>1, <2>2 DEF IInv, RouterBoots, NoFalseSuspicion
<1>3. QED BY <1>1, <1>2

LEMMA NextIInv == IInv /\ [Next]_vars => IInv'
<1> SUFFICES ASSUME IInv, [Next]_vars
             PROVE  IInv'
  OBVIOUS
<1>0. TypeOK
  BY DEF IInv
<1>1. CASE StartUp
  BY <1>1, StartKeepsIInv
<1>2. CASE \/ \E s \in Status : HandleStatus(s)
           \/ \E r \in Readers : HandleRead(r)
           \/ \E w \in Writers : Write(w)
  <2>1. TypeOK' /\ UNCHANGED Rest
    BY <1>0, <1>2, HandlersType
  <2>2. pc[Start] # "fetch" => pc'[Start] # "fetch"
    BY <1>0, <1>2, FetchOnlyStart
  <2>3. QED BY <2>1, <2>2 DEF IInv, NoFalseSuspicion, Rest
<1>3. CASE Tick \/ RouterBoots
  BY <1>3, WorldKeepsIInv
<1>4. CASE UNCHANGED vars
  BY <1>4 DEF IInv, TypeOK, NoFalseSuspicion, vars, time
<1>5. QED BY <1>1, <1>2, <1>3, <1>4 DEF Next

\* Types hold throughout (main.go:110-175, monitor.go:46-120).
THEOREM TypeCorrect == Spec => []TypeOK
<1>1. IInv => TypeOK
  BY DEF IInv
<1>2. QED BY InitIInv, NextIInv, <1>1, PTL DEF Spec

\* A suspected power loss was one, for every grace period and however long
\* the uptime took to fetch (state.go:109-163).
THEOREM SuspicionIsRight == Spec => []NoFalseSuspicion
<1>1. IInv => NoFalseSuspicion
  BY DEF IInv
<1>2. QED BY InitIInv, NextIInv, <1>1, PTL DEF Spec

-----------------------------------------------------------------------------
(* The mutex.  Who wedges whom depends on who waits for it, so the invariant  *)
(* says where a writer is, who waits behind one, and that a goroutine which   *)
(* reads and waits again is a status request.                                 *)

MutexInv ==
  /\ writer # Nobody => pc[writer] \in {"drain", "write"}
  /\ \A p \in Procs : pc[p] \in {"drain", "write"} => writer = p
  /\ \A p \in Procs : pc[p] \in {"rlock", "again"} => writer # Nobody
  /\ \A p \in Procs : pc[p] = "again" => p \in Status
  /\ \A p, q \in Procs : pc[p] = "write" => pc[q] \notin Reading

\* A goroutine that neither gets nor gives back the mutex.
LEMMA GotoKeepsMutex ==
  ASSUME TypeOK, MutexInv, NEW p \in Procs, NEW from, NEW to,
         Goto(p, from, to), UNCHANGED writer,
         from \notin {"drain", "write"}, to \notin {"drain", "write", "rlock", "again"},
         to \in Reading => from \in Reading
  PROVE  MutexInv'
  BY DEF TypeOK, MutexInv, Goto, Reading

\* RLock lets in while no writer is about, and only then.
LEMMA RLockKeepsMutex ==
  ASSUME TypeOK, MutexInv, NEW p \in Procs, NEW from, NEW to, NEW wait,
         RLock(p, from, to, wait), from \notin {"drain", "write"},
         to \in {"read", "nested"},
         wait = "rlock" \/ (wait = "again" /\ p \in Status /\ from \in Reading)
  PROVE  MutexInv'
<1>0. pc \in [Procs -> Places] /\ Nobody \notin Procs
  BY ProcsAssumption DEF TypeOK
<1>1. CASE writer = Nobody
  <2>1. \A q \in Procs : pc[q] \notin {"drain", "write"}
    BY <1>0, <1>1 DEF MutexInv
  <2>2. pc' = [pc EXCEPT ![p] = to] /\ writer' = Nobody
    BY <1>1 DEF RLock, Goto
  <2>3. QED BY <1>0, <1>1, <2>1, <2>2 DEF MutexInv
<1>2. CASE writer # Nobody
  <2>1. pc[p] = from /\ pc' = [pc EXCEPT ![p] = wait] /\ writer' = writer
    BY <1>2 DEF RLock, Goto
  <2>2. QED BY <1>0, <1>2, <2>1 DEF MutexInv, Reading
<1>3. QED BY <1>1, <1>2

LEMMA WriterKeepsMutex ==
  ASSUME TypeOK, MutexInv, NEW p \in Writers \cup {Start},
         NEW from, NEW to, from \notin {"drain", "write"}, to \in {"idle", "delay"},
         Lock(p, from) \/ Announce(p) \/ Locked(p) \/ Unlock(p, to)
  PROVE  MutexInv'
<1>0. p \in Procs /\ p # Nobody /\ pc \in [Procs -> Places]
  BY ProcsAssumption DEF TypeOK, Procs
<1>1. CASE Lock(p, from)
  BY <1>0, <1>1, GotoKeepsMutex DEF Lock, Reading
<1>2. CASE Announce(p)
  BY <1>0, <1>2, ProcsAssumption DEF Announce, Goto, MutexInv, Reading
<1>3. CASE Locked(p)
  BY <1>0, <1>3 DEF Locked, Goto, MutexInv, Reading
<1>4. CASE Unlock(p, to)
  BY <1>0, <1>4 DEF Unlock, MutexInv, Reading
<1>5. QED BY <1>1, <1>2, <1>3, <1>4

LEMMA NextMutex == TypeOK /\ MutexInv /\ [Next]_vars => MutexInv'
<1> SUFFICES ASSUME TypeOK, MutexInv, [Next]_vars
             PROVE  MutexInv'
  OBVIOUS
<1>0. Start \in Procs /\ Start \in Writers \cup {Start}
  BY DEF Procs
<1>1. CASE RLock(Start, "idle", "read", "rlock")
  BY <1>0, <1>1, RLockKeepsMutex
<1>2. CASE NoPowerLoss \/ AskUptime \/ UptimeKnown \/ UptimeUnknown \/ Launch
  BY <1>0, <1>2, GotoKeepsMutex
  DEF NoPowerLoss, AskUptime, UptimeKnown, UptimeUnknown, Launch, Reading
<1>3. CASE MarkPowerLoss
  <2>1. CASE Goto(Start, "delay", "running") /\ UNCHANGED writer
    BY <1>0, <2>1, GotoKeepsMutex DEF Reading
  <2>2. CASE Lock(Start, "decided") \/ Announce(Start) \/ Locked(Start) \/ Unlock(Start, "delay")
    BY <1>0, <2>2, WriterKeepsMutex
  <2>3. QED BY <1>3, <2>1, <2>2 DEF MarkPowerLoss
<1>4. ASSUME NEW s \in Status, HandleStatus(s)
      PROVE  MutexInv'
  <2>0. s \in Procs
    BY DEF Procs
  <2>1. CASE RLock(s, "idle", "read", "rlock") \/ RLock(s, "read", "nested", "again")
    BY <2>0, <2>1, RLockKeepsMutex DEF Reading
  <2>2. CASE (Goto(s, "nested", "reply") \/ Goto(s, "reply", "idle")) /\ UNCHANGED writer
    BY <2>0, <2>2, GotoKeepsMutex DEF Reading
  <2>3. QED BY <1>4, <2>1, <2>2 DEF HandleStatus, NestedRead
<1>5. ASSUME NEW r \in Readers, HandleRead(r)
      PROVE  MutexInv'
  <2>0. r \in Procs
    BY DEF Procs
  <2>1. QED BY <1>5, <2>0, RLockKeepsMutex, GotoKeepsMutex DEF HandleRead, Reading
<1>6. ASSUME NEW w \in Writers, Write(w)
      PROVE  MutexInv'
  BY <1>6, WriterKeepsMutex DEF Write
<1>7. CASE Tick \/ RouterBoots \/ UNCHANGED vars
  BY <1>7 DEF Tick, RouterBoots, vars, MutexInv
<1>8. QED BY <1>1, <1>2, <1>3, <1>4, <1>5, <1>6, <1>7 DEF Next, StartUp

\* The mutex excludes as it should, in every reachable state.
LEMMA MutexAlways == Spec => [](TypeOK /\ MutexInv)
<1>1. Init => MutexInv
  BY DEF Init, MutexInv, Reading
<1>2. QED BY <1>1, NextMutex, TypeCorrect, PTL DEF Spec

\* Whatever the numbers of requests, loops and writers, somebody can go on
\* unless a status request is wedged (state.go:136, cluster.go:390).
THEOREM NobodyStuck == Spec => []StuckOnlyIfWedged
<1>1. TypeOK /\ MutexInv => StuckOnlyIfWedged
  <2> SUFFICES ASSUME TypeOK, MutexInv, NEW p \in Procs, pc[p] \in Waiting, ~Wedged,
                      \A q \in Procs : ~CanGoOn(q)
               PROVE  FALSE
    BY DEF StuckOnlyIfWedged
  <2>1. \A q \in Procs : pc[q] \notin Reading
    BY DEF CanGoOn, Wedged, MutexInv
  <2>2. writer = Nobody
    <3>1. SUFFICES ASSUME writer # Nobody
                   PROVE  FALSE
      OBVIOUS
    <3>2. writer \in Procs /\ pc[writer] \in {"drain", "write"}
      BY <3>1 DEF TypeOK, MutexInv, Procs
    <3>3. QED BY <2>1, <3>2 DEF CanGoOn
  <2>3. pc[p] = "queue"
    BY <2>2, ProcsAssumption DEF MutexInv, Waiting
  <2>4. QED BY <2>2, <2>3 DEF CanGoOn
<1>2. QED BY <1>1, MutexAlways, PTL

\* A wedge is never resolved from within: the writer in front waits for the
\* status request, and everybody else for the writer.
THEOREM WedgeStays == Spec => WedgeIsFinal
<1> DEFINE Stays == Wedged => \A p \in Procs : pc[p] \in Waiting => pc'[p] = pc[p]
<1>1. TypeOK /\ MutexInv /\ [Next]_vars => Stays
  <2> SUFFICES ASSUME TypeOK, MutexInv, [Next]_vars, Wedged, NEW p \in Procs, pc[p] \in Waiting
               PROVE  pc'[p] = pc[p]
    OBVIOUS
  <2>1. PICK s \in Status : pc[s] = "again"
    BY DEF Wedged
  <2>2. /\ writer # Nobody /\ pc \in [Procs -> Places]
        /\ \A q \in Procs : pc[q] # "write"
        /\ \E q \in Procs : pc[q] \in Reading
    BY <2>1 DEF MutexInv, TypeOK, Procs, Reading
  <2>3. \A q, from, to : Goto(q, from, to) /\ from \notin Waiting => pc'[p] = pc[p]
    BY <2>2 DEF Goto
  <2>4. \A q : ~Announce(q) /\ ~Locked(q)
    BY <2>2 DEF Announce, Locked
  <2>5. \A q \in Writers \cup {Start} : \A to : ~Unlock(q, to)
    BY <2>2 DEF Unlock, Procs
  <2>6. CASE StartUp
    BY <2>3, <2>4, <2>5, <2>6
    DEF StartUp, RLock, NoPowerLoss, AskUptime, UptimeKnown, UptimeUnknown, Launch, MarkPowerLoss,
        Lock, Waiting
  <2>7. CASE \E q \in Status : HandleStatus(q)
    BY <2>3, <2>7 DEF HandleStatus, NestedRead, RLock, Waiting
  <2>8. CASE \E q \in Readers : HandleRead(q)
    BY <2>3, <2>8 DEF HandleRead, RLock, Waiting
  <2>9. CASE \E q \in Writers : Write(q)
    BY <2>3, <2>4, <2>5, <2>9 DEF Write, Lock, Waiting
  <2>10. CASE Tick \/ RouterBoots \/ UNCHANGED vars
    BY <2>10 DEF Tick, RouterBoots, vars
  <2>11. QED BY <2>6, <2>7, <2>8, <2>9, <2>10 DEF Next
<1>2. [][Stays]_vars <=> WedgeIsFinal
  BY DEF WedgeIsFinal
<1>3. QED BY <1>1, <1>2, MutexAlways, PTL DEF Spec

=============================================================================
