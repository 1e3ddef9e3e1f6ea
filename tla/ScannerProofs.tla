---------------------------- MODULE ScannerProofs ----------------------------
(***************************************************************************)
(* What holds of Scanner for every machine, configuration, fault and       *)
(* number of scans.  See Scanner for what the properties are about.        *)
(***************************************************************************)
EXTENDS Scanner, TLAPS

-----------------------------------------------------------------------------
(* The type invariant is inductive.                                        *)

LEMMA NoReadingType ==
  /\ NoReading.val \in CounterValues
  /\ NoReading.have \in [Counter -> BOOLEAN]
  BY DEF NoReading, NoCounter, CounterValues

LEMMA TypeInit == Init => TypeOK
<1> SUFFICES ASSUME Init PROVE TypeOK
  OBVIOUS
<1> USE DEF Init, KernelInit, ScannerInit
<1>1. KernelTypeOK
  BY KernelAssumption DEF KernelTypeOK, Instance
<1>2. StateMapTypeOK
  BY DEF StateMapTypeOK, NewStateMap
<1>3. ReadingTypeOK
  BY NoReadingType DEF ReadingTypeOK, Steps
<1>4. ControlTypeOK
  <2>1. cfg \in Configs /\ pc \in Steps \cup {"idle", "walk", "stopped"}
    OBVIOUS
  <2>2. cancelled \in BOOLEAN
    OBVIOUS
  <2>3. scanNo \in 0..MaxScans /\ late \in Nat
    BY ScannerAssumption
  <2> QED
    BY <2>1, <2>2, <2>3 DEF ControlTypeOK
<1>5. HistoryTypeOK
  BY DEF HistoryTypeOK, NoCounter, CounterValues, Unread
<1> QED
  BY <1>1, <1>2, <1>3, <1>4, <1>5 DEF TypeOK

\* A step of the kernel keeps the process table well formed and only adds
\* start times.
LEMMA KernelType ==
  KernelTypeOK /\ KernelNext => KernelTypeOK' /\ lastStart <= lastStart'
<1> SUFFICES ASSUME KernelTypeOK, KernelNext PROVE KernelTypeOK' /\ lastStart <= lastStart'
  OBVIOUS
<1> PICK p \in PIDS :
      \/ Run(p) \/ Exit(p) \/ Reap(p)
      \/ \E g \in Programs : Exec(p, g)
      \/ \E u \in UIDS : SetUID(p, u)
      \/ \E g \in Programs, u \in UIDS : Fork(p, g, u)
  BY DEF KernelNext
<1> USE KernelAssumption DEF KernelTypeOK, Instance, Process
<1>1. CASE Run(p)
  <2>1. p \in DOMAIN proc /\ proc[p].start \in 1..MaxStart /\ work[proc[p].start] < MaxWork
    BY <1>1 DEF Run
  <2>2. work' = [work EXCEPT ![proc[p].start] = @ + 1] /\ UNCHANGED <<proc, lastStart>>
    BY <1>1 DEF Run
  <2> QED
    BY <2>1, <2>2
<1>0. ASSUME p \in DOMAIN proc,
             NEW e \in Process, e.start = proc[p].start,
             proc' = [proc EXCEPT ![p] = e], UNCHANGED <<lastStart, work>>
      PROVE  KernelTypeOK' /\ lastStart <= lastStart'
  BY <1>0
<1>2. CASE Exit(p)
  <2> DEFINE e == [proc[p] EXCEPT !.zombie = TRUE]
  <2>1. p \in DOMAIN proc /\ proc' = [proc EXCEPT ![p] = e] /\ UNCHANGED <<lastStart, work>>
    BY <1>2 DEF Exit
  <2>2. e \in Process /\ e.start = proc[p].start
    BY <2>1
  <2> QED
    BY <1>0, <2>1, <2>2
<1>3. CASE Reap(p)
  <2>1. proc' = [q \in DOMAIN proc \ {p} |-> proc[q]] /\ UNCHANGED <<lastStart, work>>
    BY <1>3 DEF Reap
  <2> QED
    BY <2>1
<1>4. ASSUME NEW g \in Programs, Exec(p, g) PROVE KernelTypeOK' /\ lastStart <= lastStart'
  <2> DEFINE e == [proc[p] EXCEPT !.prog = g]
  <2>1. p \in DOMAIN proc /\ proc' = [proc EXCEPT ![p] = e] /\ UNCHANGED <<lastStart, work>>
    BY <1>4 DEF Exec
  <2>2. e \in Process /\ e.start = proc[p].start
    BY <2>1
  <2> QED
    BY <1>0, <2>1, <2>2
<1>5. ASSUME NEW u \in UIDS, SetUID(p, u) PROVE KernelTypeOK' /\ lastStart <= lastStart'
  <2> DEFINE e == [proc[p] EXCEPT !.uid = u]
  <2>1. p \in DOMAIN proc /\ proc' = [proc EXCEPT ![p] = e] /\ UNCHANGED <<lastStart, work>>
    BY <1>5 DEF SetUID
  <2>2. e \in Process /\ e.start = proc[p].start
    BY <2>1
  <2> QED
    BY <1>0, <2>1, <2>2
<1>6. ASSUME NEW g \in Programs, NEW u \in UIDS, Fork(p, g, u)
      PROVE  KernelTypeOK' /\ lastStart <= lastStart'
  BY <1>6 DEF Fork
<1> QED
  BY <1>1, <1>2, <1>3, <1>4, <1>5, <1>6

LEMMA TypeKernel == TypeOK /\ KernelStep => TypeOK'
<1> SUFFICES ASSUME TypeOK, KernelStep PROVE TypeOK'
  OBVIOUS
<1>1. KernelTypeOK' /\ lastStart <= lastStart' /\ lastStart \in Nat /\ lastStart' \in Nat
  BY KernelType, KernelAssumption DEF TypeOK, KernelStep, KernelTypeOK
<1> QED
  BY <1>1 DEF TypeOK, KernelStep, scannerVars, historyVars, StateMapTypeOK,
              ReadingTypeOK, ControlTypeOK, HistoryTypeOK

\* readProcess returned nil: nothing is left of the reading.
LEMMA DropType ==
  ASSUME TypeOK, Drop, UNCHANGED <<kernelVars, cfg, cancelled, scanNo, emitted, base>>,
         StateMapTypeOK', late' \in Nat
  PROVE  TypeOK'
  BY NoReadingType
  DEF Drop, TypeOK, kernelVars, KernelTypeOK, ReadingTypeOK, ControlTypeOK,
      HistoryTypeOK, Steps

\* Between Lookup and Record a reading keeps its identity and its stat part.
KeepsReading ==
  /\ pc \in Steps /\ pc' \in Steps
  /\ DOMAIN rd' = DOMAIN rd
  /\ rd'.pid = rd.pid
  /\ rd'.start = rd.start
  /\ rd'.havePrev = rd.havePrev
  /\ rd'.val \in CounterValues
  /\ rd'.have \in [Counter -> BOOLEAN]
  /\ rd'.val["cpu"] = rd.val["cpu"]
  /\ rd'.have["cpu"] = rd.have["cpu"]

LEMMA KeepsReadingType ==
  ASSUME TypeOK, KeepsReading,
         UNCHANGED <<kernelVars, cfg, cancelled, m, gen, scanNo, scan, historyVars>>
  PROVE  TypeOK'
  BY DEF KeepsReading, TypeOK, kernelVars, historyVars, KernelTypeOK, StateMapTypeOK,
         ReadingTypeOK, ControlTypeOK, HistoryTypeOK

StatVal(w) == [NoReading.val EXCEPT !["cpu"] = w]
StatHave   == [NoReading.have EXCEPT !["cpu"] = TRUE]

\* What is known of a process once its stat is read.
LEMMA StatShape ==
  \A c, p :
    LET r == StatReading(c, p)
    IN  /\ DOMAIN r = DOMAIN NoReading
        /\ r.pid = p /\ r.start = proc[p].start /\ r.comm = proc[p].prog.comm
        /\ r.havePrev = Lookup(m, p, proc[p].start).found
        /\ r.cmdline = NoText /\ r.cmdRead = FALSE /\ r.statusRead = FALSE
        /\ r.val = StatVal(work[proc[p].start]) /\ r.have = StatHave
        /\ \/ Cached(c, r) /\ m[p].user # NoUser /\ r.uid = m[p].uid /\ r.user = m[p].user
           \/ ~(Cached(c, r) /\ m[p].user # NoUser) /\ r.uid = 0 /\ r.user = NoUser
<1> TAKE c, p
<1> DEFINE found == Lookup(m, p, proc[p].start).found
           val   == StatVal(work[proc[p].start])
           cached == found /\ c.cacheCmdline /\ m[p].user # NoUser
           b     == [ NoReading EXCEPT
                        !.pid = p, !.start = proc[p].start, !.comm = proc[p].prog.comm,
                        !.kernel = proc[p].prog.kernel, !.zombie = proc[p].zombie,
                        !.havePrev = found, !.val = val, !.have = StatHave ]
           r     == IF cached THEN [b EXCEPT !.uid = m[p].uid, !.user = m[p].user] ELSE b
<1>1. b.havePrev = found
  BY DEF NoReading
<1>2. StatReading(c, p) = r
  BY <1>1 DEF StatReading, NoReading, Cached, StatVal, StatHave
<1> HIDE DEF found, val
<1>3. /\ DOMAIN b = DOMAIN NoReading /\ {"uid", "user"} \subseteq DOMAIN b
      /\ b.pid = p /\ b.start = proc[p].start /\ b.comm = proc[p].prog.comm
      /\ b.havePrev = found
      /\ b.cmdline = NoText /\ b.cmdRead = FALSE /\ b.statusRead = FALSE
      /\ b.val = val /\ b.have = StatHave /\ b.uid = 0 /\ b.user = NoUser
  BY DEF NoReading
<1> HIDE DEF b, cached
<1>4. /\ DOMAIN r = DOMAIN NoReading
      /\ r.pid = p /\ r.start = proc[p].start /\ r.comm = proc[p].prog.comm
      /\ r.havePrev = found
      /\ r.cmdline = NoText /\ r.cmdRead = FALSE /\ r.statusRead = FALSE
      /\ r.val = val /\ r.have = StatHave
      /\ IF cached THEN r.uid = m[p].uid /\ r.user = m[p].user
                   ELSE r.uid = 0 /\ r.user = NoUser
  BY <1>3
<1> HIDE DEF r
<1> QED
  BY <1>2, <1>4 DEF found, val, cached, Cached

LEMMA TypeReadStat == \A p \in PIDS : TypeOK /\ ReadStat(p) => TypeOK'
<1> SUFFICES ASSUME NEW p \in PIDS, TypeOK, ReadStat(p) PROVE TypeOK'
  OBVIOUS
<1>1. UNCHANGED <<kernelVars, cfg, cancelled, gen, scanNo, emitted, base>> /\ late' \in Nat
  BY DEF ReadStat, TypeOK, ControlTypeOK
<1>2. CASE Drop /\ UNCHANGED m
  BY <1>1, <1>2, DropType DEF TypeOK, StateMapTypeOK, kernelVars
<1>3. ASSUME p \in DOMAIN proc,
             m' = Lookup(m, p, proc[p].start).map,
             pc' \in Steps,
             DOMAIN rd' = DOMAIN NoReading, rd'.pid = p, rd'.start = proc[p].start,
             rd'.havePrev = Lookup(m, p, proc[p].start).found,
             rd'.val \in CounterValues, rd'.have \in [Counter -> BOOLEAN]
      PROVE  TypeOK'
  <2>1. StateMapTypeOK'
    BY <1>1, <1>3 DEF Lookup, TypeOK, StateMapTypeOK, kernelVars
  <2>2. proc[p].start \in 1..lastStart
    BY <1>3, KernelAssumption DEF TypeOK, KernelTypeOK, Process, Instance
  <2>3. ReadingTypeOK'
    BY <1>1, <1>3, <2>2 DEF Lookup, ReadingTypeOK, kernelVars
  <2> QED
    BY <1>1, <1>3, <2>1, <2>3
    DEF TypeOK, kernelVars, KernelTypeOK, ControlTypeOK, HistoryTypeOK
<1>4. CASE Drop /\ m' = m
  BY <1>2, <1>4
<1>5. ASSUME p \in DOMAIN proc,
             m' = Lookup(m, p, proc[p].start).map,
             rd' = StatReading(scan.cfg, p),
             pc' = AfterStat(scan.cfg, rd')
      PROVE  TypeOK'
  <2> DEFINE start == proc[p].start
  <2>1. work[start] \in Nat
    BY <1>5, KernelAssumption DEF TypeOK, KernelTypeOK, Process, Instance
  <2>2. /\ DOMAIN rd' = DOMAIN NoReading
        /\ rd'.pid = p
        /\ rd'.start = start
        /\ rd'.havePrev = Lookup(m, p, start).found
        /\ rd'.val = [NoReading.val EXCEPT !["cpu"] = work[start]]
        /\ rd'.have = [NoReading.have EXCEPT !["cpu"] = TRUE]
    <3>1. rd' = StatReading(scan.cfg, p)
      BY <1>5
    <3>2. DOMAIN rd' = DOMAIN NoReading /\ rd'.pid = p /\ rd'.start = start
      BY <3>1, StatShape
    <3>3. rd'.havePrev = Lookup(m, p, start).found
      BY <3>1, StatShape
    <3>4. rd'.val = StatVal(work[start]) /\ rd'.have = StatHave
      BY <3>1, StatShape
    <3> QED
      BY <3>2, <3>3, <3>4 DEF StatVal, StatHave
  <2>3. rd'.val \in CounterValues /\ rd'.have \in [Counter -> BOOLEAN]
    BY <2>1, <2>2, NoReadingType DEF CounterValues
  <2>4. pc' \in Steps
    BY <1>5 DEF AfterStat, AfterCmdline, Steps
  <2> QED
    BY <1>3, <1>5, <2>2, <2>3, <2>4
<1>6. \/ Drop /\ m' = m
      \/ /\ p \in DOMAIN proc
         /\ m' = Lookup(m, p, proc[p].start).map
         /\ rd' = StatReading(scan.cfg, p)
         /\ pc' = AfterStat(scan.cfg, rd')
  BY DEF ReadStat, Vanish, Outcome
<1> QED
  BY <1>4, <1>5, <1>6

\* The reads that follow stat.
LaterRead == ReadCmdline \/ ReadStatus \/ ReadStatm \/ ReadIO \/ ReadFDs \/ ReadSmaps

LEMMA LaterReadShape ==
  TypeOK /\ LaterRead =>
    /\ UNCHANGED <<kernelVars, cfg, cancelled, m, gen, scanNo, scan, historyVars>>
    /\ Drop \/ KeepsReading
<1>1. LaterRead => /\ UNCHANGED <<kernelVars, cfg, cancelled, m, gen, scanNo, scan, historyVars>>
                   /\ pc \in Steps
  BY DEF LaterRead, ReadCmdline, ReadStatus, ReadStatm, ReadIO, ReadFDs, ReadSmaps, Steps
<1> SUFFICES ASSUME TypeOK, LaterRead PROVE Drop \/ KeepsReading
  BY <1>1
<1>2. ASSUME NEW p \in DOMAIN proc PROVE work[proc[p].start] \in Nat
  BY KernelAssumption DEF TypeOK, KernelTypeOK, Process, Instance
<1>3. /\ DOMAIN rd = DOMAIN NoReading
      /\ rd.val \in CounterValues
      /\ rd.have \in [Counter -> BOOLEAN]
  BY DEF TypeOK, ReadingTypeOK
<1> USE DEF KeepsReading
<1>4. CASE ReadCmdline
  <2>1. \/ Drop
        \/ /\ pc' = AfterCmdline(scan.cfg, rd)
           /\ \E t : rd' = [rd EXCEPT !.cmdRead = TRUE, !.cmdline = t]
    BY <1>4 DEF ReadCmdline, Vanish
  <2>2. ASSUME NEW t, rd' = [rd EXCEPT !.cmdRead = TRUE, !.cmdline = t],
               pc' = AfterCmdline(scan.cfg, rd)
        PROVE  KeepsReading
    BY <1>1, <1>3, <2>2 DEF NoReading, AfterCmdline, Steps
  <2> QED
    BY <2>1, <2>2
<1>5. CASE ReadStatus
  <2> DEFINE u == proc[rd.pid].uid
             n == IF rd.user = NoUser THEN UserName(scan.cfg, u) ELSE rd.user
             w == work[proc[rd.pid].start]
             ok == [ rd EXCEPT !.statusRead = TRUE, !.uid = u, !.user = n,
                               !.val["ctx"] = w, !.have["ctx"] = TRUE ]
  <2>1. \/ Drop
        \/ pc' = "filter" /\ rd' = [rd EXCEPT !.statusRead = TRUE]
        \/ pc' = "filter" /\ rd.pid \in DOMAIN proc /\ rd' = ok
    BY <1>1, <1>3, <1>5 DEF ReadStatus, Vanish, Outcome, NoReading
  <2>2. pc' = "filter" /\ rd' = [rd EXCEPT !.statusRead = TRUE] => KeepsReading
    BY <1>1, <1>3 DEF NoReading, Steps
  <2>3. ASSUME pc' = "filter", rd.pid \in DOMAIN proc, rd' = ok PROVE KeepsReading
    <3>1. /\ DOMAIN rd' = DOMAIN rd
          /\ rd'.pid = rd.pid
          /\ rd'.start = rd.start
          /\ rd'.havePrev = rd.havePrev
          /\ rd'.val = [rd.val EXCEPT !["ctx"] = w]
          /\ rd'.have = [rd.have EXCEPT !["ctx"] = TRUE]
      BY <1>1, <1>3, <2>3 DEF NoReading
    <3>2. w \in Nat
      BY <1>2, <2>3
    <3>3. pc' \in Steps
      BY <2>3 DEF Steps
    <3> QED
      BY <1>1, <1>3, <3>1, <3>2, <3>3 DEF CounterValues, Counter
  <2> QED
    BY <2>1, <2>2, <2>3
<1>6. CASE ReadStatm
  <2>1. Drop \/ (pc' = AfterStatm /\ rd' = rd)
    BY <1>6 DEF ReadStatm, Vanish
  <2>2. pc' = AfterStatm /\ rd' = rd => KeepsReading
    BY <1>1, <1>3 DEF AfterStatm, AfterIO, AfterFDs, Steps
  <2> QED
    BY <2>1, <2>2
<1>7. CASE ReadIO
  <2>1. \/ Drop
        \/ pc' = AfterIO /\ rd' = rd
        \/ /\ pc' = AfterIO
           /\ rd.pid \in DOMAIN proc
           /\ rd' = [rd EXCEPT !.val["io"] = work[proc[rd.pid].start],
                               !.have["io"] = TRUE]
    BY <1>7 DEF ReadIO, Vanish, Outcome
  <2>2. pc' = AfterIO /\ rd' = rd => KeepsReading
    BY <1>1, <1>3 DEF AfterIO, AfterFDs, Steps
  <2>3. ASSUME pc' = AfterIO, rd.pid \in DOMAIN proc,
               rd' = [rd EXCEPT !.val["io"] = work[proc[rd.pid].start],
                                !.have["io"] = TRUE]
        PROVE  KeepsReading
    <3>1. /\ DOMAIN rd' = DOMAIN rd
          /\ rd'.pid = rd.pid
          /\ rd'.start = rd.start
          /\ rd'.havePrev = rd.havePrev
          /\ rd'.val = [rd.val EXCEPT !["io"] = work[proc[rd.pid].start]]
          /\ rd'.have = [rd.have EXCEPT !["io"] = TRUE]
      BY <1>1, <1>3, <2>3 DEF NoReading
    <3>2. work[proc[rd.pid].start] \in Nat
      BY <1>2, <2>3
    <3>3. pc' \in Steps
      BY <2>3 DEF AfterIO, AfterFDs, Steps
    <3> QED
      BY <1>1, <1>3, <3>1, <3>2, <3>3 DEF CounterValues, Counter
  <2> QED
    BY <2>1, <2>2, <2>3
<1>8. CASE ReadFDs
  <2>1. Drop \/ (pc' = AfterFDs /\ \E b : rd' = [rd EXCEPT !.haveFDs = b])
    BY <1>8 DEF ReadFDs, Vanish
  <2>2. ASSUME pc' = AfterFDs, NEW b, rd' = [rd EXCEPT !.haveFDs = b] PROVE KeepsReading
    BY <1>1, <1>3, <2>2 DEF NoReading, AfterFDs, Steps
  <2> QED
    BY <2>1, <2>2
<1>9. CASE ReadSmaps
  <2>1. Drop \/ (pc' = "record" /\ \E b : rd' = [rd EXCEPT !.havePSS = b])
    BY <1>9 DEF ReadSmaps, Vanish
  <2>2. ASSUME pc' = "record", NEW b, rd' = [rd EXCEPT !.havePSS = b] PROVE KeepsReading
    BY <1>1, <1>3, <2>2 DEF NoReading, Steps
  <2> QED
    BY <2>1, <2>2
<1> QED
  BY <1>1, <1>4, <1>5, <1>6, <1>7, <1>8, <1>9 DEF LaterRead

LEMMA TypeLaterRead == TypeOK /\ LaterRead => TypeOK'
<1> SUFFICES ASSUME TypeOK, LaterRead PROVE TypeOK'
  OBVIOUS
<1>1. CASE Drop
  BY <1>1, DropType, LaterReadShape
  DEF TypeOK, StateMapTypeOK, kernelVars, historyVars, ControlTypeOK
<1>2. CASE KeepsReading
  BY <1>2, KeepsReadingType, LaterReadShape
<1> QED
  BY <1>1, <1>2, LaterReadShape

LEMMA FilterAndNameShape ==
  TypeOK /\ FilterAndName =>
    /\ UNCHANGED <<kernelVars, cfg, cancelled, gen, scanNo, scan, historyVars>>
    /\ \/ Drop /\ m' = Touch(m, gen, rd.pid)
       \/ KeepsReading /\ m' = m
<1> SUFFICES ASSUME TypeOK, FilterAndName
             PROVE  \/ Drop /\ m' = Touch(m, gen, rd.pid)
                    \/ KeepsReading /\ m' = m
  BY DEF FilterAndName
<1>1. ASSUME NEW n, NEW u, rd' = [rd EXCEPT !.name = n, !.user = u], pc' = "statm"
      PROVE  KeepsReading
  BY <1>1 DEF FilterAndName, KeepsReading, TypeOK, ReadingTypeOK, NoReading, Steps
<1>2. \/ Drop /\ m' = Touch(m, gen, rd.pid)
      \/ pc' = "statm" /\ m' = m /\ \E n, u : rd' = [rd EXCEPT !.name = n, !.user = u]
  BY DEF FilterAndName
<1> QED
  BY <1>1, <1>2

LEMMA TypeFilterAndName == TypeOK /\ FilterAndName => TypeOK'
<1> SUFFICES ASSUME TypeOK, FilterAndName PROVE TypeOK'
  OBVIOUS
<1>1. CASE Drop /\ m' = Touch(m, gen, rd.pid)
  <2>1. StateMapTypeOK'
    BY <1>1, FilterAndNameShape
    DEF Touch, TypeOK, StateMapTypeOK, kernelVars, PIDStateFields
  <2> QED
    BY <1>1, <2>1, DropType, FilterAndNameShape DEF TypeOK, ControlTypeOK, historyVars
<1>2. CASE KeepsReading /\ m' = m
  BY <1>2, KeepsReadingType, FilterAndNameShape
<1> QED
  BY <1>1, <1>2, FilterAndNameShape

\* What the aggregator adds for a process is a natural number.
LEMMA DeltasType == TypeOK /\ pc \in Steps => Deltas \in CounterValues
  BY DEF TypeOK, ReadingTypeOK, StateMapTypeOK, Deltas, Delta, CounterValues

LEMMA TypeRecord == TypeOK /\ Record => TypeOK'
<1> SUFFICES ASSUME TypeOK, Record PROVE TypeOK'
  OBVIOUS
<1>1. /\ UNCHANGED <<kernelVars, cfg, cancelled, gen, scanNo, scan, late>>
      /\ Drop
      /\ pc \in Steps
      /\ m' = Put(m, gen, rd.pid, NewState)
  BY DEF Record, Steps
<1>2. StateMapTypeOK'
  BY <1>1 DEF Put, NewState, PIDStateFields, TypeOK, StateMapTypeOK, ReadingTypeOK, kernelVars
<1>3. HistoryTypeOK'
  <2> DEFINE sum == [c \in Counter |->
                        emitted[rd.start][c] + IF rd.have[c] THEN Deltas[c] ELSE 0]
  <2>1. rd.start \in Instance /\ emitted[rd.start] \in CounterValues
    BY <1>1, KernelAssumption
    DEF Instance, TypeOK, KernelTypeOK, ReadingTypeOK, HistoryTypeOK
  <2>2. emitted' \in [Instance -> CounterValues]
    <3>1. Deltas \in CounterValues
      BY <1>1, DeltasType
    <3>2. sum \in CounterValues
      BY <2>1, <3>1 DEF CounterValues
    <3>3. emitted' = [emitted EXCEPT ![rd.start] = sum]
      BY DEF Record
    <3> QED
      BY <2>1, <3>2, <3>3 DEF TypeOK, HistoryTypeOK
  <2>3. base' \in [Instance -> [Counter -> Nat \cup {Unread}]]
    BY DEF Record, TypeOK, HistoryTypeOK, ReadingTypeOK, CounterValues
  <2> QED
    BY <2>2, <2>3 DEF HistoryTypeOK
<1> QED
  BY <1>1, <1>2, <1>3, NoReadingType
  DEF Drop, TypeOK, kernelVars, KernelTypeOK, ReadingTypeOK, ControlTypeOK, Steps

\* The step between two batches changes nothing but the room for the next one.
LEMMA StartBatchShape ==
  StartBatch =>
    /\ UNCHANGED <<kernelVars, cfg, cancelled, m, gen, scanNo, pc, rd, res, historyVars>>
    /\ pc = "walk"
    /\ UNCHANGED <<scan.cfg, scan.listed, scan.todo, scan.doFDs, scan.doSmaps>>
BY DEF StartBatch, AtBatchEnd

\* The steps of the scan loop and its surroundings, which read no file.
Outer ==
  \/ BeginScan \/ StartBatch \/ AbortScan \/ EndScan \/ ResetState \/ Cancel \/ Stop
  \/ \E c \in Configs : Reload(c)
  \/ UNCHANGED vars

LEMMA TypeOuter == TypeOK /\ Outer => TypeOK'
<1> USE DEF TypeOK, kernelVars, scannerVars, historyVars, KernelTypeOK, HistoryTypeOK
<1>1. TypeOK /\ BeginScan => TypeOK'
  BY ScannerAssumption
  DEF BeginScan, NextGeneration, StateMapTypeOK, ReadingTypeOK, ControlTypeOK, Steps
<1>2. TypeOK /\ (StartBatch \/ AbortScan) => TypeOK'
  BY DEF StartBatch, AbortScan, AtBatchEnd, StateMapTypeOK, ReadingTypeOK, ControlTypeOK, Steps
<1>3. TypeOK /\ EndScan => TypeOK'
  BY DEF EndScan, Prune, StateMapTypeOK, ReadingTypeOK, ControlTypeOK, Steps
<1>4. TypeOK /\ ResetState => TypeOK'
  BY DEF ResetState, NewStateMap, StateMapTypeOK, ReadingTypeOK, ControlTypeOK, Steps
<1>5. TypeOK /\ Cancel => TypeOK'
  BY DEF Cancel, StateMapTypeOK, ReadingTypeOK, ControlTypeOK
<1>6. TypeOK /\ Stop => TypeOK'
  BY DEF Stop, StateMapTypeOK, ReadingTypeOK, ControlTypeOK, Steps
<1>7. ASSUME NEW c \in Configs PROVE TypeOK /\ Reload(c) => TypeOK'
  BY DEF Reload, StateMapTypeOK, ReadingTypeOK, ControlTypeOK
<1>8. TypeOK /\ UNCHANGED vars => TypeOK'
  BY DEF vars, StateMapTypeOK, ReadingTypeOK, ControlTypeOK
<1> QED
  BY <1>1, <1>2, <1>3, <1>4, <1>5, <1>6, <1>7, <1>8 DEF Outer

LEMMA TypeStep == TypeOK /\ [Next]_vars => TypeOK'
<1> SUFFICES ASSUME TypeOK, [Next]_vars PROVE TypeOK'
  OBVIOUS
<1>1. CASE KernelStep
  BY <1>1, TypeKernel
<1>2. CASE \E p \in PIDS : ReadStat(p)
  BY <1>2, TypeReadStat
<1>3. CASE LaterRead
  BY <1>3, TypeLaterRead
<1>4. CASE FilterAndName
  BY <1>4, TypeFilterAndName
<1>5. CASE Record
  BY <1>5, TypeRecord
<1>6. CASE Outer
  BY <1>6, TypeOuter
<1> QED
  BY <1>1, <1>2, <1>3, <1>4, <1>5, <1>6 DEF Next, ScanStep, Halted, Outer, LaterRead

THEOREM TypeCorrect == Spec => []TypeOK
  BY TypeInit, TypeStep, PTL DEF Spec

-----------------------------------------------------------------------------
(***************************************************************************)
(* Counting is sound.  The property is not inductive: a delta is sound     *)
(* because the baseline it is taken from is, and because baseline, reading *)
(* and history are of one instance.  The invariant says both: a start time *)
(* belongs to one PID wherever it appears, and history, baselines, the     *)
(* reading under assembly and the true counter are in that order.          *)
(***************************************************************************)
UniqueStarts ==
  /\ \A p, q \in DOMAIN proc : proc[p].start = proc[q].start => p = q
  /\ \A p, q \in DOMAIN m : m[p].start = m[q].start => p = q
  /\ \A p \in DOMAIN proc, q \in DOMAIN m : proc[p].start = m[q].start => p = q
  /\ pc \in Steps => /\ \A p \in DOMAIN proc : proc[p].start = rd.start => p = rd.pid
                     /\ \A q \in DOMAIN m : m[q].start = rd.start => q = rd.pid

\* What was counted for instance i fits below a later value v of its counter.
CountedBelow(i, v) ==
  IF base[i]["cpu"] = Unread
  THEN emitted[i]["cpu"] = 0
  ELSE emitted[i]["cpu"] + base[i]["cpu"] <= v

EntrySound(p) ==
  /\ base[m[p].start]["cpu"] # Unread
  /\ CountedBelow(m[p].start, m[p].cnt["cpu"])
  /\ m[p].cnt["cpu"] <= work[m[p].start]

ReadingSound ==
  /\ rd.have["cpu"] = TRUE
  /\ CountedBelow(rd.start, rd.val["cpu"])
  /\ rd.val["cpu"] <= work[rd.start]
  /\ rd.havePrev => m[rd.pid].cnt["cpu"] <= rd.val["cpu"]

Baselines ==
  /\ \A i \in Instance : CountedBelow(i, work[i])
  /\ \A p \in DOMAIN m : EntrySound(p)
  /\ pc \in Steps => ReadingSound

CountingInv == TypeOK /\ UniqueStarts /\ Baselines

LEMMA CountingInit == Init => CountingInv
<1> SUFFICES ASSUME Init PROVE CountingInv
  OBVIOUS
<1>1. TypeOK
  BY TypeInit
<1>2. UniqueStarts
  BY DEF Init, KernelInit, ScannerInit, NewStateMap, UniqueStarts, Steps
<1>3. Baselines
  BY DEF Init, KernelInit, ScannerInit, NewStateMap, Baselines, CountedBelow, Steps, NoCounter,
         Counter
<1> QED
  BY <1>1, <1>2, <1>3 DEF CountingInv

\* Entries may be dropped or stamped, and no reading is left.
LEMMA CountingShrink ==
  ASSUME CountingInv, pc' \notin Steps, UNCHANGED <<kernelVars, emitted, base>>,
         DOMAIN m' \subseteq DOMAIN m,
         \A p \in DOMAIN m' : m'[p].start = m[p].start /\ m'[p].cnt = m[p].cnt
  PROVE  UniqueStarts' /\ Baselines'
<1>1. UniqueStarts'
  BY DEF CountingInv, UniqueStarts, kernelVars
<1>2. Baselines'
  BY DEF CountingInv, Baselines, EntrySound, CountedBelow, kernelVars
<1> QED
  BY <1>1, <1>2

LEMMA CountingKeep ==
  ASSUME CountingInv, KeepsReading, UNCHANGED <<kernelVars, m, emitted, base>>
  PROVE  UniqueStarts' /\ Baselines'
<1>1. UniqueStarts'
  BY DEF CountingInv, UniqueStarts, kernelVars, KeepsReading
<1>2. Baselines'
  BY DEF CountingInv, Baselines, EntrySound, ReadingSound, CountedBelow, kernelVars, KeepsReading
<1> QED
  BY <1>1, <1>2

\* The kernel gives a new process a start time never seen before, and no
\* counter of a process goes backwards.
LEMMA CountingKernel == CountingInv /\ KernelStep => UniqueStarts' /\ Baselines'
<1> SUFFICES ASSUME CountingInv, KernelStep PROVE UniqueStarts' /\ Baselines'
  OBVIOUS
<1>1. UNCHANGED <<pc, rd, m, emitted, base>>
  BY DEF KernelStep, scannerVars, historyVars
<1>2. KernelTypeOK /\ KernelTypeOK'
  BY KernelType DEF KernelStep, CountingInv, TypeOK
<1>3. PICK p \in PIDS :
        \/ Run(p) \/ Exit(p) \/ Reap(p)
        \/ \E g \in Programs : Exec(p, g)
        \/ \E u \in UIDS : SetUID(p, u)
        \/ \E g \in Programs, u \in UIDS : Fork(p, g, u)
  BY DEF KernelStep, KernelNext
<1>4. \A i \in Instance : work[i] <= work'[i]
  BY <1>2, <1>3 DEF KernelTypeOK, Process, Run, Exit, Reap, Exec, SetUID, Fork
<1>5. \A q \in DOMAIN proc' :
        \/ q \in DOMAIN proc /\ proc'[q].start = proc[q].start
        \/ q = p /\ proc'[q].start = lastStart + 1
  BY <1>2, <1>3 DEF KernelTypeOK, Process, Run, Exit, Reap, Exec, SetUID, Fork
<1>6. UniqueStarts'
  BY <1>1, <1>2, <1>5
  DEF CountingInv, UniqueStarts, TypeOK, KernelTypeOK, StateMapTypeOK, ReadingTypeOK
<1>7. Baselines'
  <2>1. \A i \in Instance : work[i] \in Nat /\ work'[i] \in Nat
    BY <1>2, KernelAssumption DEF KernelTypeOK
  <2>2. \A i \in Instance : CountedBelow(i, work[i])'
    BY <1>1, <1>4, <2>1, KernelAssumption
    DEF CountingInv, Baselines, CountedBelow, TypeOK, HistoryTypeOK, CounterValues, Counter, Unread
  <2>3. \A q \in DOMAIN m : m[q].start \in Instance /\ m[q].cnt["cpu"] \in Nat
    BY KernelAssumption
    DEF CountingInv, TypeOK, KernelTypeOK, StateMapTypeOK, CounterValues, Counter, Instance
  <2>4. ASSUME NEW q \in DOMAIN m PROVE EntrySound(q)'
    BY <1>1, <1>4, <2>1, <2>3, <2>4 DEF CountingInv, Baselines, EntrySound, CountedBelow
  <2>5. pc \in Steps => rd.start \in Instance /\ rd.val["cpu"] \in Nat
    BY KernelAssumption
    DEF CountingInv, TypeOK, KernelTypeOK, ReadingTypeOK, CounterValues, Counter, Instance
  <2>6. pc \in Steps => ReadingSound'
    BY <1>1, <1>4, <2>1, <2>5 DEF CountingInv, Baselines, ReadingSound, CountedBelow
  <2> QED
    BY <1>1, <2>2, <2>4, <2>6 DEF Baselines
<1> QED
  BY <1>6, <1>7

\* A found entry is a baseline of the same instance; a reading starts at the
\* true counter.
LEMMA CountingReadStat ==
  \A p \in PIDS : CountingInv /\ ReadStat(p) => UniqueStarts' /\ Baselines'
<1> SUFFICES ASSUME NEW p \in PIDS, CountingInv, ReadStat(p)
             PROVE  UniqueStarts' /\ Baselines'
  OBVIOUS
<1>1. UNCHANGED <<kernelVars, emitted, base>>
  BY DEF ReadStat
<1>2. CASE Drop /\ m' = m
  BY <1>1, <1>2, CountingShrink DEF Drop, Steps
<1>3. ASSUME p \in DOMAIN proc,
             m' = Lookup(m, p, proc[p].start).map,
             rd' = StatReading(scan.cfg, p)
      PROVE  UniqueStarts' /\ Baselines'
  <2> DEFINE start == proc[p].start
             found == p \in DOMAIN m /\ m[p].start = start
  <2>1. /\ rd'.pid = p
        /\ rd'.start = start
        /\ rd'.havePrev = found
        /\ rd'.val["cpu"] = work[start]
        /\ rd'.have["cpu"] = TRUE
    BY <1>3 DEF StatReading, NoReading, Lookup, NoCounter, Counter
  <2>2. /\ \A q \in DOMAIN m' : q \in DOMAIN m /\ m'[q] = m[q]
        /\ found => p \in DOMAIN m'
    BY <1>3 DEF Lookup
  <2>3. start \in Instance /\ \A i \in Instance : work[i] \in Nat
    BY <1>3, KernelAssumption DEF CountingInv, TypeOK, KernelTypeOK, Process
  <2>4. UniqueStarts'
    BY <1>1, <1>3, <2>1, <2>2 DEF CountingInv, UniqueStarts, kernelVars
  <2>5. \A i \in Instance : CountedBelow(i, work[i])'
    BY <1>1 DEF CountingInv, Baselines, CountedBelow, kernelVars
  <2>6. \A q \in DOMAIN m' : EntrySound(q)'
    BY <1>1, <2>2 DEF CountingInv, Baselines, EntrySound, CountedBelow, kernelVars
  <2>7. found => m[p].cnt["cpu"] <= work[start]
    BY DEF CountingInv, Baselines, EntrySound
  <2>8. ReadingSound'
    <3>1. CountedBelow(rd.start, rd.val["cpu"])'
      BY <1>1, <2>1, <2>3, <2>5 DEF CountedBelow, kernelVars
    <3>2. rd'.val["cpu"] <= work'[rd'.start]
      BY <1>1, <2>1, <2>3 DEF kernelVars
    <3>3. rd'.havePrev => m'[rd'.pid].cnt["cpu"] <= rd'.val["cpu"]
      BY <2>1, <2>2, <2>7
    <3> QED
      BY <2>1, <3>1, <3>2, <3>3 DEF ReadingSound
  <2> QED
    BY <2>4, <2>5, <2>6, <2>8 DEF Baselines
<1>4. \/ Drop /\ m' = m
      \/ /\ p \in DOMAIN proc
         /\ m' = Lookup(m, p, proc[p].start).map
         /\ rd' = StatReading(scan.cfg, p)
  BY DEF ReadStat, Vanish, Outcome
<1> QED
  BY <1>2, <1>3, <1>4

\* The new baseline is the reading; what is added reaches exactly up to it.
LEMMA CountingRecord == CountingInv /\ Record => UniqueStarts' /\ Baselines'
<1> SUFFICES ASSUME CountingInv, Record PROVE UniqueStarts' /\ Baselines'
  OBVIOUS
<1> DEFINE i == rd.start
           v == rd.val["cpu"]
           prev == m[rd.pid].cnt["cpu"]
<1>1. /\ UNCHANGED kernelVars
      /\ pc \in Steps /\ pc' \notin Steps
      /\ m' = Put(m, gen, rd.pid, NewState)
  BY DEF Record, Drop, Steps
<1>2. /\ i \in Instance /\ v \in Nat
      /\ rd.have["cpu"] = TRUE
      /\ \A j \in Instance : /\ emitted[j] \in CounterValues
                            /\ emitted[j]["cpu"] \in Nat
                            /\ base[j]["cpu"] \in Nat \cup {Unread}
      /\ rd.havePrev => prev \in Nat /\ rd.pid \in DOMAIN m /\ m[rd.pid].start = i
  <2>1. i \in Instance /\ v \in Nat
    BY <1>1, KernelAssumption
    DEF CountingInv, TypeOK, KernelTypeOK, ReadingTypeOK, CounterValues, Counter, Instance
  <2>2. rd.have["cpu"] = TRUE
    BY <1>1 DEF CountingInv, Baselines, ReadingSound
  <2>3. \A j \in Instance : /\ emitted[j] \in CounterValues
                            /\ emitted[j]["cpu"] \in Nat
                            /\ base[j]["cpu"] \in Nat \cup {Unread}
    BY DEF CountingInv, TypeOK, HistoryTypeOK, CounterValues, Counter
  <2>4. rd.havePrev => prev \in Nat /\ rd.pid \in DOMAIN m /\ m[rd.pid].start = i
    BY <1>1 DEF CountingInv, TypeOK, StateMapTypeOK, ReadingTypeOK, CounterValues, Counter
  <2> QED
    BY <2>1, <2>2, <2>3, <2>4
<1>3. ReadingSound /\ (rd.havePrev => EntrySound(rd.pid))
  BY <1>1, <1>2 DEF CountingInv, Baselines
<1>4. Deltas["cpu"] = IF rd.havePrev THEN v - prev ELSE 0
  BY <1>2, <1>3 DEF Deltas, Delta, Counter, ReadingSound
<1>5. /\ emitted'[i]["cpu"] = emitted[i]["cpu"] + Deltas["cpu"]
      /\ base'[i]["cpu"] = IF base[i]["cpu"] = Unread THEN v ELSE base[i]["cpu"]
      /\ \A j \in Instance : j # i => emitted'[j] = emitted[j] /\ base'[j] = base[j]
  BY <1>2 DEF Record, CounterValues, Counter, CountingInv, TypeOK, HistoryTypeOK
<1>6. base'[i]["cpu"] # Unread /\ emitted'[i]["cpu"] + base'[i]["cpu"] <= v
  BY <1>2, <1>3, <1>4, <1>5 DEF ReadingSound, EntrySound, CountedBelow, Unread
<1>7. v <= work[i] /\ work[i] \in Nat
  BY <1>2, <1>3, KernelAssumption
  DEF ReadingSound, CountingInv, TypeOK, KernelTypeOK
<1>8. /\ m'[rd.pid].start = i /\ m'[rd.pid].cnt["cpu"] = v
      /\ \A q \in DOMAIN m' : q # rd.pid => q \in DOMAIN m /\ m'[q] = m[q]
      /\ rd.pid \in DOMAIN m'
  BY <1>1 DEF Put, NewState
<1>9. UniqueStarts'
  BY <1>1, <1>8 DEF CountingInv, UniqueStarts, kernelVars
<1>10. ASSUME NEW j \in Instance PROVE CountedBelow(j, work[j])'
  <2>1. CASE j = i
    <3>1. emitted'[i]["cpu"] \in Int /\ base'[i]["cpu"] \in Int
      BY <1>2, <1>4, <1>5 DEF Unread
    <3>2. emitted'[i]["cpu"] + base'[i]["cpu"] <= work[i]
      BY <1>2, <1>6, <1>7, <3>1
    <3> QED
      BY <1>1, <1>6, <2>1, <3>2 DEF CountedBelow, kernelVars
  <2>2. CASE j # i
    BY <1>1, <1>5, <2>2 DEF CountingInv, Baselines, CountedBelow, kernelVars
  <2> QED
    BY <2>1, <2>2
<1>11. ASSUME NEW q \in DOMAIN m' PROVE EntrySound(q)'
  <2>1. CASE q = rd.pid
    BY <1>1, <1>2, <1>5, <1>6, <1>7, <1>8, <2>1 DEF EntrySound, CountedBelow, kernelVars
  <2>2. CASE q # rd.pid
    <3>1. q \in DOMAIN m /\ m'[q] = m[q] /\ EntrySound(q)
      BY <1>8, <2>2 DEF CountingInv, Baselines
    <3>2. m[q].start \in Instance /\ m[q].start # i
      BY <1>1, <2>2, <3>1, KernelAssumption
      DEF CountingInv, UniqueStarts, TypeOK, KernelTypeOK, StateMapTypeOK, Instance
    <3> QED
      BY <1>1, <1>5, <3>1, <3>2 DEF EntrySound, CountedBelow, kernelVars
  <2> QED
    BY <2>1, <2>2
<1> QED
  BY <1>1, <1>9, <1>10, <1>11 DEF Baselines

LEMMA CountingOuter == CountingInv /\ Outer => UniqueStarts' /\ Baselines'
<1> SUFFICES ASSUME CountingInv, Outer PROVE UniqueStarts' /\ Baselines'
  OBVIOUS
<1>1. CASE BeginScan \/ StartBatch \/ AbortScan \/ Stop
  BY <1>1, CountingShrink
  DEF BeginScan, StartBatch, AbortScan, AtBatchEnd, Stop, historyVars, Steps
<1>2. CASE EndScan
  BY <1>2, CountingShrink DEF EndScan, Prune, historyVars, Steps
<1>3. CASE ResetState
  BY <1>3, CountingShrink DEF ResetState, NewStateMap, historyVars, Steps
<1>4. CASE Cancel \/ (\E c \in Configs : Reload(c)) \/ UNCHANGED vars
  <2>1. UNCHANGED <<kernelVars, scannerVars, historyVars>>
    BY <1>4 DEF Cancel, Reload, vars
  <2> QED
    BY <2>1 DEF CountingInv, UniqueStarts, Baselines, EntrySound, ReadingSound, CountedBelow,
                kernelVars, scannerVars, historyVars
<1> QED
  BY <1>1, <1>2, <1>3, <1>4 DEF Outer

LEMMA CountingStep == CountingInv /\ [Next]_vars => CountingInv'
<1> SUFFICES ASSUME CountingInv, [Next]_vars PROVE UniqueStarts' /\ Baselines'
  BY TypeStep DEF CountingInv
<1>1. CASE KernelStep
  BY <1>1, CountingKernel
<1>2. CASE \E p \in PIDS : ReadStat(p)
  BY <1>2, CountingReadStat
<1>3. CASE LaterRead
  <2>1. UNCHANGED <<kernelVars, m, emitted, base>> /\ (Drop \/ KeepsReading)
    BY <1>3, LaterReadShape DEF CountingInv, historyVars
  <2>2. CASE Drop
    BY <2>1, <2>2, CountingShrink DEF Drop, Steps
  <2> QED
    BY <2>1, <2>2, CountingKeep
<1>4. CASE FilterAndName
  <2>1. CASE Drop /\ m' = Touch(m, gen, rd.pid)
    <3>1. /\ DOMAIN m' = DOMAIN m
          /\ \A p \in DOMAIN m' : m'[p].start = m[p].start /\ m'[p].cnt = m[p].cnt
      BY <2>1 DEF Touch, CountingInv, TypeOK, StateMapTypeOK, PIDStateFields
    <3>2. UNCHANGED <<kernelVars, emitted, base>> /\ pc' \notin Steps
      BY <1>4, <2>1, FilterAndNameShape DEF CountingInv, historyVars, Drop, Steps
    <3> QED
      BY <3>1, <3>2, CountingShrink
  <2>2. CASE KeepsReading /\ m' = m
    BY <1>4, <2>2, CountingKeep, FilterAndNameShape DEF CountingInv, historyVars
  <2> QED
    BY <1>4, <2>1, <2>2, FilterAndNameShape DEF CountingInv
<1>5. CASE Record
  BY <1>5, CountingRecord
<1>6. CASE Outer
  BY <1>6, CountingOuter
<1> QED
  BY <1>1, <1>2, <1>3, <1>4, <1>5, <1>6 DEF Next, ScanStep, Halted, Outer, LaterRead

LEMMA CountingInvCorrect == Spec => []CountingInv
BY CountingInit, CountingStep, PTL DEF Spec

LEMMA CountingImplies == CountingInv => NoLifetimeTotalCPU
  BY DEF CountingInv, Baselines, CountedBelow, NoLifetimeTotalCPU, NoLifetimeTotal

(***************************************************************************)
(* Whatever the kernel does between two reads, whatever fails and whatever *)
(* entry is lost, no tick or fault a process accumulated before its first  *)
(* reading is ever counted, and none is counted twice.                     *)
(***************************************************************************)
THEOREM CountingCorrect == Spec => []NoLifetimeTotalCPU
  BY CountingInit, CountingStep, CountingImplies, PTL DEF Spec

-----------------------------------------------------------------------------
(* The schedules.                                                          *)

(***************************************************************************)
(* With a common period of four or more the two expensive reads never fall *)
(* on one scan after the first (shouldScanFDs, shouldScanSmaps).  For      *)
(* periods of two and three they always do: the half of the period is the  *)
(* remainder, one, that the other schedule waits for.                      *)
(***************************************************************************)
THEOREM SchedulesApart ==
  ASSUME NEW c, c.fdEvery \in Nat, c.fdEvery >= 4, c.smapsEvery = c.fdEvery,
         NEW no \in Nat, no > 1
  PROVE  ~(ShouldScanFDs(c, no) /\ ShouldScanSmaps(c, no))
<1>1. ASSUME NEW k \in Nat, k >= 4 PROVE k \div 2 # 1
  BY <1>1
<1>2. c.fdEvery \div 2 # 1
  BY <1>1
<1> QED
  BY <1>2 DEF ShouldScanFDs, ShouldScanSmaps

-----------------------------------------------------------------------------
(* Remainders, for batches and schedules.                                  *)

LEMMA Remainder ==
  ASSUME NEW b \in Nat, b > 0, NEW q \in Int, NEW r \in 0..(b-1)
  PROVE  (q * b + r) % b = r
BY SMT

LEMMA Quotient ==
  ASSUME NEW b \in Nat, b > 0, NEW n \in Nat
  PROVE  \E q \in Int, r \in 0..(b-1) : n = q * b + r
<1> DEFINE q == n \div b
<1>1. q \in Int
  OBVIOUS
<1>2. b * q <= n /\ n < b * q + b
  BY SMT
<1> HIDE DEF q
<1>3. q * b \in Int /\ b * q = q * b
  BY <1>1
<1>4. n - q * b \in 0..(b-1) /\ n = q * b + (n - q * b)
  BY <1>2, <1>3
<1> QED
  BY <1>1, <1>4

\* Each remainder turns up in every b consecutive numbers.
LEMMA EveryRemainder ==
  ASSUME NEW b \in Nat, b > 0, NEW r \in 0..(b-1), NEW a \in Nat, NEW n \in Nat,
         \A s \in 1..n : s > a => s % b # r
  PROVE  n - a < b
<1> SUFFICES ASSUME n - a >= b PROVE FALSE
  OBVIOUS
<1>0. \A x \in Nat : \E q \in Int, t \in 0..(b-1) : x = q * b + t
  BY Quotient
<1>1. PICK q \in Int, t \in 0..(b-1) : a + 1 = q * b + t
  <2>1. a + 1 \in Nat
    OBVIOUS
  <2> QED
    BY <1>0, <2>1
<1> DEFINE k == IF t <= r THEN q ELSE q + 1
<1>2. q * b \in Int /\ (q + 1) * b = q * b + b
  OBVIOUS
<1>3. k \in Int /\ k * b + r \in (a + 1)..(a + b)
  BY <1>1, <1>2
<1>4. (k * b + r) % b = r
  BY <1>3, Remainder
<1> QED
  BY <1>3, <1>4

-----------------------------------------------------------------------------
(* Stopping.                                                               *)

(***************************************************************************)
(* After the request the walk reads on only while its batch has room, and  *)
(* what was read since and what there is room for are together no more     *)
(* than a batch.  A walk that has not begun to read says nothing of what   *)
(* an earlier one, perhaps of larger batches, has read.                    *)
(***************************************************************************)
StopInv ==
  /\ DOMAIN scan = {"cfg", "listed", "todo", "room", "doFDs", "doSmaps"}
  /\ scan.cfg \in Configs
  /\ scan.room \in 0..Batch
  /\ ~cancelled => late = 0
  /\ cancelled /\ scan.room > 0 => late + scan.room <= Batch
  /\ scan.todo # scan.listed => late <= Batch

LEMMA StopStep == TypeOK /\ StopInv /\ [Next]_vars => StopInv'
<1> SUFFICES ASSUME TypeOK, StopInv, [Next]_vars PROVE StopInv'
  OBVIOUS
<1>1. Batch \in Nat /\ Batch > 0
  BY ScannerAssumption DEF Batch, StopInv
<1>2. late \in Nat /\ cfg \in Configs
  BY DEF TypeOK, ControlTypeOK
<1>3. ASSUME UNCHANGED <<scan, late, cancelled>> PROVE StopInv'
  BY <1>3 DEF StopInv, Batch
<1>4. CASE BeginScan
  <2>1. UNCHANGED <<late, cancelled>>
    BY <1>4 DEF BeginScan, historyVars
  <2>2. CASE scan' = scan
    BY <1>3, <2>1, <2>2
  <2>3. CASE /\ DOMAIN scan' = {"cfg", "listed", "todo", "room", "doFDs", "doSmaps"}
             /\ scan'.cfg = cfg /\ scan'.room = 0 /\ scan'.todo = scan'.listed
    <3>1. (Batch \in Nat)'
      BY <1>2, <2>3, ScannerAssumption DEF Batch
    <3> QED
      BY <1>2, <2>1, <2>3, <3>1 DEF StopInv
  <2> QED
    BY <1>4, <2>2, <2>3 DEF BeginScan
<1>5. CASE StartBatch
  <2>1. /\ cancelled' = cancelled /\ ~cancelled /\ late' = late
        /\ scan' = [scan EXCEPT !.room = Batch]
    BY <1>5 DEF StartBatch, historyVars
  <2>2. /\ scan'.cfg = scan.cfg /\ scan'.room = Batch
        /\ DOMAIN scan' = DOMAIN scan
    BY <2>1 DEF StopInv
  <2>3. Batch' = Batch
    BY <2>2 DEF Batch
  <2> QED
    BY <1>1, <2>1, <2>2, <2>3 DEF StopInv
<1>6. ASSUME NEW p \in PIDS, ReadStat(p) PROVE StopInv'
  <2>1. /\ cancelled' = cancelled
        /\ scan' = [scan EXCEPT !.todo = @ \ {p}, !.room = @ - 1]
        /\ late' = IF cancelled THEN late + 1 ELSE late
        /\ scan.room > 0
    BY <1>6 DEF ReadStat
  <2>2. /\ scan'.cfg = scan.cfg /\ scan'.room = scan.room - 1
        /\ DOMAIN scan' = DOMAIN scan
    BY <2>1 DEF StopInv
  <2>3. Batch' = Batch
    BY <2>2 DEF Batch
  <2>4. /\ scan.room \in 0..Batch
        /\ ~cancelled => late = 0
        /\ cancelled => late + scan.room <= Batch
    BY <2>1 DEF StopInv
  <2> DEFINE room == scan.room
             size == Batch
  <2> HIDE DEF room, size
  <2>5. /\ room - 1 \in 0..size /\ late' <= size
        /\ ~cancelled => late' = 0
        /\ cancelled => late' + (room - 1) <= size
    BY <1>1, <1>2, <2>1, <2>4 DEF room, size
  <2> QED
    BY <2>1, <2>2, <2>3, <2>5 DEF StopInv, room, size
<1>7. CASE Cancel
  <2>1. UNCHANGED <<scan, late>> /\ late = 0
    BY <1>7 DEF Cancel, scannerVars, historyVars, StopInv
  <2> QED
    BY <1>1, <2>1 DEF StopInv, Batch
<1>8. CASE LaterRead \/ FilterAndName
  BY <1>3, <1>8, LaterReadShape, FilterAndNameShape DEF historyVars
<1>9. CASE KernelStep \/ AbortScan \/ EndScan \/ Record \/ (\E c \in Configs : Reload(c))
           \/ ResetState \/ Stop \/ Halted \/ UNCHANGED vars
  BY <1>3, <1>9
  DEF KernelStep, AbortScan, EndScan, Record, Reload, ResetState, Stop, Halted, vars,
      scannerVars, historyVars
<1> QED
  BY <1>4, <1>5, <1>6, <1>7, <1>8, <1>9 DEF Next, ScanStep, LaterRead

(***************************************************************************)
(* Once the exporter was told to stop, no more than one batch is read:     *)
(* what the batch under way has left, or a whole one if the request comes  *)
(* between the look at ctx and the first read after it.  The batch is that *)
(* of the scan under way, whatever sizes reloads bring (Scan).             *)
(***************************************************************************)
THEOREM StopsCorrect == Spec => []StopsWithinBatch
<1>1. Init => StopInv
  <2> SUFFICES ASSUME Init PROVE StopInv
    OBVIOUS
  <2>1. cfg \in Configs /\ scan = NoScan(cfg) /\ late = 0 /\ cancelled = FALSE
    BY DEF Init, ScannerInit
  <2>2. Batch \in Nat
    BY <2>1, ScannerAssumption DEF Batch, NoScan
  <2> QED
    BY <2>1, <2>2 DEF StopInv, NoScan
<1>2. StopInv => StopsWithinBatch
  BY DEF StopInv, StopsWithinBatch
<1> QED
  BY <1>1, <1>2, StopStep, TypeCorrect, PTL DEF Spec

-----------------------------------------------------------------------------
(* Skipping.                                                               *)

\* A filter that does not ask for the command line does not depend on it.
LEMMA KeepUnread ==
  ASSUME NEW f, ~NeedsCmdline(f), NEW in, NEW jn,
         jn.comm = in.comm, jn.user = in.user
  PROVE  Keep(f, jn, NoUser) <=> Keep(f, in, NoUser)
BY DEF NeedsCmdline, Keep, Included, NoPattern

(***************************************************************************)
(* The command line is skipped only where neither the filter nor the namer *)
(* asks for it, and the entry that has the name is still there when the    *)
(* name is taken.                                                          *)
(***************************************************************************)
Skipped ==
  /\ ~NeedsCmdline(scan.cfg.filter)
  /\ Cached(scan.cfg, rd)
  /\ m[rd.pid].name # NoText

SkipInv ==
  /\ pc \in {"status", "filter"} /\ ~rd.cmdRead => Skipped
  /\ pc = "filter" /\ rd.user = NoUser => rd.statusRead

LEMMA SkipStep == TypeOK /\ SkipInv /\ [Next]_vars => SkipInv'
<1> SUFFICES ASSUME TypeOK, SkipInv, [Next]_vars PROVE SkipInv'
  OBVIOUS
<1>1. ASSUME UNCHANGED <<pc, rd, m, scan>> PROVE SkipInv'
  BY <1>1 DEF SkipInv, Skipped, Cached
<1>2. ASSUME pc' \notin {"status", "filter"} PROVE SkipInv'
  BY <1>2 DEF SkipInv
<1>3. DOMAIN rd = DOMAIN NoReading
  BY DEF TypeOK, ReadingTypeOK
<1>4. ASSUME NEW p \in PIDS, ReadStat(p) PROVE SkipInv'
  <2>1. CASE Drop
    BY <1>2, <2>1 DEF Drop
  <2>2. CASE /\ m' = Lookup(m, p, proc[p].start).map
             /\ rd' = StatReading(scan.cfg, p)
             /\ pc' = AfterStat(scan.cfg, rd')
    <3>1. rd'.pid = p /\ rd'.havePrev = Lookup(m, p, proc[p].start).found /\ ~rd'.cmdRead
      BY <2>2 DEF StatReading, NoReading
    <3>2. Cached(scan.cfg, rd') => m'[p].name = m[p].name
      BY <2>2, <3>1 DEF Cached, Lookup
    <3>3. scan'.cfg = scan.cfg
      BY <1>4 DEF ReadStat
    <3>4. CASE NeedCmdline(scan.cfg, rd')
      BY <1>2, <2>2, <3>4 DEF AfterStat
    <3>5. CASE ~NeedCmdline(scan.cfg, rd')
      <4>1. Skipped'
        BY <3>1, <3>2, <3>3, <3>5 DEF NeedCmdline, Skipped, Cached
      <4>2. pc' = "filter" => rd'.user # NoUser
        BY <2>2, <3>5 DEF AfterStat, AfterCmdline, NeedStatus
      <4> QED
        BY <4>1, <4>2 DEF SkipInv
    <3> QED
      BY <3>4, <3>5
  <2> QED
    BY <1>4, <2>1, <2>2 DEF ReadStat, Vanish
<1>5. CASE ReadCmdline
  <2>1. CASE Drop
    BY <1>2, <2>1 DEF Drop
  <2>2. ASSUME NEW t, rd' = [rd EXCEPT !.cmdRead = TRUE, !.cmdline = t],
               pc' = AfterCmdline(scan.cfg, rd)
        PROVE  SkipInv'
    <3>1. rd'.cmdRead /\ rd'.user = rd.user
      BY <1>3, <2>2 DEF NoReading
    <3>2. pc' = "filter" => rd.user # NoUser
      BY <2>2 DEF AfterCmdline, NeedStatus
    <3> QED
      BY <3>1, <3>2 DEF SkipInv
  <2> QED
    BY <1>5, <2>1, <2>2 DEF ReadCmdline, Vanish
<1>6. CASE ReadStatus
  <2>1. CASE Drop
    BY <1>2, <2>1 DEF Drop
  <2>2. ASSUME /\ rd'.statusRead /\ rd'.cmdRead = rd.cmdRead
               /\ rd'.havePrev = rd.havePrev /\ rd'.pid = rd.pid
        PROVE  SkipInv'
    BY <1>6, <2>2 DEF ReadStatus, SkipInv, Skipped, Cached
  <2>3. CASE rd' = [rd EXCEPT !.statusRead = TRUE]
    BY <1>3, <2>2, <2>3 DEF NoReading
  <2> DEFINE u == proc[rd.pid].uid
             user == IF rd.user = NoUser THEN UserName(scan.cfg, u) ELSE rd.user
             w == work[proc[rd.pid].start]
  <2> HIDE DEF u, user, w
  <2>4. CASE rd' = [rd EXCEPT !.statusRead = TRUE, !.uid = u, !.user = user,
                              !.val["ctx"] = w, !.have["ctx"] = TRUE]
    BY <1>3, <2>2, <2>4 DEF NoReading
  <2> QED
    BY <1>6, <2>1, <2>3, <2>4 DEF ReadStatus, Vanish, u, user, w
<1>7. CASE FilterAndName \/ ReadStatm \/ ReadIO \/ ReadFDs \/ ReadSmaps \/ Record
           \/ StartBatch \/ AbortScan \/ EndScan \/ ResetState \/ Stop
  BY <1>2, <1>7
  DEF FilterAndName, ReadStatm, ReadIO, ReadFDs, ReadSmaps, Record, AbortScan, EndScan,
      StartBatch, AtBatchEnd, ResetState, Stop, Vanish, Drop, AfterStatm, AfterIO, AfterFDs
<1>8. CASE BeginScan
  BY <1>2, <1>8 DEF BeginScan
<1>9. CASE KernelStep \/ (\E c \in Configs : Reload(c)) \/ Cancel \/ Halted \/ UNCHANGED vars
  BY <1>1, <1>9 DEF KernelStep, Reload, Cancel, Halted, vars, scannerVars
<1> QED
  BY <1>4, <1>5, <1>6, <1>7, <1>8, <1>9 DEF Next, ScanStep

(***************************************************************************)
(* The command line and the status are skipped only where the filter would *)
(* decide the same over every command line and the name and the user are   *)
(* known: whatever filter a reload brings, and whatever was cached under   *)
(* the one before (Filter.NeedsCmdline, readProcess).  A read that was     *)
(* tried and failed is not skipped: over it the code decides without the   *)
(* text, and the theorem says nothing of that.                             *)
(***************************************************************************)
THEOREM SkipsCorrect == Spec => []SkipsUnneeded
<1>1. Init => SkipInv
  BY DEF Init, ScannerInit, SkipInv
<1>2. TypeOK /\ SkipInv => SkipsUnneeded
  <2> SUFFICES ASSUME SkipInv, pc = "filter" PROVE
          /\ rd.user = NoUser => rd.statusRead
          /\ ~rd.cmdRead =>
               /\ Cached(scan.cfg, rd) /\ m[rd.pid].name # NoText
               /\ \A t \in CmdlineTexts, k \in BOOLEAN :
                    LET in == FilterInput(rd)
                    IN  Keep(scan.cfg.filter, [in EXCEPT !.cmdline = t, !.isKernel = k], NoUser)
                          <=> Keep(scan.cfg.filter, in, NoUser)
    BY DEF SkipsUnneeded
  <2>1. ASSUME ~rd.cmdRead, NEW t \in CmdlineTexts, NEW k \in BOOLEAN PROVE
          LET in == FilterInput(rd)
          IN  Keep(scan.cfg.filter, [in EXCEPT !.cmdline = t, !.isKernel = k], NoUser)
                <=> Keep(scan.cfg.filter, in, NoUser)
    <3> DEFINE in == FilterInput(rd)
               jn == [in EXCEPT !.cmdline = t, !.isKernel = k]
    <3>1. jn.comm = in.comm /\ jn.user = in.user
      BY DEF FilterInput
    <3>2. ~NeedsCmdline(scan.cfg.filter)
      BY <2>1 DEF SkipInv, Skipped
    <3> HIDE DEF in, jn
    <3>3. Keep(scan.cfg.filter, jn, NoUser) <=> Keep(scan.cfg.filter, in, NoUser)
      BY <3>1, <3>2, KeepUnread
    <3> QED
      BY <3>3 DEF in, jn
  <2> QED
    BY <2>1 DEF SkipInv, Skipped
<1> QED
  BY <1>1, <1>2, SkipStep, TypeCorrect, PTL DEF Spec

=============================================================================
