---------------------------- MODULE ResultProofs ----------------------------
(***************************************************************************)
(* What holds of the results of scans: whose readings they have, what they *)
(* were taken from and under which names they are filed, for every         *)
(* machine, configuration and fault; and what is conserved from one scan   *)
(* to the next, how old a figure may be and whose identity an entry has,   *)
(* each under the conditions that the code needs for it.                   *)
(***************************************************************************)
EXTENDS TallyProofs, FiniteSetTheorems

(***************************************************************************)
(* A start time belongs to one PID wherever it is written down: in the     *)
(* process table, the map, the result or the reading under way.            *)
(***************************************************************************)
Holds(p, s) ==
  \/ p \in DOMAIN proc /\ proc[p].start = s
  \/ p \in DOMAIN m /\ m[p].start = s
  \/ p \in DOMAIN res.procs /\ res.procs[p].start = s
  \/ pc \in Steps /\ p = rd.pid /\ s = rd.start

HoldersInv ==
  /\ \A p, q, s : Holds(p, s) /\ Holds(q, s) => p = q
  /\ \A p, s : Holds(p, s) => s \in 1..lastStart

LEMMA HoldersInit == Init => HoldersInv
BY DEF Init, KernelInit, ScannerInit, NewStateMap, NoResult, Steps, Holds, HoldersInv

\* Most steps forget, or write down again what is written somewhere.
LEMMA HoldersKept ==
  ASSUME TypeOK, HoldersInv, UNCHANGED lastStart, \A p, s : Holds(p, s)' => Holds(p, s)
  PROVE  HoldersInv'
BY DEF HoldersInv

\* What a step does to the readings that are reported.
SameReport == res'.procs = res.procs
NoReport   == DOMAIN res'.procs = {}

\* Only Record reports a reading, and only a new or a failed scan takes any back.
LEMMA ReportKinds ==
  TypeOK /\ TallyInv /\ [Next]_vars =>
    SameReport \/ (NoReport /\ (BeginScan \/ AbortScan)) \/ Record
<1> SUFFICES ASSUME TypeOK, TallyInv, [Next]_vars
             PROVE  SameReport \/ (NoReport /\ (BeginScan \/ AbortScan)) \/ Record
  OBVIOUS
<1> USE DEF SameReport, NoReport
<1>1. CASE BeginScan \/ AbortScan
  BY <1>1 DEF BeginScan, AbortScan, NoResult
<1>2. CASE UNCHANGED res
  BY <1>2
<1>3. ASSUME NEW p \in PIDS, ReadStat(p) PROVE SameReport
  BY <1>3 DEF ReadStat, Vanish, Note, TallyInv, ResultShape
<1>4. CASE LaterRead
  <2>1. Vanish(rd.pid) \/ UNCHANGED res \/ \E f \in File : Note(f, rd.pid)
    BY <1>4 DEF LaterRead, ReadCmdline, ReadStatus, ReadStatm, ReadIO, ReadFDs, ReadSmaps,
                NoteUnlessDenied, File
  <2> QED
    BY <2>1 DEF Vanish, Note, TallyInv, ResultShape
<1>5. CASE FilterAndName
  BY <1>5 DEF FilterAndName, TallyInv, ResultShape
<1>6. CASE StartBatch \/ EndScan \/ Stop \/ KernelStep \/ (\E c \in Configs : Reload(c))
           \/ ResetState \/ Cancel \/ Halted \/ UNCHANGED vars
  BY <1>2, <1>6 DEF StartBatch, EndScan, Stop, KernelStep, Reload, ResetState, Cancel, Halted, vars,
                    scannerVars
<1> QED
  BY <1>1, <1>3, <1>4, <1>5, <1>6 DEF Next, ScanStep, LaterRead

\* What Record reports.
LEMMA RecordReports ==
  TypeOK /\ TallyInv /\ Record =>
    /\ DOMAIN res'.procs = DOMAIN res.procs \cup {rd.pid}
    /\ rd.pid \notin DOMAIN res.procs
    /\ res'.procs[rd.pid] = Reading
    /\ \A p \in DOMAIN res.procs : res'.procs[p] = res.procs[p]
<1> SUFFICES ASSUME TypeOK, TallyInv, Record
             PROVE  /\ DOMAIN res'.procs = DOMAIN res.procs \cup {rd.pid}
                    /\ rd.pid \notin DOMAIN res.procs
                    /\ res'.procs[rd.pid] = Reading
                    /\ \A p \in DOMAIN res.procs : res'.procs[p] = res.procs[p]
  OBVIOUS
<1>1. rd.pid \notin Met
  BY UnderWay DEF Record, Steps, Walking
<1>2. res'.procs = [p \in DOMAIN res.procs \cup {rd.pid} |->
                      IF p = rd.pid THEN Reading ELSE res.procs[p]]
  BY DEF Record, TallyInv, ResultShape
<1> QED
  BY <1>1, <1>2 DEF Met

LEMMA HoldersStep == TypeOK /\ TallyInv /\ HoldersInv /\ [Next]_vars => HoldersInv'
<1> SUFFICES ASSUME TypeOK, TallyInv, HoldersInv, [Next]_vars PROVE HoldersInv'
  OBVIOUS
<1>1. CASE KernelStep
  <2>1. UNCHANGED <<pc, rd, m, res>>
    BY <1>1 DEF KernelStep, scannerVars
  <2>2. KernelTypeOK /\ KernelTypeOK' /\ lastStart <= lastStart'
    BY <1>1, KernelType DEF KernelStep, TypeOK
  <2>3. PICK p \in PIDS :
          \/ Run(p) \/ Exit(p) \/ Reap(p)
          \/ \E g \in Programs : Exec(p, g)
          \/ \E u \in UIDS : SetUID(p, u)
          \/ \E g \in Programs, u \in UIDS : Fork(p, g, u)
    BY <1>1 DEF KernelStep, KernelNext
  <2>4. \A q \in DOMAIN proc' :
          \/ q \in DOMAIN proc /\ proc'[q].start = proc[q].start
          \/ q = p /\ proc'[q].start = lastStart + 1 /\ lastStart' = lastStart + 1
    BY <2>2, <2>3 DEF KernelTypeOK, Process, Run, Exit, Reap, Exec, SetUID, Fork
  <2>5. \A q, s : Holds(q, s)' =>
          Holds(q, s) \/ (q = p /\ s = lastStart + 1 /\ lastStart' = lastStart + 1)
    BY <2>1, <2>4 DEF Holds
  <2>6. lastStart \in Nat /\ lastStart' \in Nat
    BY <2>2, KernelAssumption DEF KernelTypeOK
  <2> QED
    BY <2>2, <2>5, <2>6 DEF HoldersInv
<1>2. ASSUME UNCHANGED <<kernelVars, m>>, SameReport \/ NoReport, pc' \notin Steps
      PROVE  HoldersInv'
  BY <1>2, HoldersKept DEF Holds, kernelVars, SameReport, NoReport
<1>3. CASE UNCHANGED <<kernelVars, pc, rd, m, res>>
  BY <1>3, HoldersKept DEF Holds, kernelVars
<1>4. CASE BeginScan \/ StartBatch \/ AbortScan \/ Stop
  BY <1>2, <1>4 DEF BeginScan, StartBatch, AbortScan, AtBatchEnd, Stop, SameReport, NoReport,
                    NoResult, Steps
<1>5. CASE EndScan \/ ResetState
  <2>1. /\ UNCHANGED <<kernelVars, res>> /\ pc' \notin Steps
        /\ \A p \in DOMAIN m' : p \in DOMAIN m /\ m'[p].start = m[p].start
    BY <1>5 DEF EndScan, ResetState, Prune, NewStateMap, Steps
  <2> QED
    BY <2>1, HoldersKept DEF Holds, kernelVars
<1>6. ASSUME NEW p \in PIDS, ReadStat(p) PROVE HoldersInv'
  <2>1. UNCHANGED kernelVars /\ SameReport
    BY <1>6, ReportKinds DEF ReadStat, Vanish, Note, SameReport, TallyInv, ResultShape
  <2>2. CASE Drop /\ m' = m
    BY <1>2, <2>1, <2>2 DEF Drop, Steps
  <2>3. ASSUME p \in DOMAIN proc, m' = Lookup(m, p, proc[p].start).map,
               rd' = StatReading(scan.cfg, p)
        PROVE  HoldersInv'
    <3>1. rd'.pid = p /\ rd'.start = proc[p].start
      BY <2>3 DEF StatReading, NoReading
    <3>2. \A q \in DOMAIN m' : q \in DOMAIN m /\ m'[q] = m[q]
      BY <2>3 DEF Lookup
    <3>3. \A q, s : Holds(q, s)' => Holds(q, s)
      BY <2>1, <2>3, <3>1, <3>2 DEF Holds, kernelVars, SameReport
    <3> QED
      BY <2>1, <3>3, HoldersKept DEF kernelVars
  <2>4. \/ Drop /\ m' = m
        \/ /\ p \in DOMAIN proc
           /\ m' = Lookup(m, p, proc[p].start).map
           /\ rd' = StatReading(scan.cfg, p)
    BY <1>6 DEF ReadStat, Vanish, Outcome
  <2> QED
    BY <2>2, <2>3, <2>4
<1>7. CASE LaterRead
  <2>1. UNCHANGED <<kernelVars, m>> /\ (Drop \/ KeepsReading)
    BY <1>7, LaterReadShape
  <2>2. SameReport \/ NoReport
    BY <1>7, ReportKinds
    DEF LaterRead, Record, ReadCmdline, ReadStatus, ReadStatm, ReadIO, ReadFDs, ReadSmaps
  <2>3. CASE Drop
    BY <1>2, <2>1, <2>2, <2>3 DEF Drop, Steps
  <2>4. CASE KeepsReading
    BY <2>1, <2>2, <2>4, HoldersKept DEF KeepsReading, Holds, kernelVars, SameReport, NoReport
  <2> QED
    BY <2>1, <2>3, <2>4
<1>8. CASE FilterAndName
  <2>1. UNCHANGED kernelVars
    BY <1>8, FilterAndNameShape
  <2>2. SameReport
    BY <1>8 DEF FilterAndName, SameReport, TallyInv, ResultShape
  <2>3. \A p \in DOMAIN m' : p \in DOMAIN m /\ m'[p].start = m[p].start
    BY <1>8, FilterAndNameShape DEF Touch, TypeOK, StateMapTypeOK, PIDStateFields
  <2>4. pc \in Steps /\ (pc' \in Steps => rd'.pid = rd.pid /\ rd'.start = rd.start)
    BY <1>8, FilterAndNameShape DEF Drop, KeepsReading, FilterAndName, Steps
  <2>5. \A q, s : Holds(q, s)' => Holds(q, s)
    BY <2>1, <2>2, <2>3, <2>4 DEF Holds, kernelVars, SameReport
  <2> QED
    BY <2>1, <2>5, HoldersKept DEF kernelVars
<1>9. CASE Record
  <2>1. UNCHANGED kernelVars /\ pc \in Steps /\ pc' \notin Steps
    BY <1>9 DEF Record, Drop, Steps
  <2>2. \A p \in DOMAIN m' :
          \/ p = rd.pid /\ m'[p].start = rd.start
          \/ p \in DOMAIN m /\ m'[p] = m[p]
    BY <1>9 DEF Record, Put, NewState
  <2>3. \A p \in DOMAIN res'.procs :
          \/ p = rd.pid /\ res'.procs[p].start = rd.start
          \/ p \in DOMAIN res.procs /\ res'.procs[p] = res.procs[p]
    BY <1>9, RecordReports DEF Reading
  <2>4. \A q, s : Holds(q, s)' => Holds(q, s)
    BY <2>1, <2>2, <2>3 DEF Holds, kernelVars
  <2> QED
    BY <2>1, <2>4, HoldersKept DEF kernelVars
<1>10. CASE (\E c \in Configs : Reload(c)) \/ Cancel \/ Halted \/ UNCHANGED vars
  BY <1>3, <1>10 DEF Reload, Cancel, Halted, vars, scannerVars
<1> QED
  BY <1>1, <1>4, <1>5, <1>6, <1>7, <1>8, <1>9, <1>10 DEF Next, ScanStep, LaterRead

LEMMA HoldersCorrect == Spec => []HoldersInv
BY HoldersInit, HoldersStep, TypeCorrect, TallyCorrect, PTL DEF Spec

-----------------------------------------------------------------------------
(* Under which names and users processes are filed.                        *)

Comms    == {g.comm : g \in Programs}
Uids     == UIDS \cup {0}

\* What is cached was derived once, from what was read of a program and under
\* one of the configurations.
Filed ==
  /\ scan.cfg \in Configs
  /\ \A p \in DOMAIN m : m[p].name \in GroupNames /\ m[p].user \in GroupUsers /\ m[p].uid \in Uids
  /\ pc \in Steps => /\ rd.comm \in Comms
                     /\ rd.cmdline \in CmdlineTexts
                     /\ rd.uid \in Uids
                     /\ rd.user \in GroupUsers \cup {NoUser}
  /\ pc \in Steps \ {"cmdline", "status", "filter"} =>
       rd.name \in GroupNames /\ rd.user \in GroupUsers

LEMMA FiledInit == Init => Filed
BY DEF Init, ScannerInit, NewStateMap, NoScan, Steps, Filed

\* Entries may be dropped or stamped, and no reading is left.
LEMMA FiledShrink ==
  ASSUME Filed, pc' \notin Steps, scan'.cfg \in Configs,
         \A p \in DOMAIN m' : /\ p \in DOMAIN m
                              /\ m'[p].name = m[p].name /\ m'[p].user = m[p].user
                              /\ m'[p].uid = m[p].uid
  PROVE  Filed'
BY DEF Filed

LEMMA FiledStat == \A p \in PIDS : TypeOK /\ Filed /\ ReadStat(p) => Filed'
<1> SUFFICES ASSUME NEW p \in PIDS, TypeOK, Filed, ReadStat(p) PROVE Filed'
  OBVIOUS
<1>1. scan'.cfg = scan.cfg
  BY DEF ReadStat
<1>2. CASE Drop /\ m' = m
  BY <1>1, <1>2, FiledShrink DEF Drop, Steps, Filed
<1>3. ASSUME p \in DOMAIN proc, m' = Lookup(m, p, proc[p].start).map,
             rd' = StatReading(scan.cfg, p), pc' = AfterStat(scan.cfg, rd')
      PROVE  Filed'
  <2>1. \A q \in DOMAIN m' : q \in DOMAIN m /\ m'[q] = m[q]
    BY <1>3 DEF Lookup
  <2>2. rd'.comm = proc[p].prog.comm /\ rd'.cmdline = NoText
    BY <1>3, StatShape
  <2>3. proc[p].prog \in Programs
    BY <1>3 DEF TypeOK, KernelTypeOK, Process
  <2>4. \/ rd'.uid = 0 /\ rd'.user = NoUser
        \/ p \in DOMAIN m /\ rd'.uid = m[p].uid /\ rd'.user = m[p].user
    <3>1. rd' = StatReading(scan.cfg, p)
      BY <1>3
    <3>2. \/ Cached(scan.cfg, rd') /\ rd'.uid = m[p].uid /\ rd'.user = m[p].user
          \/ rd'.uid = 0 /\ rd'.user = NoUser
      BY <3>1, StatShape
    <3>3. rd'.havePrev = Lookup(m, p, proc[p].start).found
      BY <3>1, StatShape
    <3> QED
      BY <3>2, <3>3 DEF Cached, Lookup
  <2>5. pc' \in {"cmdline", "status", "filter"}
    BY <1>3 DEF AfterStat, AfterCmdline
  <2> QED
    BY <1>1, <2>1, <2>2, <2>3, <2>4, <2>5 DEF Filed, Comms, CmdlineTexts, Uids
<1> QED
  BY <1>2, <1>3 DEF ReadStat, Vanish, Outcome

\* Reads that leave the identity alone.
LEMMA FiledSame ==
  ASSUME Filed, UNCHANGED <<m, scan>>, pc \in Steps \ {"cmdline", "status", "filter"},
         UNCHANGED <<rd.comm, rd.cmdline, rd.uid, rd.user, rd.name>>
  PROVE  Filed'
BY DEF Filed

LEMMA FiledLaterRead == TypeOK /\ Filed /\ LaterRead => Filed'
<1> SUFFICES ASSUME TypeOK, Filed, LaterRead PROVE Filed'
  OBVIOUS
<1>1. UNCHANGED <<m, scan>>
  BY LaterReadShape
<1>2. CASE Drop
  BY <1>1, <1>2, FiledShrink DEF Drop, Steps, Filed
<1>3. DOMAIN rd = DOMAIN NoReading
  BY DEF TypeOK, ReadingTypeOK
<1>4. CASE ReadCmdline /\ ~Drop
  <2>1. PICK t : /\ rd' = [rd EXCEPT !.cmdRead = TRUE, !.cmdline = t]
                 /\ t = NoText \/ (rd.pid \in DOMAIN proc /\ t = CmdlineOf(rd.pid))
    BY <1>4 DEF ReadCmdline, Vanish, Outcome
  <2>2. t \in CmdlineTexts
    BY <2>1 DEF CmdlineOf, CmdlineTexts, TypeOK, KernelTypeOK, Process
  <2>3. /\ rd'.comm = rd.comm /\ rd'.uid = rd.uid /\ rd'.user = rd.user
        /\ rd'.cmdline = t
    BY <1>3, <2>1 DEF NoReading
  <2>4. pc = "cmdline" /\ pc' \in {"status", "filter"}
    BY <1>4 DEF ReadCmdline, Vanish, AfterCmdline
  <2> QED
    BY <1>1, <2>2, <2>3, <2>4 DEF Filed, Steps
<1>5. CASE ReadStatus /\ ~Drop
  <2>1. pc = "status" /\ pc' = "filter"
    BY <1>5 DEF ReadStatus, Vanish
  <2>2. /\ rd'.comm = rd.comm /\ rd'.cmdline = rd.cmdline
        /\ \/ rd'.uid = rd.uid /\ rd'.user = rd.user
           \/ /\ rd.pid \in DOMAIN proc
              /\ rd'.uid = proc[rd.pid].uid
              /\ rd'.user = rd.user \/ rd'.user = UserName(scan.cfg, proc[rd.pid].uid)
    BY <1>3, <1>5 DEF ReadStatus, Vanish, Outcome, NoReading
  <2>3. rd'.uid \in Uids /\ rd'.user \in GroupUsers \cup {NoUser}
    BY <2>1, <2>2 DEF Filed, Steps, Uids, GroupUsers, TypeOK, KernelTypeOK, Process
  <2> QED
    BY <1>1, <2>1, <2>2, <2>3 DEF Filed, Steps
<1>6. CASE (ReadStatm \/ ReadIO \/ ReadFDs \/ ReadSmaps) /\ ~Drop
  <2>1. UNCHANGED <<rd.comm, rd.cmdline, rd.uid, rd.user, rd.name>>
    BY <1>3, <1>6 DEF ReadStatm, ReadIO, ReadFDs, ReadSmaps, Vanish, NoReading
  <2>2. pc \in Steps \ {"cmdline", "status", "filter"}
    BY <1>6 DEF ReadStatm, ReadIO, ReadFDs, ReadSmaps, Steps
  <2> QED
    BY <1>1, <2>1, <2>2, FiledSame
<1> QED
  BY <1>2, <1>4, <1>5, <1>6 DEF LaterRead

LEMMA FiledFilter == TypeOK /\ Filed /\ FilterAndName => Filed'
<1> SUFFICES ASSUME TypeOK, Filed, FilterAndName PROVE Filed'
  OBVIOUS
<1>1. UNCHANGED scan /\ pc = "filter"
  BY DEF FilterAndName
<1>2. CASE Drop /\ m' = Touch(m, gen, rd.pid)
  <2>1. \A p \in DOMAIN m' : /\ p \in DOMAIN m
                             /\ m'[p].name = m[p].name /\ m'[p].user = m[p].user
                             /\ m'[p].uid = m[p].uid
    BY <1>2 DEF Touch, TypeOK, StateMapTypeOK, PIDStateFields
  <2> QED
    BY <1>1, <1>2, <2>1, FiledShrink DEF Drop, Steps, Filed
<1>3. CASE KeepsReading /\ m' = m
  <2> DEFINE c    == scan.cfg
             in   == [comm |-> rd.comm, exe |-> ExeOf(rd.pid), cmdline |-> rd.cmdline]
             name == IF Cached(c, rd) /\ m[rd.pid].name # NoText
                     THEN m[rd.pid].name
                     ELSE GroupName(c.rules, c.fallback, in)
  <2>1. /\ pc' = "statm"
        /\ rd' = [rd EXCEPT !.name = name,
                            !.user = IF @ = NoUser THEN UidString(rd.uid) ELSE @]
    BY <1>1, <1>3 DEF FilterAndName, KeepsReading, Drop, Steps
  <2>2. in \in NamerInputs
    <3>1. ExeOf(rd.pid) \in {NoText} \cup {g.exe : g \in Programs}
      BY DEF ExeOf, TypeOK, KernelTypeOK, Process
    <3> QED
      BY <1>1, <3>1 DEF Filed, Steps, NamerInputs, Comms, CmdlineTexts
  <2>3. name \in GroupNames
    <3>1. GroupName(c.rules, c.fallback, in) \in GroupNames
      <4> HIDE DEF in
      <4> QED
        BY <2>2 DEF GroupNames, Filed
    <3>2. Cached(c, rd) => rd.pid \in DOMAIN m
      BY <1>1 DEF Cached, TypeOK, ReadingTypeOK, Steps
    <3> QED
      BY <3>1, <3>2 DEF Filed
  <2> HIDE DEF name
  <2>4. /\ rd'.comm = rd.comm /\ rd'.cmdline = rd.cmdline /\ rd'.uid = rd.uid
        /\ rd'.name = name
        /\ rd'.user = IF rd.user = NoUser THEN UidString(rd.uid) ELSE rd.user
    BY <2>1 DEF TypeOK, ReadingTypeOK, NoReading
  <2>5. rd.uid \in Uids /\ rd.user \in GroupUsers \cup {NoUser}
    BY <1>1 DEF Filed, Steps
  <2>6. rd'.user \in GroupUsers
    BY <2>4, <2>5 DEF GroupUsers, Uids
  <2> QED
    BY <1>1, <1>3, <2>1, <2>3, <2>4, <2>5, <2>6 DEF Filed, Steps
<1> QED
  BY <1>2, <1>3, FilterAndNameShape

LEMMA FiledRecord == TypeOK /\ Filed /\ Record => Filed'
<1> SUFFICES ASSUME TypeOK, Filed, Record PROVE Filed'
  OBVIOUS
<1>1. UNCHANGED scan /\ pc = "record" /\ pc' \notin Steps
  BY DEF Record, Drop, Steps
<1>2. \A p \in DOMAIN m' :
        \/ /\ p = rd.pid /\ m'[p].name = rd.name /\ m'[p].user = rd.user
           /\ m'[p].uid = rd.uid
        \/ p \in DOMAIN m /\ m'[p] = m[p]
  BY DEF Record, Put, NewState
<1>3. rd.name \in GroupNames /\ rd.user \in GroupUsers /\ rd.uid \in Uids
  BY <1>1 DEF Filed, Steps
<1> QED
  BY <1>1, <1>2, <1>3 DEF Filed

LEMMA FiledStep == TypeOK /\ Filed /\ [Next]_vars => Filed'
<1> SUFFICES ASSUME TypeOK, Filed, [Next]_vars PROVE Filed'
  OBVIOUS
<1>1. CASE UNCHANGED <<pc, scan, rd, m>>
  BY <1>1 DEF Filed
<1>2. CASE BeginScan \/ StartBatch \/ AbortScan \/ Stop
  BY <1>2, FiledShrink, StartBatchShape
  DEF BeginScan, AbortScan, Stop, Steps, Filed, TypeOK, ControlTypeOK
<1>3. CASE EndScan \/ ResetState
  <2>1. \A p \in DOMAIN m' : p \in DOMAIN m /\ m'[p] = m[p]
    BY <1>3 DEF EndScan, ResetState, Prune, NewStateMap
  <2>2. pc' \notin Steps /\ scan' = scan
    BY <1>3 DEF EndScan, ResetState, Steps
  <2> QED
    BY <2>1, <2>2, FiledShrink DEF Filed
<1>4. CASE KernelStep \/ (\E c \in Configs : Reload(c)) \/ Cancel \/ Halted \/ UNCHANGED vars
  BY <1>1, <1>4 DEF KernelStep, Reload, Cancel, Halted, vars, scannerVars
<1> QED
  BY <1>2, <1>3, <1>4, FiledStat, FiledLaterRead, FiledFilter, FiledRecord
  DEF Next, ScanStep, LaterRead

LEMMA FiledCorrect == Spec => []Filed
BY FiledInit, FiledStep, TypeCorrect, PTL DEF Spec

-----------------------------------------------------------------------------
(* What is reported.                                                       *)

\* A reported process has been counted from, under a name and a user.
Reported ==
  \A p \in DOMAIN res.procs :
    LET r == res.procs[p]
    IN  /\ p \in PIDS
        /\ DOMAIN r = { "start", "comm", "name", "user", "uid", "zombie", "haveDeltas", "d",
                        "have", "haveFDs", "fdAt", "havePSS", "pssAt" }
        /\ r.d \in CounterValues
        /\ base[r.start]["cpu"] # Unread
        /\ r.name \in GroupNames /\ r.user \in GroupUsers

LEMMA ReportedInit == Init => Reported
BY DEF Init, ScannerInit, NoResult, Reported

\* What has been counted from stays so.
LEMMA BaseStays ==
  TypeOK /\ [Next]_vars => \A i \in Instance : base[i]["cpu"] # Unread => base'[i]["cpu"] # Unread
<1> SUFFICES ASSUME TypeOK, [Next]_vars, NEW i \in Instance, base[i]["cpu"] # Unread
             PROVE  base'[i]["cpu"] # Unread
  OBVIOUS
<1>1. CASE Record
  <2> DEFINE v == [c \in Counter |-> IF base[rd.start][c] = Unread /\ rd.have[c]
                                      THEN rd.val[c] ELSE base[rd.start][c]]
  <2>1. base' = [base EXCEPT ![rd.start] = v]
    BY <1>1 DEF Record
  <2>2. base'[i] = IF i = rd.start THEN v ELSE base[i]
    BY <2>1 DEF TypeOK, HistoryTypeOK
  <2> QED
    BY <2>2 DEF Counter
<1>2. CASE UNCHANGED base
  BY <1>2
<1> QED
  BY <1>1, <1>2, LaterReadShape, FilterAndNameShape
  DEF Next, ScanStep, KernelStep, BeginScan, StartBatch, AbortScan, EndScan, ReadStat,
      LaterRead, Reload, ResetState, Cancel, Stop, Halted, vars, historyVars

LEMMA ReportedStep ==
  TypeOK /\ TallyInv /\ CountingInv /\ HoldersInv /\ Filed /\ Reported /\ [Next]_vars => Reported'
<1> SUFFICES ASSUME TypeOK, TallyInv, CountingInv, HoldersInv, Filed, Reported, [Next]_vars
             PROVE  Reported'
  OBVIOUS
<1>1. ASSUME NEW p \in DOMAIN res.procs PROVE res.procs[p].start \in Instance
  <2>1. res.procs[p].start \in 1..lastStart
    BY DEF HoldersInv, Holds
  <2> QED
    BY <2>1, KernelAssumption DEF TypeOK, KernelTypeOK, Instance
<1>2. CASE SameReport
  BY <1>1, <1>2, BaseStays DEF SameReport, Reported
<1>3. CASE NoReport
  BY <1>3 DEF NoReport, Reported
<1>4. CASE Record
  <2>1. pc = "record" /\ pc \in Steps
    BY <1>4 DEF Record, Steps
  <2>2. Deltas \in CounterValues
    BY <2>1, DeltasType
  <2>3. rd.name \in GroupNames /\ rd.user \in GroupUsers
    BY <2>1 DEF Filed
  <2>4. base'[rd.start]["cpu"] # Unread
    <3> DEFINE v == [c \in Counter |-> IF base[rd.start][c] = Unread /\ rd.have[c]
                                        THEN rd.val[c] ELSE base[rd.start][c]]
    <3>1. rd.start \in Instance /\ rd.have["cpu"] = TRUE /\ rd.val["cpu"] \in Nat
      BY <2>1, KernelAssumption
      DEF CountingInv, Baselines, ReadingSound, TypeOK, KernelTypeOK, ReadingTypeOK, Instance,
          CounterValues, Counter
    <3>2. base' = [base EXCEPT ![rd.start] = v]
      BY <1>4 DEF Record
    <3>3. base'[rd.start] = v
      BY <3>1, <3>2 DEF TypeOK, HistoryTypeOK
    <3>4. v["cpu"] # Unread
      BY <3>1 DEF Counter, Unread
    <3> QED
      BY <3>3, <3>4
  <2>5. /\ DOMAIN Reading = { "start", "comm", "name", "user", "uid", "zombie", "haveDeltas",
                              "d", "have", "haveFDs", "fdAt", "havePSS", "pssAt" }
        /\ Reading.d = Deltas /\ Reading.start = rd.start
        /\ Reading.name = rd.name /\ Reading.user = rd.user
    BY DEF Reading
  <2>6. \A p \in DOMAIN res'.procs :
          \/ p = rd.pid /\ res'.procs[p] = Reading
          \/ p \in DOMAIN res.procs /\ res'.procs[p] = res.procs[p]
    BY <1>4, RecordReports
  <2>7. \A i \in Instance : base[i]["cpu"] # Unread => base'[i]["cpu"] # Unread
    BY BaseStays
  <2>8. rd.pid \in PIDS
    BY <2>1 DEF TypeOK, ReadingTypeOK
  <2> QED
    BY <1>1, <2>2, <2>3, <2>4, <2>5, <2>6, <2>7, <2>8 DEF Reported
<1> QED
  BY <1>2, <1>3, <1>4, ReportKinds

LEMMA ReportedCorrect == Spec => []Reported
BY ReportedInit, ReportedStep, TypeCorrect, TallyCorrect, CountingInvCorrect, HoldersCorrect,
   FiledCorrect, PTL DEF Spec

AsAssumed(procs) ==
  /\ IsFiniteSet(DOMAIN procs)
  /\ \A p \in DOMAIN procs :
       {"haveDeltas", "d"} \subseteq DOMAIN procs[p] /\ procs[p].d \in CounterValues

\* What Exporter assumes of every result (ExporterAssumption) the scanner
\* delivers: finitely many processes, and no delta below zero, whatever files
\* could not be read and whichever PIDs were reused (Scan, processOne).
THEOREM ResultsAsAssumed == Spec => []AsAssumed(res.procs)
<1>1. Reported => AsAssumed(res.procs)
  <2> SUFFICES ASSUME Reported PROVE AsAssumed(res.procs)
    OBVIOUS
  <2>1. IsFiniteSet(DOMAIN res.procs)
    BY KernelAssumption, FS_Subset DEF Reported
  <2> QED
    BY <2>1 DEF Reported, AsAssumed
<1> QED
  BY <1>1, ReportedCorrect, PTL

-----------------------------------------------------------------------------
(* Conservation.                                                           *)

(***************************************************************************)
(* The counters of stat are read with the identity.  Those of status and   *)
(* io are read later, from whoever has the PID by then: they are conserved *)
(* if their files are read at every scan and no PID is free again.         *)
(***************************************************************************)
Readable(c) ==
  /\ c = "ctx" => /\ "reap" \notin KernelOps /\ Faults["status"] = {}
                  /\ \A k \in Configs : k.readStatus
  /\ c = "io" => /\ "reap" \notin KernelOps /\ Faults["io"] = {}
                 /\ \A k \in Configs : k.readIO

\* The reads after which the counter is there.
After(c) ==
  CASE c = "cpu" -> Steps
    [] c = "ctx" -> {"filter", "statm", "io", "fd", "smaps", "record"}
    [] c = "io"  -> {"fd", "smaps", "record"}

\* What was counted and what was there at first is what the entry has.
EntryExact(c, p) ==
  /\ base[m[p].start][c] # Unread
  /\ emitted[m[p].start][c] + base[m[p].start][c] = m[p].cnt[c]
  /\ m[p].cnt[c] <= work[m[p].start]

ReadingExact(c) ==
  /\ pc \in After(c) => rd.have[c] = TRUE
  /\ rd.have[c] = TRUE => rd.val[c] <= work[rd.start]
  /\ rd.have[c] = TRUE /\ rd.havePrev => m[rd.pid].cnt[c] <= rd.val[c]
  /\ rd.havePrev \/ base[rd.start][c] = Unread

(***************************************************************************)
(* The entries are exact, and every running process that was counted from  *)
(* has one: a process without an entry is counted from for the first time. *)
(***************************************************************************)
Exact(c) ==
  /\ \A p \in DOMAIN m : EntryExact(c, p)
  /\ \A p \in DOMAIN proc :
       base[proc[p].start][c] # Unread => p \in DOMAIN m /\ m[p].start = proc[p].start
  /\ \A i \in Instance : /\ base[i][c] = Unread => emitted[i][c] = 0
                         /\ i > lastStart => base[i][c] = Unread
  /\ pc \in Steps => ReadingExact(c)

\* Without reaping, a reading stays one of the holder of its PID.
Settled == "reap" \notin KernelOps /\ pc \in Steps => Alive(rd.pid, rd.start)

LEMMA SettledInit == Init => Settled
BY DEF Init, ScannerInit, Settled, Steps

LEMMA SettledStep == TypeOK /\ Settled /\ [Next]_vars => Settled'
<1> SUFFICES ASSUME TypeOK, Settled, [Next]_vars PROVE Settled'
  OBVIOUS
<1>1. CASE KernelStep
  <2>1. UNCHANGED <<pc, rd>>
    BY <1>1 DEF KernelStep, scannerVars
  <2>2. PICK p \in PIDS :
          \/ Run(p) \/ Exit(p) \/ Reap(p)
          \/ \E g \in Programs : Exec(p, g)
          \/ \E u \in UIDS : SetUID(p, u)
          \/ \E g \in Programs, u \in UIDS : Fork(p, g, u)
    BY <1>1 DEF KernelStep, KernelNext
  <2>3. "reap" \notin KernelOps =>
          \A q \in DOMAIN proc : q \in DOMAIN proc' /\ proc'[q].start = proc[q].start
    BY <2>2 DEF TypeOK, KernelTypeOK, Process, Run, Exit, Reap, Exec, SetUID, Fork
  <2> QED
    BY <2>1, <2>3 DEF Settled, Alive
<1>2. CASE pc' \notin Steps
  BY <1>2 DEF Settled
<1>3. ASSUME NEW p \in PIDS, ReadStat(p), pc' \in Steps PROVE Settled'
  <2>1. p \in DOMAIN proc /\ rd' = StatReading(scan.cfg, p) /\ proc' = proc
    BY <1>3 DEF ReadStat, Vanish, Drop, Outcome, Steps, kernelVars
  <2>2. rd'.pid = p /\ rd'.start = proc[p].start
    BY <2>1 DEF StatReading, NoReading
  <2> QED
    BY <2>1, <2>2 DEF Settled, Alive
<1>4. CASE LaterRead \/ FilterAndName
  <2>1. proc' = proc /\ (Drop \/ KeepsReading)
    BY <1>4, LaterReadShape, FilterAndNameShape DEF kernelVars
  <2> QED
    BY <2>1 DEF Settled, Alive, Drop, KeepsReading, Steps
<1>5. CASE UNCHANGED <<proc, pc, rd>>
  BY <1>5 DEF Settled, Alive
<1>6. CASE BeginScan \/ StartBatch \/ AbortScan \/ EndScan \/ Record \/ Stop
  BY <1>2, <1>6
  DEF BeginScan, StartBatch, AbortScan, AtBatchEnd, EndScan, Record, Drop, Stop, Steps
<1>7. CASE (\E c \in Configs : Reload(c)) \/ ResetState \/ Cancel \/ Halted \/ UNCHANGED vars
  BY <1>5, <1>7 DEF Reload, ResetState, Cancel, Halted, vars, kernelVars, scannerVars
<1> QED
  BY <1>1, <1>2, <1>3, <1>4, <1>6, <1>7 DEF Next, ScanStep, LaterRead

LEMMA SettledCorrect == Spec => []Settled
BY SettledInit, SettledStep, TypeCorrect, PTL DEF Spec

LEMMA ExactInit == \A c \in Counter : Init => Exact(c)
BY DEF Init, KernelInit, ScannerInit, NewStateMap, Exact, Steps, NoCounter

\* The values of a counter, in the state and in the histories.
LEMMA CounterTypes ==
  ASSUME NEW c \in Counter
  PROVE  TypeOK =>
           /\ \A i \in Instance : /\ emitted[i][c] \in Nat
                                  /\ base[i][c] \in Nat \cup {Unread}
                                  /\ work[i] \in Nat
           /\ \A p \in DOMAIN m : m[p].start \in Instance /\ m[p].cnt[c] \in Nat
           /\ \A p \in DOMAIN proc : proc[p].start \in Instance
           /\ pc \in Steps => rd.start \in Instance /\ rd.val[c] \in Nat
<1> SUFFICES ASSUME TypeOK
             PROVE  /\ \A i \in Instance : /\ emitted[i][c] \in Nat
                                           /\ base[i][c] \in Nat \cup {Unread}
                                           /\ work[i] \in Nat
                    /\ \A p \in DOMAIN m : m[p].start \in Instance /\ m[p].cnt[c] \in Nat
                    /\ \A p \in DOMAIN proc : proc[p].start \in Instance
                    /\ pc \in Steps => rd.start \in Instance /\ rd.val[c] \in Nat
  OBVIOUS
<1>1. lastStart \in 0..MaxStart /\ MaxStart \in Nat
  BY KernelAssumption DEF TypeOK, KernelTypeOK
<1>2. \A i \in Instance : work[i] \in Nat
  BY KernelAssumption DEF TypeOK, KernelTypeOK
<1>3. \A i \in Instance : emitted[i][c] \in Nat /\ base[i][c] \in Nat \cup {Unread}
  BY DEF TypeOK, HistoryTypeOK, CounterValues
<1>4. \A p \in DOMAIN m : m[p].start \in Instance /\ m[p].cnt[c] \in Nat
  BY <1>1 DEF TypeOK, StateMapTypeOK, CounterValues, Instance
<1>5. \A p \in DOMAIN proc : proc[p].start \in Instance
  BY DEF TypeOK, KernelTypeOK, Process
<1>6. pc \in Steps => rd.start \in Instance /\ rd.val[c] \in Nat
  BY <1>1 DEF TypeOK, ReadingTypeOK, CounterValues, Instance
<1> QED
  BY <1>2, <1>3, <1>4, <1>5, <1>6

\* A process that starts has not been counted from; a counter only grows.
LEMMA ExactKernel ==
  ASSUME NEW c \in Counter
  PROVE  TypeOK /\ Exact(c) /\ KernelStep => Exact(c)'
<1> SUFFICES ASSUME TypeOK, Exact(c), KernelStep PROVE Exact(c)'
  OBVIOUS
<1>1. UNCHANGED <<pc, rd, m, emitted, base>>
  BY DEF KernelStep, scannerVars, historyVars
<1>2. KernelTypeOK /\ KernelTypeOK' /\ lastStart <= lastStart'
  BY KernelType DEF KernelStep, TypeOK
<1>3. PICK p \in PIDS :
        \/ Run(p) \/ Exit(p) \/ Reap(p)
        \/ \E g \in Programs : Exec(p, g)
        \/ \E u \in UIDS : SetUID(p, u)
        \/ \E g \in Programs, u \in UIDS : Fork(p, g, u)
  BY DEF KernelStep, KernelNext
<1>4. \A i \in Instance : work[i] <= work'[i] /\ work[i] \in Nat /\ work'[i] \in Nat
  BY <1>2, <1>3, KernelAssumption
  DEF KernelTypeOK, Process, Run, Exit, Reap, Exec, SetUID, Fork
<1>5. \A q \in DOMAIN proc' :
        \/ q \in DOMAIN proc /\ proc'[q].start = proc[q].start
        \/ q = p /\ proc'[q].start = lastStart + 1
  BY <1>2, <1>3 DEF KernelTypeOK, Process, Run, Exit, Reap, Exec, SetUID, Fork
<1>6. lastStart \in Nat /\ lastStart' \in Nat /\ \A i \in Instance : i \in Nat
  BY <1>2, KernelAssumption DEF KernelTypeOK, Instance
<1>7. /\ \A q \in DOMAIN m : m[q].start \in Instance /\ m[q].cnt[c] \in Nat
      /\ pc \in Steps => rd.start \in Instance /\ rd.val[c] \in Nat
  BY CounterTypes
<1>8. \A q \in DOMAIN m : EntryExact(c, q)'
  BY <1>1, <1>4, <1>7 DEF Exact, EntryExact
<1>9. \A q \in DOMAIN proc' : proc'[q].start \in Instance
  BY <1>2 DEF KernelTypeOK, Process
<1>10. ASSUME NEW q \in DOMAIN proc', base[proc'[q].start][c] # Unread
       PROVE  q \in DOMAIN m /\ m[q].start = proc'[q].start
  BY <1>5, <1>6, <1>9, <1>10 DEF Exact
<1>11. \A i \in Instance : /\ base[i][c] = Unread => emitted[i][c] = 0
                           /\ i > lastStart' => base[i][c] = Unread
  BY <1>2, <1>6 DEF Exact
<1>12. pc \in Steps => ReadingExact(c)'
  BY <1>1, <1>4, <1>7 DEF Exact, ReadingExact
<1> QED
  BY <1>1, <1>8, <1>10, <1>11, <1>12 DEF Exact

\* Entries may be dropped, if they are not of running processes, or stamped.
LEMMA ExactShrink ==
  ASSUME NEW c \in Counter, Exact(c), pc' \notin Steps,
         UNCHANGED <<kernelVars, emitted, base>>,
         \A p \in DOMAIN m' : p \in DOMAIN m /\ m'[p].start = m[p].start /\ m'[p].cnt = m[p].cnt,
         \A p \in DOMAIN m : Alive(p, m[p].start) => p \in DOMAIN m'
  PROVE  Exact(c)'
<1>1. \A p \in DOMAIN m' : EntryExact(c, p)'
  BY DEF Exact, EntryExact, kernelVars
<1>2. \A p \in DOMAIN proc :
        base[proc[p].start][c] # Unread => p \in DOMAIN m' /\ m'[p].start = proc[p].start
  BY DEF Exact, Alive
<1> QED
  BY <1>1, <1>2 DEF Exact, kernelVars

\* A process that is met without an entry has not been counted from.
LEMMA ExactStat ==
  ASSUME NothingLost, NEW c \in Counter, Readable(c)
  PROVE  \A p \in PIDS : TypeOK /\ Filed /\ Exact(c) /\ ReadStat(p) => Exact(c)'
<1> SUFFICES ASSUME NEW p \in PIDS, TypeOK, Filed, Exact(c), ReadStat(p) PROVE Exact(c)'
  OBVIOUS
<1>1. UNCHANGED <<kernelVars, emitted, base>>
  BY DEF ReadStat
<1>2. CASE Drop /\ m' = m
  BY <1>1, <1>2, ExactShrink DEF Drop, Steps
<1>3. ASSUME p \in DOMAIN proc, m' = Lookup(m, p, proc[p].start).map,
             rd' = StatReading(scan.cfg, p), pc' = AfterStat(scan.cfg, rd')
      PROVE  Exact(c)'
  <2> DEFINE start == proc[p].start
             found == p \in DOMAIN m /\ m[p].start = start
  <2>1. /\ rd'.pid = p /\ rd'.start = start
        /\ rd'.havePrev = found
        /\ rd'.val["cpu"] = work[start] /\ rd'.have["cpu"] = TRUE
        /\ c # "cpu" => rd'.have[c] = FALSE
    BY <1>3 DEF StatReading, NoReading, Lookup, NoCounter, Counter
  <2>2. /\ \A q \in DOMAIN m' : q \in DOMAIN m /\ m'[q] = m[q]
        /\ found => p \in DOMAIN m'
        /\ \A q \in DOMAIN m : Alive(q, m[q].start) => q \in DOMAIN m'
    BY <1>3 DEF Lookup, Alive
  <2>3. start \in Instance /\ work[start] \in Nat
    BY <1>3, CounterTypes
  <2>4. \A q \in DOMAIN m' : EntryExact(c, q)'
    BY <1>1, <2>2 DEF Exact, EntryExact, kernelVars
  <2>5. \A q \in DOMAIN proc :
          base[proc[q].start][c] # Unread => q \in DOMAIN m' /\ m'[q].start = proc[q].start
    BY <2>2 DEF Exact, Alive
  <2>6. found => m[p].cnt[c] <= work[start]
    BY DEF Exact, EntryExact
  <2>7. found \/ base[start][c] = Unread
    BY <1>3 DEF Exact
  <2>8. pc' \in After(c) => c = "cpu"
    <3>1. pc' \in {"cmdline", "status"} \/ (pc' = "filter" /\ ~NeedStatus(scan.cfg, rd'))
      BY <1>3 DEF AfterStat, AfterCmdline
    <3>2. c = "ctx" => NeedStatus(scan.cfg, rd')
      BY DEF NeedStatus, Readable, Filed
    <3> QED
      BY <3>1, <3>2 DEF After, Counter
  <2> HIDE DEF found, start
  <2>9. ReadingExact(c)'
    <3>1. pc' \in After(c) => rd'.have[c] = TRUE
      BY <2>1, <2>8
    <3>2. rd'.have[c] = TRUE => rd'.val[c] = work[start]
      BY <2>1
    <3>3. rd'.havePrev => m'[rd'.pid].cnt[c] <= work[start]
      BY <2>1, <2>2, <2>6 DEF found
    <3>4. rd'.havePrev \/ base'[rd'.start][c] = Unread
      BY <1>1, <2>1, <2>7
    <3> QED
      BY <1>1, <2>1, <2>3, <3>1, <3>2, <3>3, <3>4 DEF ReadingExact, kernelVars
  <2> QED
    BY <1>1, <2>4, <2>5, <2>9 DEF Exact, kernelVars
<1>4. \/ Drop /\ m' = m
      \/ /\ p \in DOMAIN proc /\ m' = Lookup(m, p, proc[p].start).map
         /\ rd' = StatReading(scan.cfg, p) /\ pc' = AfterStat(scan.cfg, rd')
  BY DEF ReadStat, Vanish, Outcome
<1> QED
  BY <1>2, <1>3, <1>4

\* A later read leaves the counter alone or reads it.
LEMMA ExactReading ==
  ASSUME NEW c \in Counter, TypeOK, Exact(c), KeepsReading,
         UNCHANGED <<kernelVars, m, emitted, base>>,
         pc' \in After(c) => rd'.have[c] = TRUE,
         \/ rd'.have[c] = rd.have[c] /\ rd'.val[c] = rd.val[c]
         \/ rd'.val[c] = work[rd.start]
  PROVE  Exact(c)'
<1>1. rd.start \in Instance /\ work[rd.start] \in Nat
  BY CounterTypes DEF KeepsReading
<1>2. rd.havePrev => m[rd.pid].cnt[c] <= work[rd.start]
  BY DEF Exact, EntryExact, KeepsReading, TypeOK, ReadingTypeOK
<1>3. ReadingExact(c)
  BY DEF Exact, KeepsReading
<1>4. rd'.have[c] = TRUE =>
        /\ rd'.val[c] <= work[rd.start]
        /\ rd.havePrev => m[rd.pid].cnt[c] <= rd'.val[c]
  BY <1>1, <1>2, <1>3 DEF ReadingExact
<1>5. ReadingExact(c)'
  BY <1>3, <1>4 DEF ReadingExact, KeepsReading, kernelVars
<1>6. \A p \in DOMAIN m' : EntryExact(c, p)'
  BY DEF Exact, EntryExact, kernelVars
<1> QED
  BY <1>5, <1>6 DEF Exact, kernelVars

LEMMA ExactLaterRead ==
  ASSUME NothingLost, NEW c \in Counter, Readable(c)
  PROVE  TypeOK /\ Filed /\ Settled /\ Exact(c) /\ LaterRead => Exact(c)'
<1> SUFFICES ASSUME TypeOK, Filed, Settled, Exact(c), LaterRead PROVE Exact(c)'
  OBVIOUS
<1>1. UNCHANGED <<kernelVars, m, emitted, base, scan>>
  BY LaterReadShape DEF historyVars
<1>2. CASE Drop
  BY <1>1, <1>2, ExactShrink DEF Drop, Steps
<1>3. DOMAIN rd = DOMAIN NoReading /\ scan.cfg \in Configs
  BY DEF TypeOK, ReadingTypeOK, Filed
<1>4. pc \in After(c) => rd.have[c] = TRUE
  BY DEF Exact, ReadingExact, After, Steps, Counter
<1>0. rd.val \in [Counter -> Nat] /\ rd.have \in [Counter -> BOOLEAN]
  BY DEF TypeOK, ReadingTypeOK, CounterValues
<1>5. CASE ReadStatus /\ ~Drop
  <2>1. pc = "status" /\ pc' = "filter" /\ KeepsReading
    BY <1>5, LaterReadShape DEF ReadStatus, Vanish
  <2>2. CASE c = "ctx"
    <3>1. \A o \in Outcome("status", rd.pid) : o \in {"vanished", "ok"}
      BY <2>2 DEF Outcome, Readable
    <3>2. rd'.have["ctx"] = TRUE /\ rd'.val["ctx"] = work[proc[rd.pid].start]
      <4>1. \E u, n : rd' = [rd EXCEPT !.statusRead = TRUE, !.uid = u, !.user = n,
                                       !.val["ctx"] = work[proc[rd.pid].start],
                                       !.have["ctx"] = TRUE]
        BY <1>5, <3>1 DEF ReadStatus, Vanish
      <4> QED
        BY <1>0, <1>3, <4>1 DEF NoReading, Counter
    <3>3. proc[rd.pid].start = rd.start
      BY <2>1, <2>2 DEF Settled, Alive, Readable, Steps
    <3> QED
      BY <1>1, <2>1, <2>2, <3>2, <3>3, ExactReading
  <2>3. CASE c # "ctx"
    <3>1. rd'.have[c] = rd.have[c] /\ rd'.val[c] = rd.val[c]
      <4> DEFINE n == IF rd.user = NoUser THEN UserName(scan.cfg, proc[rd.pid].uid) ELSE rd.user
                 r == [ rd EXCEPT !.statusRead = TRUE, !.uid = proc[rd.pid].uid, !.user = n,
                                  !.val["ctx"] = work[proc[rd.pid].start],
                                  !.have["ctx"] = TRUE ]
      <4>1. \/ rd' = [rd EXCEPT !.statusRead = TRUE]
            \/ rd' = r
        BY <1>5 DEF ReadStatus, Vanish
      <4>2. CASE rd' = [rd EXCEPT !.statusRead = TRUE]
        BY <1>3, <4>2 DEF NoReading
      <4>3. CASE rd' = r
        <5> HIDE DEF n
        <5> QED
          BY <1>0, <1>3, <2>3, <4>3 DEF NoReading
      <4> QED
        BY <4>1, <4>2, <4>3
    <3>2. pc' \in After(c) => pc \in After(c)
      BY <2>1, <2>3 DEF After, Steps, Counter
    <3> QED
      BY <1>1, <1>4, <2>1, <3>1, <3>2, ExactReading
  <2> QED
    BY <2>2, <2>3
<1>6. CASE ReadIO /\ ~Drop
  <2>1. pc = "io" /\ KeepsReading
    BY <1>6, LaterReadShape DEF ReadIO, LaterRead
  <2>2. CASE c = "io"
    <3>1. \A o \in Outcome("io", rd.pid) : o \in {"vanished", "ok"}
      BY <2>2 DEF Outcome, Readable
    <3>2. rd'.have["io"] = TRUE /\ rd'.val["io"] = work[proc[rd.pid].start]
      <4>1. rd' = [rd EXCEPT !.val["io"] = work[proc[rd.pid].start], !.have["io"] = TRUE]
        BY <1>6, <3>1 DEF ReadIO, Vanish
      <4> QED
        BY <1>0, <1>3, <4>1 DEF NoReading, Counter
    <3>3. proc[rd.pid].start = rd.start
      BY <2>1, <2>2 DEF Settled, Alive, Readable, Steps
    <3> QED
      BY <1>1, <2>1, <2>2, <3>2, <3>3, ExactReading
  <2>3. CASE c # "io"
    <3>1. rd'.have[c] = rd.have[c] /\ rd'.val[c] = rd.val[c]
      <4> DEFINE w == work[proc[rd.pid].start]
      <4>1. \/ rd' = rd
            \/ rd' = [rd EXCEPT !.val["io"] = w, !.have["io"] = TRUE]
        BY <1>6 DEF ReadIO, Vanish
      <4> HIDE DEF w
      <4>2. CASE rd' = rd
        BY <4>2
      <4>3. CASE rd' = [rd EXCEPT !.val["io"] = w, !.have["io"] = TRUE]
        <5>1. rd'.val = [rd.val EXCEPT !["io"] = w] /\ rd'.have = [rd.have EXCEPT !["io"] = TRUE]
          BY <1>3, <4>3 DEF NoReading
        <5> QED
          BY <1>0, <2>3, <5>1
      <4> QED
        BY <4>1, <4>2, <4>3
    <3>2. pc \in After(c)
      BY <2>1, <2>3 DEF After, Steps, Counter
    <3> QED
      BY <1>1, <1>4, <2>1, <3>1, <3>2, ExactReading
  <2> QED
    BY <2>2, <2>3
<1>7. CASE (ReadCmdline \/ ReadStatm \/ ReadFDs \/ ReadSmaps) /\ ~Drop
  <2>1. KeepsReading
    BY <1>7, LaterReadShape DEF LaterRead
  <2>2. rd'.have[c] = rd.have[c] /\ rd'.val[c] = rd.val[c]
    BY <1>3, <1>7 DEF ReadCmdline, ReadStatm, ReadFDs, ReadSmaps, Vanish, NoReading
  <2>3. c = "ctx" => scan.cfg.readStatus
    BY <1>3 DEF Readable
  <2>4. c = "io" => scan.cfg.readIO
    BY <1>3 DEF Readable
  <2>5. \/ pc = "cmdline" /\ pc' = AfterCmdline(scan.cfg, rd)
        \/ pc = "statm" /\ pc' = AfterStatm
        \/ pc = "fd" /\ pc' = AfterFDs
        \/ pc = "smaps" /\ pc' = "record"
    BY <1>7 DEF ReadCmdline, ReadStatm, ReadFDs, ReadSmaps, Vanish
  <2>6. pc' \in After(c) => pc \in After(c)
    BY <2>3, <2>4, <2>5
    DEF After, Steps, Counter, AfterCmdline, NeedStatus, AfterStatm, AfterIO, AfterFDs
  <2> QED
    BY <1>1, <1>4, <2>1, <2>2, <2>6, ExactReading
<1> QED
  BY <1>2, <1>5, <1>6, <1>7 DEF LaterRead

LEMMA ExactFilter ==
  ASSUME NEW c \in Counter
  PROVE  TypeOK /\ Exact(c) /\ FilterAndName => Exact(c)'
<1> SUFFICES ASSUME TypeOK, Exact(c), FilterAndName PROVE Exact(c)'
  OBVIOUS
<1>1. UNCHANGED <<kernelVars, emitted, base>>
  BY DEF FilterAndName, historyVars
<1>2. CASE Drop /\ m' = Touch(m, gen, rd.pid)
  <2>1. /\ DOMAIN m' = DOMAIN m
        /\ \A p \in DOMAIN m' : m'[p].start = m[p].start /\ m'[p].cnt = m[p].cnt
    BY <1>2 DEF Touch, TypeOK, StateMapTypeOK, PIDStateFields
  <2> QED
    BY <1>1, <1>2, <2>1, ExactShrink DEF Drop, Steps
<1>3. CASE KeepsReading /\ m' = m
  <2>1. rd'.have = rd.have /\ rd'.val = rd.val
    BY <1>3 DEF FilterAndName, Drop, KeepsReading, Steps, TypeOK, ReadingTypeOK, NoReading
  <2>2. pc = "filter" /\ pc' = "statm"
    BY <1>3 DEF FilterAndName, Drop, KeepsReading, Steps
  <2>3. pc' \in After(c) => rd'.have[c] = TRUE
    BY <2>1, <2>2 DEF Exact, ReadingExact, After, Steps, Counter
  <2> QED
    BY <1>1, <1>3, <2>1, <2>3, ExactReading
<1> QED
  BY <1>2, <1>3, FilterAndNameShape

\* The new entry takes up exactly where the old one, or nothing, left off.
LEMMA ExactRecord ==
  ASSUME NEW c \in Counter
  PROVE  TypeOK /\ UniqueStarts /\ LiveInv /\ Exact(c) /\ Record => Exact(c)'
<1> SUFFICES ASSUME TypeOK, UniqueStarts, LiveInv, Exact(c), Record PROVE Exact(c)'
  OBVIOUS
<1> DEFINE i == rd.start
           v == rd.val[c]
           prev == m[rd.pid].cnt[c]
<1>1. /\ UNCHANGED kernelVars
      /\ pc = "record" /\ pc \in Steps /\ pc' \notin Steps
      /\ m' = Put(m, gen, rd.pid, NewState)
  BY DEF Record, Drop, Steps
<1>2. /\ i \in Instance /\ i <= lastStart /\ v \in Nat
      /\ work[i] \in Nat
      /\ rd.havePrev => prev \in Nat /\ rd.pid \in DOMAIN m /\ m[rd.pid].start = i
  BY <1>1, CounterTypes DEF TypeOK, ReadingTypeOK
<1>3. /\ emitted[i][c] \in Nat
      /\ base[i][c] \in Nat \cup {Unread}
  BY <1>2, CounterTypes
<1>4. ReadingExact(c) /\ rd.have[c] = TRUE
  BY <1>1 DEF Exact, ReadingExact, After, Steps, Counter
<1>5. Deltas[c] = IF rd.havePrev THEN v - prev ELSE 0
  BY <1>2, <1>4 DEF Deltas, Delta, ReadingExact
<1>6. /\ emitted'[i][c] = emitted[i][c] + Deltas[c]
      /\ base'[i][c] = IF base[i][c] = Unread THEN v ELSE base[i][c]
      /\ \A j \in Instance : j # i => emitted'[j] = emitted[j] /\ base'[j] = base[j]
  BY <1>2, <1>4 DEF Record, CounterValues, TypeOK, HistoryTypeOK
<1>7. base'[i][c] # Unread /\ emitted'[i][c] + base'[i][c] = v
  <2>1. CASE rd.havePrev
    <3>1. EntryExact(c, rd.pid)
      BY <1>2, <2>1 DEF Exact
    <3>2. base[i][c] # Unread /\ emitted[i][c] + base[i][c] = prev
      BY <1>2, <2>1, <3>1 DEF EntryExact
    <3> QED
      BY <1>2, <1>3, <1>5, <1>6, <2>1, <3>2
  <2>2. CASE ~rd.havePrev
    <3>1. base[i][c] = Unread /\ emitted[i][c] = 0
      BY <1>2, <1>4, <2>2 DEF Exact, ReadingExact
    <3> QED
      BY <1>2, <1>5, <1>6, <2>2, <3>1 DEF Unread
  <2> QED
    BY <2>1, <2>2
<1>8. /\ m'[rd.pid].start = i /\ m'[rd.pid].cnt[c] = v
      /\ \A q \in DOMAIN m' : q # rd.pid => q \in DOMAIN m /\ m'[q] = m[q]
      /\ DOMAIN m' = DOMAIN m \cup {rd.pid}
  BY <1>1 DEF Put, NewState
<1>9. v <= work[i]
  BY <1>4 DEF ReadingExact
<1> HIDE DEF i, v, prev
<1>10. ASSUME NEW q \in DOMAIN m' PROVE EntryExact(c, q)'
  <2>1. CASE q = rd.pid
    BY <1>1, <1>7, <1>8, <1>9, <2>1 DEF EntryExact, kernelVars
  <2>2. CASE q # rd.pid
    <3>1. q \in DOMAIN m /\ m'[q] = m[q] /\ EntryExact(c, q)
      BY <1>8, <2>2 DEF Exact
    <3>2. m[q].start \in Instance /\ m[q].start # i
      BY <1>1, <2>2, <3>1, CounterTypes DEF UniqueStarts, i
    <3> QED
      BY <1>1, <1>6, <3>1, <3>2 DEF EntryExact, kernelVars
  <2> QED
    BY <2>1, <2>2
<1>11. ASSUME NEW q \in DOMAIN proc, base'[proc[q].start][c] # Unread
       PROVE  q \in DOMAIN m' /\ m'[q].start = proc[q].start
  <2>1. CASE proc[q].start = i
    <3>1. q = rd.pid
      BY <1>1, <2>1 DEF UniqueStarts, i
    <3> QED
      BY <1>8, <2>1, <3>1
  <2>2. CASE proc[q].start # i
    <3>1. base[proc[q].start][c] # Unread
      BY <1>6, <1>11, <2>2, CounterTypes
    <3>2. q \in DOMAIN m /\ m[q].start = proc[q].start
      BY <3>1 DEF Exact
    <3>3. q # rd.pid
      BY <1>1, <2>2, <3>2 DEF LiveInv, LiveEntries, i
    <3> QED
      BY <1>8, <3>2, <3>3
  <2> QED
    BY <2>1, <2>2
<1>12. ASSUME NEW j \in Instance
       PROVE  /\ base'[j][c] = Unread => emitted'[j][c] = 0
              /\ j > lastStart => base'[j][c] = Unread
  <2>1. CASE j = i
    <3>1. ~(i > lastStart)
      BY <1>2 DEF TypeOK, KernelTypeOK, Instance
    <3> QED
      BY <1>7, <2>1, <3>1
  <2>2. CASE j # i
    BY <1>6, <2>2 DEF Exact
  <2> QED
    BY <2>1, <2>2
<1> QED
  BY <1>1, <1>10, <1>11, <1>12 DEF Exact, kernelVars

LEMMA ExactStep ==
  ASSUME NothingLost, NEW c \in Counter, Readable(c)
  PROVE  TypeOK /\ CountingInv /\ TallyInv /\ GenInv /\ LiveInv /\ Filed /\ Settled /\
         Exact(c) /\ [Next]_vars => Exact(c)'
<1> SUFFICES ASSUME TypeOK, CountingInv, TallyInv, GenInv, LiveInv, Filed, Settled, Exact(c),
                    [Next]_vars
             PROVE  Exact(c)'
  OBVIOUS
<1>1. CASE KernelStep
  BY <1>1, ExactKernel
<1>2. ASSUME NEW p \in PIDS, ReadStat(p) PROVE Exact(c)'
  BY <1>2, ExactStat
<1>3. CASE LaterRead
  BY <1>3, ExactLaterRead
<1>4. CASE FilterAndName
  BY <1>4, ExactFilter
<1>5. CASE Record
  BY <1>5, ExactRecord DEF CountingInv
<1>6. CASE EndScan
  <2>1. UNCHANGED <<kernelVars, emitted, base>> /\ pc' \notin Steps
    BY <1>6 DEF EndScan, historyVars, Steps
  <2>2. /\ \A q \in DOMAIN m' : q \in DOMAIN m /\ m'[q] = m[q]
        /\ \A q \in DOMAIN m : Alive(q, m[q].start) => q \in DOMAIN m'
    BY <1>6, LivePruned
  <2> QED
    BY <2>1, <2>2, ExactShrink
<1>7. CASE BeginScan \/ StartBatch \/ AbortScan \/ Stop
  <2>1. UNCHANGED <<kernelVars, emitted, base, m>> /\ pc' \notin Steps
    BY <1>7 DEF BeginScan, StartBatch, AbortScan, AtBatchEnd, Stop, historyVars, Steps
  <2> QED
    BY <2>1, ExactShrink
<1>8. CASE (\E k \in Configs : Reload(k)) \/ Cancel \/ Halted \/ UNCHANGED vars
  <2>1. UNCHANGED <<kernelVars, scannerVars, historyVars>>
    BY <1>8 DEF Cancel, Reload, Halted, vars
  <2> QED
    BY <2>1 DEF Exact, EntryExact, ReadingExact, kernelVars, scannerVars, historyVars
<1>9. ~ResetState
  BY DEF ResetState, NothingLost
<1> QED
  BY <1>1, <1>2, <1>3, <1>4, <1>5, <1>6, <1>7, <1>8, <1>9 DEF Next, ScanStep, LaterRead

LEMMA ExactImplies == \A c \in Counter : Exact(c) => Conserved(c)
BY DEF Exact, EntryExact, Conserved

(***************************************************************************)
(* Nothing of stat is lost or counted twice as long as entries are not     *)
(* lost: what was counted for a process and what it had at first are the   *)
(* last value read, through the reuse of its PID, through scans it was     *)
(* filtered out of, and whatever the kernel does in the middle of a        *)
(* reading (computeDeltas, Lookup, Put).                                   *)
(***************************************************************************)
THEOREM CPUConservedCorrect ==
  ASSUME NothingLost
  PROVE  Spec => []CPUConserved
<1>1. "cpu" \in Counter /\ Readable("cpu")
  BY DEF Counter, Readable
<1>2. Init => Exact("cpu")
  BY <1>1, ExactInit
<1>3. TypeOK /\ CountingInv /\ TallyInv /\ GenInv /\ LiveInv /\ Filed /\ Settled /\
      Exact("cpu") /\ [Next]_vars => Exact("cpu")'
  BY <1>1, ExactStep
<1>4. Exact("cpu") => CPUConserved
  BY <1>1, ExactImplies DEF CPUConserved
<1>5. Spec => []LiveInv
  BY LiveInvCorrect
<1> QED
  BY <1>2, <1>3, <1>4, <1>5, TypeCorrect, CountingInvCorrect, TallyCorrect, GenCorrect,
     FiledCorrect, SettledCorrect, PTL DEF Spec

(***************************************************************************)
(* The same of context switches and bytes, whose files are read after the  *)
(* identity was: while those files can be read, every configuration asks   *)
(* for them and no PID is free again (readProcess, computeDeltas).         *)
(***************************************************************************)
THEOREM CtxIOConservedCorrect ==
  ASSUME NothingLost, Readable("ctx"), Readable("io")
  PROVE  Spec => []CtxIOConserved
<1>1. "ctx" \in Counter /\ "io" \in Counter
  BY DEF Counter
<1>2. Init => Exact("ctx") /\ Exact("io")
  BY <1>1, ExactInit
<1>3. TypeOK /\ CountingInv /\ TallyInv /\ GenInv /\ LiveInv /\ Filed /\ Settled /\
      Exact("ctx") /\ [Next]_vars => Exact("ctx")'
  BY <1>1, ExactStep
<1>4. TypeOK /\ CountingInv /\ TallyInv /\ GenInv /\ LiveInv /\ Filed /\ Settled /\
      Exact("io") /\ [Next]_vars => Exact("io")'
  BY <1>1, ExactStep
<1>5. Exact("ctx") /\ Exact("io") => CtxIOConserved
  BY <1>1, ExactImplies DEF CtxIOConserved
<1>6. Spec => []LiveInv
  BY LiveInvCorrect
<1> QED
  BY <1>2, <1>3, <1>4, <1>5, <1>6, TypeCorrect, CountingInvCorrect, TallyCorrect, GenCorrect,
     FiledCorrect, SettledCorrect, PTL DEF Spec

-----------------------------------------------------------------------------
(* The age of the two expensive figures.                                   *)

Figures == {"fd", "smaps"}

Has(f, r) == IF f = "fd" THEN r.haveFDs ELSE r.havePSS
At(f, r)  == IF f = "fd" THEN r.fdAt ELSE r.pssAt

Period(f, c) == IF f = "fd" THEN c.fdEvery ELSE c.smapsEvery

\* The scans that a schedule with period e names.
Due(f, e, no) == e <= 1 \/ no = 1 \/ no % e = IF f = "fd" THEN 1 ELSE e \div 2

\* No scan up to number n should have read the figure anew.
Recent(f, e, r, n) ==
  Has(f, r) => At(f, r) \in 0..n /\ \A s \in 1..n : s > At(f, r) => ~Due(f, e, s)

\* A filter that ignores nothing.
IgnoresNothing(c) ==
  /\ ~c.filter.ignoreKernel
  /\ c.filter.includeOnly = NoPattern
  /\ c.filter.ignoreComm = NoPattern
  /\ c.filter.ignoreCmd = NoPattern
  /\ c.filter.ignoreUsers = {}

(***************************************************************************)
(* A figure that is carried over must have survived every scan that was    *)
(* due to renew it: an ignored process keeps its entry without being read, *)
(* a listing that fails uses up its number, and a reload may change the    *)
(* schedule, so none of the three happens here.                            *)
(***************************************************************************)
SteadySchedule(f, e) ==
  /\ ~ListFaults
  /\ \A c \in Configs : IgnoresNothing(c) /\ Period(f, c) = e

RecentInv(f, e) ==
  /\ Walking => /\ f = "fd" => (scan.doFDs <=> Due(f, e, scanNo))
                /\ f = "smaps" => (scan.doSmaps <=> scan.cfg.readSmaps /\ Due(f, e, scanNo))
  /\ pc = "idle" => \A p \in DOMAIN m : m[p].gen = gen
  /\ \A p \in DOMAIN m :
       Recent(f, e, m[p], IF m[p].gen = gen THEN scanNo ELSE scanNo - 1)
  /\ \A p \in DOMAIN res.procs : Recent(f, e, res.procs[p], scanNo)

LEMMA RecentInit == \A f \in Figures, e \in Int : Init => RecentInv(f, e)
BY DEF Init, ScannerInit, NewStateMap, NoResult, RecentInv, Walking, Steps

LEMMA RecentKept ==
  ASSUME NEW f \in Figures, NEW e \in Int, RecentInv(f, e),
         UNCHANGED <<gen, scanNo>>, SameReport \/ NoReport,
         Walking' => Walking /\ UNCHANGED <<scan.cfg, scan.doFDs, scan.doSmaps>>,
         \A p \in DOMAIN m' : p \in DOMAIN m /\ m'[p] = m[p],
         pc' = "idle" => pc = "idle" \/ \A p \in DOMAIN m' : m'[p].gen = gen
  PROVE  RecentInv(f, e)'
<1>1. Walking' => /\ f = "fd" => (scan'.doFDs <=> Due(f, e, scanNo'))
                  /\ f = "smaps" => (scan'.doSmaps <=> scan'.cfg.readSmaps /\ Due(f, e, scanNo'))
  BY DEF RecentInv
<1>2. pc' = "idle" => \A p \in DOMAIN m' : m'[p].gen = gen'
  BY DEF RecentInv
<1>3. \A p \in DOMAIN m' :
        Recent(f, e, m'[p], IF m'[p].gen = gen' THEN scanNo' ELSE scanNo' - 1)
  BY DEF RecentInv
<1>4. \A p \in DOMAIN res'.procs : Recent(f, e, res'.procs[p], scanNo')
  BY DEF RecentInv, SameReport, NoReport
<1> QED
  BY <1>1, <1>2, <1>3, <1>4 DEF RecentInv, Recent

\* A new scan has met no process, and looks at the schedule.
LEMMA RecentBegin ==
  ASSUME NEW f \in Figures, NEW e \in Int, SteadySchedule(f, e)
  PROVE  TypeOK /\ RecentInv(f, e) /\ BeginScan => RecentInv(f, e)'
<1> SUFFICES ASSUME TypeOK, RecentInv(f, e), BeginScan PROVE RecentInv(f, e)'
  OBVIOUS
<1>1. /\ pc = "idle" /\ pc' = "walk" /\ m' = m /\ gen' = gen + 1 /\ scanNo' = scanNo + 1
      /\ DOMAIN res'.procs = {}
      /\ scan'.cfg = cfg
      /\ scan'.doFDs = ShouldScanFDs(cfg, scanNo')
      /\ scan'.doSmaps = ShouldScanSmaps(cfg, scanNo')
  BY DEF BeginScan, NextGeneration, SteadySchedule, NoResult
<1>2. gen \in Nat /\ scanNo \in Nat /\ cfg \in Configs
  BY ScannerAssumption DEF TypeOK, StateMapTypeOK, ControlTypeOK
<1>3. /\ f = "fd" => (scan'.doFDs <=> Due(f, e, scanNo'))
      /\ f = "smaps" => (scan'.doSmaps <=> scan'.cfg.readSmaps /\ Due(f, e, scanNo'))
  BY <1>1, <1>2 DEF ShouldScanFDs, ShouldScanSmaps, Due, SteadySchedule, Period
<1>4. \A p \in DOMAIN m : m[p].gen = gen /\ Recent(f, e, m[p], scanNo)
  BY <1>1 DEF RecentInv
<1>5. \A p \in DOMAIN m : m[p].gen # gen' /\ Recent(f, e, m[p], scanNo' - 1)
  BY <1>1, <1>2, <1>4
<1> QED
  BY <1>1, <1>3, <1>5 DEF RecentInv

\* A figure is read now, or carried over because it is not due.
LEMMA RecentRecord ==
  ASSUME NEW f \in Figures, NEW e \in Int
  PROVE  TypeOK /\ TallyInv /\ RecentInv(f, e) /\ Record => RecentInv(f, e)'
<1> SUFFICES ASSUME TypeOK, TallyInv, RecentInv(f, e), Record PROVE RecentInv(f, e)'
  OBVIOUS
<1>1. /\ UNCHANGED <<gen, scanNo, scan>>
      /\ pc \in Steps /\ pc' = "walk"
      /\ m' = Put(m, gen, rd.pid, NewState)
  BY DEF Record, Drop, Steps
<1>2. scanNo \in Nat
  BY ScannerAssumption DEF TypeOK, ControlTypeOK
<1>3. rd.havePrev => rd.pid \in DOMAIN m
  BY <1>1 DEF TypeOK, ReadingTypeOK
<1>4. ASSUME rd.pid \in DOMAIN m, Has(f, m[rd.pid]), ~Due(f, e, scanNo)
      PROVE  /\ At(f, m[rd.pid]) \in 0..scanNo
             /\ \A s \in 1..scanNo : s > At(f, m[rd.pid]) => ~Due(f, e, s)
  BY <1>2, <1>4 DEF RecentInv, Recent
<1>5. Recent(f, e, NewState, scanNo)
  <2>1. CASE f = "fd"
    <3>1. NewState.haveFDs <=> rd.haveFDs \/ CarriesFDs
      BY DEF NewState
    <3>2. NewState.fdAt = IF rd.haveFDs THEN scanNo
                          ELSE IF CarriesFDs THEN m[rd.pid].fdAt ELSE NeverRead
      BY DEF NewState
    <3>3. CASE rd.haveFDs
      BY <1>2, <2>1, <3>2, <3>3 DEF Recent, Has, At
    <3>4. CASE ~rd.haveFDs /\ CarriesFDs
      <4>1. ~Due(f, e, scanNo)
        BY <1>1, <2>1, <3>4 DEF CarriesFDs, RecentInv, Walking
      <4>2. rd.pid \in DOMAIN m /\ Has(f, m[rd.pid])
        BY <1>3, <2>1, <3>4 DEF CarriesFDs, Has
      <4>3. At(f, NewState) = At(f, m[rd.pid])
        BY <2>1, <3>2, <3>4 DEF At
      <4> QED
        BY <1>4, <4>1, <4>2, <4>3 DEF Recent
    <3> QED
      BY <2>1, <3>1, <3>3, <3>4 DEF Recent, Has
  <2>2. CASE f = "smaps"
    <3>1. NewState.havePSS <=> rd.havePSS \/ CarriesPSS
      BY DEF NewState
    <3>2. NewState.pssAt = IF rd.havePSS THEN scanNo
                           ELSE IF CarriesPSS THEN m[rd.pid].pssAt ELSE NeverRead
      BY DEF NewState
    <3>3. CASE rd.havePSS
      BY <1>2, <2>2, <3>2, <3>3 DEF Recent, Has, At
    <3>4. CASE ~rd.havePSS /\ CarriesPSS
      <4>1. ~Due(f, e, scanNo)
        BY <1>1, <2>2, <3>4 DEF CarriesPSS, RecentInv, Walking
      <4>2. rd.pid \in DOMAIN m /\ Has(f, m[rd.pid])
        BY <1>3, <2>2, <3>4 DEF CarriesPSS, Has
      <4>3. At(f, NewState) = At(f, m[rd.pid])
        BY <2>2, <3>2, <3>4 DEF At
      <4> QED
        BY <1>4, <4>1, <4>2, <4>3 DEF Recent
    <3> QED
      BY <2>2, <3>1, <3>3, <3>4 DEF Recent, Has
  <2> QED
    BY <2>1, <2>2 DEF Figures
<1>6. /\ m'[rd.pid].gen = gen
      /\ Has(f, m'[rd.pid]) <=> Has(f, NewState)
      /\ At(f, m'[rd.pid]) = At(f, NewState)
      /\ \A q \in DOMAIN m' : q # rd.pid => q \in DOMAIN m /\ m'[q] = m[q]
  BY <1>1 DEF Put, NewState, Has, At
<1>7. Has(f, Reading) <=> Has(f, NewState)
  BY DEF Reading, Has
<1>8. At(f, Reading) = At(f, NewState)
  BY DEF Reading, At
<1>9. Recent(f, e, m'[rd.pid], scanNo) /\ Recent(f, e, Reading, scanNo)
  BY <1>5, <1>6, <1>7, <1>8 DEF Recent
<1>10. \A p \in DOMAIN m' :
         Recent(f, e, m'[p], IF m'[p].gen = gen THEN scanNo ELSE scanNo - 1)
  BY <1>6, <1>9 DEF RecentInv
<1>11. \A p \in DOMAIN res'.procs : Recent(f, e, res'.procs[p], scanNo)
  BY <1>9, RecordReports DEF RecentInv
<1>12. Walking
  BY <1>1 DEF Walking
<1> QED
  BY <1>1, <1>10, <1>11, <1>12 DEF RecentInv

\* A filter that ignores nothing lets every reading pass.
LEMMA NothingIgnored ==
  ASSUME TypeOK, Filed, \A c \in Configs : IgnoresNothing(c), FilterAndName
  PROVE  m' = m /\ KeepsReading
<1>1. IgnoresNothing(scan.cfg)
  BY DEF Filed
<1>2. Keep(scan.cfg.filter, FilterInput(rd), NoUser)
  BY <1>1 DEF IgnoresNothing, Keep, Included, NoPattern
<1>3. m' = m /\ pc' = "statm"
  BY <1>2 DEF FilterAndName
<1> QED
  BY <1>3, FilterAndNameShape DEF Drop

LEMMA RecentStep ==
  ASSUME NEW f \in Figures, NEW e \in Int, SteadySchedule(f, e)
  PROVE  TypeOK /\ TallyInv /\ GenInv /\ Filed /\ RecentInv(f, e) /\ [Next]_vars =>
           RecentInv(f, e)'
<1> SUFFICES ASSUME TypeOK, TallyInv, GenInv, Filed, RecentInv(f, e), [Next]_vars
             PROVE  RecentInv(f, e)'
  OBVIOUS
<1>1. CASE BeginScan
  BY <1>1, RecentBegin
<1>2. CASE Record
  BY <1>2, RecentRecord
<1>3. (SameReport \/ NoReport) \/ Record
  BY ReportKinds
<1>4. ASSUME NEW p \in PIDS, ReadStat(p) PROVE RecentInv(f, e)'
  <2>1. /\ UNCHANGED <<gen, scanNo>> /\ pc = "walk"
        /\ scan' = [scan EXCEPT !.todo = @ \ {p}, !.room = @ - 1]
    BY <1>4 DEF ReadStat
  <2>2. pc' # "idle"
    BY <1>4 DEF ReadStat, Vanish, Drop, AfterStat, AfterCmdline
  <2>3. \A q \in DOMAIN m' : q \in DOMAIN m /\ m'[q] = m[q]
    BY <1>4 DEF ReadStat, Lookup
  <2>4. scan'.cfg = scan.cfg /\ scan'.doFDs = scan.doFDs /\ scan'.doSmaps = scan.doSmaps
    BY <2>1
  <2>5. Walking /\ ~Record
    BY <1>4, <2>1 DEF Walking, Record
  <2> QED
    BY <1>3, <2>1, <2>2, <2>3, <2>4, <2>5, RecentKept
<1>5. CASE LaterRead \/ FilterAndName
  <2>1. UNCHANGED <<m, gen, scanNo, scan>> /\ (Drop \/ KeepsReading)
    BY <1>5, LaterReadShape, NothingIgnored, FilterAndNameShape DEF SteadySchedule
  <2>2. pc \in Steps \ {"record"}
    BY <1>5 DEF LaterRead, ReadCmdline, ReadStatus, FilterAndName, ReadStatm, ReadIO, ReadFDs,
                ReadSmaps, Steps
  <2>3. pc' # "idle" /\ Walking /\ ~Record
    BY <2>1, <2>2 DEF Drop, KeepsReading, Walking, Steps, Record
  <2> QED
    BY <1>3, <2>1, <2>3, RecentKept
<1>6. CASE EndScan
  <2>1. /\ UNCHANGED <<gen, scanNo, scan>> /\ SameReport /\ ~Walking'
        /\ m' = [q \in {r \in DOMAIN m : m[r].gen >= gen} |-> m[q]]
    BY <1>6 DEF EndScan, Prune, SameReport, Walking, Steps
  <2>2. \A q \in DOMAIN m : m[q].gen <= gen /\ m[q].gen \in Nat /\ gen \in Nat
    BY DEF GenInv, TypeOK, StateMapTypeOK
  <2>3. \A q \in DOMAIN m' : q \in DOMAIN m /\ m'[q] = m[q] /\ m'[q].gen = gen
    BY <2>1, <2>2
  <2> QED
    BY <2>1, <2>3, RecentKept
<1>7. CASE AbortScan \/ Stop
  <2>1. UNCHANGED <<m, gen, scanNo, scan>> /\ pc' = "stopped" /\ ~Record
    BY <1>7 DEF AbortScan, AtBatchEnd, Stop, Record
  <2> QED
    BY <1>3, <2>1, RecentKept DEF Walking, Steps
<1>8. CASE ResetState
  <2>1. DOMAIN m' = {} /\ UNCHANGED <<scanNo, scan, pc, res>> /\ pc = "idle"
    BY <1>8 DEF ResetState, NewStateMap
  <2> QED
    BY <2>1 DEF RecentInv, Walking, Steps
<1>9. CASE KernelStep \/ (\E c \in Configs : Reload(c)) \/ Cancel \/ Halted \/ UNCHANGED vars
  <2>1. UNCHANGED <<m, gen, scanNo, scan, pc, res>>
    BY <1>9 DEF KernelStep, Reload, Cancel, Halted, vars, scannerVars
  <2> QED
    BY <2>1, RecentKept DEF SameReport, Walking
<1>10. CASE StartBatch
  <2>1. ~Record
    BY <1>10, StartBatchShape DEF Record
  <2> QED
    BY <1>3, <1>10, <2>1, StartBatchShape, RecentKept DEF Walking
<1> QED
  BY <1>1, <1>2, <1>4, <1>5, <1>6, <1>7, <1>8, <1>9, <1>10 DEF Next, ScanStep, LaterRead

\* A schedule names one scan in every period.
LEMMA RecentYoung ==
  ASSUME NEW f \in Figures, NEW e \in Int, NEW a \in Nat, NEW n \in Nat, a <= n,
         \A s \in 1..n : s > a => ~Due(f, e, s)
  PROVE  a = n \/ n - a < e
<1>1. CASE e <= 1
  BY <1>1 DEF Due
<1>2. CASE e > 1
  <2> DEFINE r == IF f = "fd" THEN 1 ELSE e \div 2
  <2>1. r \in 0..(e-1)
    BY <1>2
  <2>2. \A s \in 1..n : s > a => s % e # r
    BY DEF Due
  <2> HIDE DEF r
  <2>3. e \in Nat /\ e > 0
    BY <1>2
  <2> QED
    BY <2>1, <2>2, <2>3, EveryRemainder
<1> QED
  BY <1>1, <1>2

(***************************************************************************)
(* A descriptor count that is reported is younger than a period of its     *)
(* schedule, although it is carried from one scan to the next and the      *)
(* reads that renew it may fail (CarriesFDs, shouldScanFDs).               *)
(***************************************************************************)
THEOREM FDFreshCorrect ==
  ASSUME NEW e \in Int, SteadySchedule("fd", e)
  PROVE  Spec => []FDFresh
<1>1. "fd" \in Figures
  BY DEF Figures
<1>2. Init => RecentInv("fd", e)
  BY <1>1, RecentInit
<1>3. TypeOK /\ TallyInv /\ GenInv /\ Filed /\ RecentInv("fd", e) /\ [Next]_vars =>
        RecentInv("fd", e)'
  BY <1>1, RecentStep
<1>4. TypeOK /\ Filed /\ RecentInv("fd", e) => FDFresh
  <2> SUFFICES ASSUME TypeOK, Filed, RecentInv("fd", e),
                      NEW p \in DOMAIN res.procs, res.procs[p].haveFDs
               PROVE  \/ res.procs[p].fdAt = scanNo
                      \/ scanNo - res.procs[p].fdAt < scan.cfg.fdEvery
    BY DEF FDFresh
  <2>1. scan.cfg.fdEvery = e
    BY DEF Filed, SteadySchedule, Period
  <2>2. scanNo \in Nat
    BY ScannerAssumption DEF TypeOK, ControlTypeOK
  <2>3. /\ res.procs[p].fdAt \in 0..scanNo
        /\ \A s \in 1..scanNo : s > res.procs[p].fdAt => ~Due("fd", e, s)
    BY DEF RecentInv, Recent, Has, At
  <2>4. PICK a \in 0..scanNo : a = res.procs[p].fdAt
    BY <2>3
  <2>5. a \in Nat /\ a <= scanNo
    BY <2>2
  <2>6. a = scanNo \/ scanNo - a < e
    BY <1>1, <2>2, <2>3, <2>4, <2>5, RecentYoung
  <2> QED
    BY <2>1, <2>4, <2>6
<1> QED
  BY <1>2, <1>3, <1>4, TypeCorrect, TallyCorrect, GenCorrect, FiledCorrect, PTL DEF Spec

(***************************************************************************)
(* The same of a PSS figure, whose schedule waits for another remainder    *)
(* and which a configuration may switch off and on (CarriesPSS,            *)
(* shouldScanSmaps).                                                       *)
(***************************************************************************)
THEOREM PSSFreshCorrect ==
  ASSUME NEW e \in Int, SteadySchedule("smaps", e)
  PROVE  Spec => []PSSFresh
<1>1. "smaps" \in Figures
  BY DEF Figures
<1>2. Init => RecentInv("smaps", e)
  BY <1>1, RecentInit
<1>3. TypeOK /\ TallyInv /\ GenInv /\ Filed /\ RecentInv("smaps", e) /\ [Next]_vars =>
        RecentInv("smaps", e)'
  BY <1>1, RecentStep
<1>4. TypeOK /\ Filed /\ RecentInv("smaps", e) => PSSFresh
  <2> SUFFICES ASSUME TypeOK, Filed, RecentInv("smaps", e),
                      NEW p \in DOMAIN res.procs, res.procs[p].havePSS
               PROVE  \/ res.procs[p].pssAt = scanNo
                      \/ scanNo - res.procs[p].pssAt < scan.cfg.smapsEvery
    BY DEF PSSFresh
  <2>1. scan.cfg.smapsEvery = e
    BY DEF Filed, SteadySchedule, Period
  <2>2. scanNo \in Nat
    BY ScannerAssumption DEF TypeOK, ControlTypeOK
  <2>3. /\ res.procs[p].pssAt \in 0..scanNo
        /\ \A s \in 1..scanNo : s > res.procs[p].pssAt => ~Due("smaps", e, s)
    BY DEF RecentInv, Recent, Has, At
  <2>4. PICK a \in 0..scanNo : a = res.procs[p].pssAt
    BY <2>3
  <2>5. a \in Nat /\ a <= scanNo
    BY <2>2
  <2>6. a = scanNo \/ scanNo - a < e
    BY <1>1, <2>2, <2>3, <2>4, <2>5, RecentYoung
  <2> QED
    BY <2>1, <2>4, <2>6
<1> QED
  BY <1>2, <1>3, <1>4, TypeCorrect, TallyCorrect, GenCorrect, FiledCorrect, PTL DEF Spec

-----------------------------------------------------------------------------
(* The cached identity.                                                    *)

(***************************************************************************)
(* A cached name or user is out of date once the process executes another  *)
(* program or changes its user, and wrong for good if it was derived from  *)
(* a command line or a status that could not be read; a naming change      *)
(* decides anew what it should be.  None of this happens here, and a       *)
(* kernel thread has neither executable nor command line.  A reload may    *)
(* change all else: filters, schedules, what is read and what is cached.   *)
(***************************************************************************)
SameNaming(c, d) ==
  c.rules = d.rules /\ c.fallback = d.fallback /\ c.resolveUsers = d.resolveUsers

Unchanging ==
  /\ "exec" \notin KernelOps /\ "setuid" \notin KernelOps
  /\ \A c, d \in Configs : SameNaming(c, d)
  /\ Faults["cmdline"] \subseteq {"vanished"} /\ Faults["status"] \subseteq {"vanished"}
  /\ \A g \in Programs : g.kernel => g.exe = NoText /\ g.cmd = NoText

Running(p, s) == Alive(p, s) /\ ~proc[p].zombie

NameOf(g) ==
  GroupName(cfg.rules, cfg.fallback, [comm |-> g.comm, exe |-> g.exe, cmdline |-> g.cmd])

\* The user of r is that of the process with PID p.
OwnUser(p, r) == r.uid = proc[p].uid /\ r.user = UserName(cfg, proc[p].uid)

OwnEntries ==
  \A p \in DOMAIN m :
    Running(p, m[p].start) => OwnUser(p, m[p]) /\ m[p].name = NameOf(proc[p].prog)

\* What was read so far, or taken from the cache, is of the process that the
\* reading is of, and what was not read is in the cache.
OwnReading ==
  /\ rd.comm = proc[rd.pid].prog.comm
  /\ rd.user # NoUser => OwnUser(rd.pid, rd)
  /\ pc \notin {"cmdline", "status"} => rd.user # NoUser
  /\ rd.cmdRead = TRUE => rd.cmdline = proc[rd.pid].prog.cmd
  /\ pc # "cmdline" => rd.cmdRead = TRUE \/ (Cached(scan.cfg, rd) /\ m[rd.pid].name # NoText)
  /\ pc \notin {"cmdline", "status", "filter"} => rd.name = NameOf(proc[rd.pid].prog)

OwnInv ==
  /\ SameNaming(scan.cfg, cfg)
  /\ OwnEntries
  /\ pc \in Steps /\ Running(rd.pid, rd.start) => OwnReading

LEMMA OwnInit == Init => OwnInv
BY DEF Init, ScannerInit, NoScan, NewStateMap, Steps, OwnInv, OwnEntries, SameNaming

LEMMA OwnKernel ==
  ASSUME Unchanging
  PROVE  TypeOK /\ OwnInv /\ KernelStep => OwnInv'
<1> SUFFICES ASSUME TypeOK, OwnInv, KernelStep PROVE OwnInv'
  OBVIOUS
<1>1. UNCHANGED <<cfg, scan, pc, rd, m>>
  BY DEF KernelStep, scannerVars
<1>2. PICK p \in PIDS :
        \/ Run(p) \/ Exit(p) \/ Reap(p)
        \/ \E g \in Programs, u \in UIDS : Fork(p, g, u)
  BY DEF KernelStep, KernelNext, Unchanging, Exec, SetUID
<1>3. \A q \in DOMAIN proc' :
        \/ /\ q \in DOMAIN proc /\ proc'[q].start = proc[q].start
           /\ proc'[q].prog = proc[q].prog /\ proc'[q].uid = proc[q].uid
           /\ ~proc'[q].zombie => ~proc[q].zombie
        \/ q = p /\ proc'[q].start = lastStart + 1
  BY <1>2 DEF TypeOK, KernelTypeOK, Process, Run, Exit, Reap, Fork
<1>4. lastStart \in Nat
  BY KernelAssumption DEF TypeOK, KernelTypeOK
<1>5. ASSUME NEW q, NEW s \in 1..lastStart, Running(q, s)'
      PROVE  /\ Running(q, s)
             /\ proc'[q].prog = proc[q].prog /\ proc'[q].uid = proc[q].uid
  BY <1>3, <1>4, <1>5 DEF Running, Alive
<1>6. /\ \A q \in DOMAIN m : m[q].start \in 1..lastStart
      /\ pc \in Steps => rd.start \in 1..lastStart
  BY DEF TypeOK, StateMapTypeOK, ReadingTypeOK
<1>7. OwnEntries'
  BY <1>1, <1>5, <1>6 DEF OwnInv, OwnEntries, OwnUser, NameOf
<1>8. ASSUME pc' \in Steps, Running(rd.pid, rd.start)' PROVE OwnReading'
  <2>1. /\ OwnReading
        /\ proc'[rd.pid].prog = proc[rd.pid].prog /\ proc'[rd.pid].uid = proc[rd.pid].uid
    BY <1>1, <1>5, <1>6, <1>8 DEF OwnInv
  <2> QED
    BY <1>1, <2>1 DEF OwnReading, OwnUser, NameOf, Cached
<1> QED
  BY <1>1, <1>7, <1>8 DEF OwnInv

\* Entries are dropped or stamped, and no reading is left.
LEMMA OwnShrink ==
  ASSUME OwnInv, UNCHANGED <<proc, cfg>>, SameNaming(scan'.cfg, cfg), pc' \notin Steps,
         \A p \in DOMAIN m' : /\ p \in DOMAIN m
                              /\ m'[p].start = m[p].start /\ m'[p].name = m[p].name
                              /\ m'[p].user = m[p].user /\ m'[p].uid = m[p].uid
  PROVE  OwnInv'
BY DEF OwnInv, OwnEntries, OwnUser, NameOf, Running, Alive

\* A cached user is taken over with the entry that Lookup found.
LEMMA OwnStat == \A p \in PIDS : TypeOK /\ OwnInv /\ ReadStat(p) => OwnInv'
<1> SUFFICES ASSUME NEW p \in PIDS, TypeOK, OwnInv, ReadStat(p) PROVE OwnInv'
  OBVIOUS
<1>1. UNCHANGED <<kernelVars, cfg>> /\ scan' = [scan EXCEPT !.todo = @ \ {p}, !.room = @ - 1]
  BY DEF ReadStat
<1>2. proc' = proc /\ cfg' = cfg /\ scan'.cfg = scan.cfg /\ SameNaming(scan'.cfg, cfg)
  BY <1>1 DEF kernelVars, OwnInv
<1>3. CASE Drop /\ m' = m
  BY <1>2, <1>3, OwnShrink DEF Drop, Steps
<1>4. ASSUME p \in DOMAIN proc, m' = Lookup(m, p, proc[p].start).map,
             rd' = StatReading(scan.cfg, p), pc' = AfterStat(scan.cfg, rd')
      PROVE  OwnInv'
  <2> DEFINE start  == proc[p].start
             found  == p \in DOMAIN m /\ m[p].start = start
             cached == found /\ scan.cfg.cacheCmdline /\ m[p].user # NoUser
  <2>1. /\ rd'.pid = p /\ rd'.start = start /\ rd'.comm = proc[p].prog.comm
        /\ rd'.havePrev = found /\ rd'.cmdRead = FALSE
    BY <1>4, StatShape DEF Lookup
  <2>2. \/ cached /\ rd'.user = m[p].user /\ rd'.uid = m[p].uid
        \/ ~cached /\ rd'.user = NoUser
    <3>1. Cached(scan.cfg, rd') <=> found /\ scan.cfg.cacheCmdline
      BY <2>1 DEF Cached
    <3> QED
      BY <1>4, <3>1, StatShape
  <2>3. /\ \A q \in DOMAIN m' : q \in DOMAIN m /\ m'[q] = m[q]
        /\ found => p \in DOMAIN m'
    BY <1>4 DEF Lookup
  <2>4. OwnEntries'
    BY <1>2, <2>3 DEF OwnInv, OwnEntries, OwnUser, NameOf, Running, Alive
  <2>5. pc' \in {"cmdline", "status", "filter"}
    BY <1>4 DEF AfterStat, AfterCmdline
  <2>6. pc' = "filter" => rd'.user # NoUser
    BY <1>4 DEF AfterStat, AfterCmdline, NeedStatus
  <2>7. pc' # "cmdline" => Cached(scan.cfg, rd') /\ m[p].name # NoText
    BY <1>4, <2>1 DEF AfterStat, AfterCmdline, NeedCmdline, OwnInv
  <2>8. ASSUME Running(p, start) PROVE rd'.user # NoUser => OwnUser(p, rd')
    <3>1. cached => OwnUser(p, m[p])
      BY <2>8 DEF OwnInv, OwnEntries
    <3> QED
      BY <2>2, <3>1 DEF OwnUser
  <2>9. Running(rd.pid, rd.start)' => OwnReading'
    <3> SUFFICES ASSUME Running(rd.pid, rd.start)' PROVE OwnReading'
      OBVIOUS
    <3>1. Running(p, start)
      BY <1>2, <2>1 DEF Running, Alive
    <3>2. rd'.user # NoUser => OwnUser(rd.pid, rd)'
      BY <1>2, <2>1, <2>8, <3>1 DEF OwnUser
    <3>3. pc' # "cmdline" => Cached(scan.cfg, rd)' /\ m'[rd'.pid].name # NoText
      BY <1>2, <2>1, <2>3, <2>7 DEF Cached
    <3> QED
      BY <1>2, <2>1, <2>5, <2>6, <3>2, <3>3 DEF OwnReading
  <2> QED
    BY <1>2, <2>4, <2>9 DEF OwnInv
<1>5. \/ Drop /\ m' = m
      \/ /\ p \in DOMAIN proc /\ m' = Lookup(m, p, proc[p].start).map
         /\ rd' = StatReading(scan.cfg, p) /\ pc' = AfterStat(scan.cfg, rd')
  BY DEF ReadStat, Vanish, Outcome
<1> QED
  BY <1>3, <1>4, <1>5

\* The files of a running process are its own.
LEMMA OwnLaterRead ==
  ASSUME Unchanging
  PROVE  TypeOK /\ OwnInv /\ LaterRead => OwnInv'
<1> SUFFICES ASSUME TypeOK, OwnInv, LaterRead PROVE OwnInv'
  OBVIOUS
<1>1. UNCHANGED <<proc, cfg, scan, m>> /\ (Drop \/ KeepsReading)
  BY LaterReadShape DEF kernelVars
<1>2. CASE Drop
  BY <1>1, <1>2, OwnShrink DEF Drop, Steps, OwnInv
<1>3. CASE KeepsReading /\ ~Drop
  <2>1. OwnEntries'
    BY <1>1 DEF OwnInv, OwnEntries, OwnUser, NameOf, Running, Alive
  <2>2. SUFFICES ASSUME Running(rd.pid, rd.start)' PROVE OwnReading'
    BY <1>1, <2>1 DEF OwnInv
  <2>3. Running(rd.pid, rd.start) /\ OwnReading
    BY <1>1, <1>3, <2>2 DEF KeepsReading, Running, Alive, OwnInv
  <2>4. rd.pid \in DOMAIN proc /\ ~proc[rd.pid].zombie /\ proc[rd.pid].prog \in Programs
    BY <2>3 DEF Running, Alive, TypeOK, KernelTypeOK, Process
  <2>5. rd'.pid = rd.pid /\ rd'.havePrev = rd.havePrev /\ DOMAIN rd = DOMAIN NoReading
    BY <1>3 DEF KeepsReading, TypeOK, ReadingTypeOK
  <2>6. CASE ReadCmdline
    <3>1. /\ pc = "cmdline" /\ pc' = AfterCmdline(scan.cfg, rd)
          /\ rd' = [rd EXCEPT !.cmdRead = TRUE, !.cmdline = CmdlineOf(rd.pid)]
      BY <1>3, <2>4, <2>6 DEF ReadCmdline, Vanish, Outcome, Unchanging, Outcomes
    <3>2. CmdlineOf(rd.pid) = proc[rd.pid].prog.cmd
      BY <2>4 DEF CmdlineOf, NoMemory, Unchanging
    <3>3. /\ rd'.comm = rd.comm /\ rd'.user = rd.user /\ rd'.uid = rd.uid
          /\ rd'.cmdRead = TRUE /\ rd'.cmdline = CmdlineOf(rd.pid)
      BY <2>5, <3>1 DEF NoReading
    <3>4. pc' \in {"status", "filter"} /\ (pc' = "filter" => rd.user # NoUser)
      BY <3>1 DEF AfterCmdline, NeedStatus
    <3> QED
      BY <1>1, <2>3, <2>5, <3>2, <3>3, <3>4 DEF OwnReading, OwnUser
  <2>7. CASE ReadStatus
    <3> DEFINE u == proc[rd.pid].uid
    <3>1. /\ pc = "status" /\ pc' = "filter"
          /\ rd' = [ rd EXCEPT !.statusRead = TRUE, !.uid = u,
                               !.user = IF @ = NoUser THEN UserName(scan.cfg, u) ELSE @,
                               !.val["ctx"] = work[proc[rd.pid].start],
                               !.have["ctx"] = TRUE ]
      BY <1>3, <2>4, <2>7 DEF ReadStatus, Vanish, Outcome, Unchanging
    <3>2. /\ rd'.comm = rd.comm /\ rd'.cmdRead = rd.cmdRead /\ rd'.cmdline = rd.cmdline
          /\ rd'.uid = u
          /\ rd'.user = IF rd.user = NoUser THEN UserName(scan.cfg, u) ELSE rd.user
      BY <2>5, <3>1 DEF NoReading
    <3>3. UserName(cfg, u) # NoUser
      BY DEF UserName, UidString, NoUser
    <3>4. UserName(scan.cfg, u) = UserName(cfg, u)
      BY DEF OwnInv, SameNaming, UserName
    <3>5. OwnUser(rd.pid, rd)' /\ rd'.user # NoUser
      BY <1>1, <2>3, <2>5, <3>2, <3>3, <3>4 DEF OwnReading, OwnUser, OwnInv
    <3> QED
      BY <1>1, <2>3, <2>5, <3>1, <3>2, <3>5 DEF OwnReading, Cached
  <2>8. CASE ReadStatm \/ ReadIO \/ ReadFDs \/ ReadSmaps
    <3>1. /\ rd'.comm = rd.comm /\ rd'.user = rd.user /\ rd'.uid = rd.uid
          /\ rd'.cmdRead = rd.cmdRead /\ rd'.cmdline = rd.cmdline /\ rd'.name = rd.name
      BY <1>3, <2>5, <2>8 DEF ReadStatm, ReadIO, ReadFDs, ReadSmaps, Vanish, NoReading
    <3>2. pc \in {"statm", "io", "fd", "smaps"}
      BY <2>8 DEF ReadStatm, ReadIO, ReadFDs, ReadSmaps
    <3> QED
      BY <1>1, <2>3, <2>5, <3>1, <3>2 DEF OwnReading, OwnUser, NameOf, Cached
  <2> QED
    BY <2>6, <2>7, <2>8 DEF LaterRead
<1> QED
  BY <1>1, <1>2, <1>3

\* The name is the cached one, or derived from what the process itself shows.
LEMMA OwnFilter ==
  ASSUME Unchanging
  PROVE  TypeOK /\ OwnInv /\ FilterAndName => OwnInv'
<1> SUFFICES ASSUME TypeOK, OwnInv, FilterAndName PROVE OwnInv'
  OBVIOUS
<1>1. UNCHANGED <<proc, cfg, scan>> /\ pc = "filter" /\ pc \in Steps
  BY DEF FilterAndName, kernelVars, Steps
<1>2. CASE Drop /\ m' = Touch(m, gen, rd.pid)
  <2>1. \A p \in DOMAIN m' : /\ p \in DOMAIN m
                             /\ m'[p].start = m[p].start /\ m'[p].name = m[p].name
                             /\ m'[p].user = m[p].user /\ m'[p].uid = m[p].uid
    BY <1>2 DEF Touch, TypeOK, StateMapTypeOK, PIDStateFields
  <2> QED
    BY <1>1, <1>2, <2>1, OwnShrink DEF Drop, Steps, OwnInv
<1>3. CASE KeepsReading /\ m' = m
  <2> DEFINE in   == [comm |-> rd.comm, exe |-> ExeOf(rd.pid), cmdline |-> rd.cmdline]
             name == IF Cached(scan.cfg, rd) /\ m[rd.pid].name # NoText
                     THEN m[rd.pid].name
                     ELSE GroupName(cfg.rules, cfg.fallback, in)
  <2>1. OwnEntries'
    BY <1>1, <1>3 DEF OwnInv, OwnEntries, OwnUser, NameOf, Running, Alive
  <2>2. SUFFICES ASSUME Running(rd.pid, rd.start)' PROVE OwnReading'
    BY <1>1, <2>1 DEF OwnInv
  <2>3. Running(rd.pid, rd.start) /\ OwnReading
    BY <1>1, <1>3, <2>2 DEF KeepsReading, Running, Alive, OwnInv
  <2>4. rd.pid \in DOMAIN proc /\ ~proc[rd.pid].zombie /\ proc[rd.pid].prog \in Programs
    BY <2>3 DEF Running, Alive, TypeOK, KernelTypeOK, Process
  <2>5. /\ pc' = "statm"
        /\ rd' = [rd EXCEPT !.name = name,
                            !.user = IF @ = NoUser THEN UidString(rd.uid) ELSE @]
    BY <1>1, <1>3 DEF FilterAndName, KeepsReading, Drop, Steps, OwnInv, SameNaming
  <2>6. name = NameOf(proc[rd.pid].prog)
    <3>1. CASE Cached(scan.cfg, rd) /\ m[rd.pid].name # NoText
      <4>1. rd.pid \in DOMAIN m /\ m[rd.pid].start = rd.start
        BY <1>1, <3>1 DEF Cached, TypeOK, ReadingTypeOK
      <4> QED
        BY <2>3, <3>1, <4>1 DEF OwnInv, OwnEntries
    <3>2. CASE ~(Cached(scan.cfg, rd) /\ m[rd.pid].name # NoText)
      <4>1. rd.comm = proc[rd.pid].prog.comm /\ rd.cmdline = proc[rd.pid].prog.cmd
        BY <1>1, <2>3, <3>2 DEF OwnReading
      <4>2. ExeOf(rd.pid) = proc[rd.pid].prog.exe
        BY <2>4 DEF ExeOf, NoMemory, Unchanging
      <4> QED
        BY <3>2, <4>1, <4>2 DEF NameOf
    <3> QED
      BY <3>1, <3>2
  <2> HIDE DEF name
  <2>7. rd.user # NoUser
    BY <1>1, <2>3 DEF OwnReading
  <2>8. /\ rd'.comm = rd.comm /\ rd'.cmdline = rd.cmdline /\ rd'.uid = rd.uid
        /\ rd'.cmdRead = rd.cmdRead /\ rd'.pid = rd.pid /\ rd'.havePrev = rd.havePrev
        /\ rd'.name = name /\ rd'.user = rd.user
    BY <2>5, <2>7 DEF TypeOK, ReadingTypeOK, NoReading
  <2> QED
    BY <1>1, <1>3, <2>3, <2>5, <2>6, <2>8 DEF OwnReading, OwnUser, NameOf, Cached
<1> QED
  BY <1>2, <1>3, FilterAndNameShape

LEMMA OwnRecord == TypeOK /\ OwnInv /\ Record => OwnInv'
<1> SUFFICES ASSUME TypeOK, OwnInv, Record PROVE OwnInv'
  OBVIOUS
<1>1. UNCHANGED <<proc, cfg, scan>> /\ pc = "record" /\ pc' \notin Steps
  BY DEF Record, Drop, Steps, kernelVars
<1>2. /\ m'[rd.pid].start = rd.start /\ m'[rd.pid].name = rd.name
      /\ m'[rd.pid].user = rd.user /\ m'[rd.pid].uid = rd.uid
      /\ \A q \in DOMAIN m' : q # rd.pid => q \in DOMAIN m /\ m'[q] = m[q]
  BY DEF Record, Put, NewState
<1>3. Running(rd.pid, rd.start) => OwnUser(rd.pid, rd) /\ rd.name = NameOf(proc[rd.pid].prog)
  BY <1>1 DEF OwnInv, OwnReading, Steps
<1>4. OwnEntries'
  BY <1>1, <1>2, <1>3 DEF OwnInv, OwnEntries, OwnUser, NameOf, Running, Alive
<1> QED
  BY <1>1, <1>4 DEF OwnInv

LEMMA OwnStep ==
  ASSUME Unchanging
  PROVE  TypeOK /\ OwnInv /\ [Next]_vars => OwnInv'
<1> SUFFICES ASSUME TypeOK, OwnInv, [Next]_vars PROVE OwnInv'
  OBVIOUS
<1>1. CASE BeginScan \/ StartBatch \/ AbortScan \/ Stop
  <2>1. /\ UNCHANGED <<kernelVars, cfg, m>> /\ pc' \notin Steps
        /\ scan'.cfg = scan.cfg \/ scan'.cfg = cfg
    BY <1>1, StartBatchShape DEF BeginScan, AbortScan, Stop, Steps
  <2>2. SameNaming(scan'.cfg, cfg)
    BY <2>1 DEF OwnInv, SameNaming
  <2> QED
    BY <2>1, <2>2, OwnShrink DEF OwnInv, kernelVars
<1>2. CASE EndScan \/ ResetState
  <2>1. /\ UNCHANGED <<kernelVars, cfg, scan>> /\ pc' \notin Steps
        /\ \A p \in DOMAIN m' : p \in DOMAIN m /\ m'[p] = m[p]
    BY <1>2 DEF EndScan, ResetState, Prune, NewStateMap, Steps
  <2> QED
    BY <2>1, OwnShrink DEF OwnInv, kernelVars
<1>3. ASSUME NEW c \in Configs, Reload(c) PROVE OwnInv'
  <2>1. cfg' = c /\ UNCHANGED <<proc, scan, pc, rd, m>>
    BY <1>3 DEF Reload, scannerVars, kernelVars
  <2>2. SameNaming(cfg, c)
    BY DEF Unchanging, TypeOK, ControlTypeOK
  <2>3. /\ \A g : NameOf(g)' = NameOf(g)
        /\ \A u : UserName(cfg', u) = UserName(cfg, u)
    BY <2>1, <2>2 DEF SameNaming, NameOf, UserName
  <2>4. SameNaming(scan.cfg, cfg)'
    BY <2>1, <2>2 DEF OwnInv, SameNaming
  <2>5. OwnEntries'
    BY <2>1, <2>3 DEF OwnInv, OwnEntries, OwnUser, Running, Alive
  <2>6. ASSUME pc \in Steps, Running(rd.pid, rd.start) PROVE OwnReading'
    BY <2>1, <2>3, <2>6 DEF OwnInv, OwnReading, OwnUser, Cached
  <2> QED
    BY <2>1, <2>4, <2>5, <2>6 DEF OwnInv, Running, Alive
<1>4. CASE Cancel \/ Halted \/ UNCHANGED vars
  <2>1. UNCHANGED <<proc, cfg, scan, pc, rd, m>>
    BY <1>4 DEF Cancel, Halted, vars, scannerVars, kernelVars
  <2> QED
    BY <2>1 DEF OwnInv, OwnEntries, OwnReading, OwnUser, NameOf, Running, Alive, Cached
<1> QED
  BY <1>1, <1>2, <1>3, <1>4, OwnKernel, OwnStat, OwnLaterRead, OwnFilter, OwnRecord
  DEF Next, ScanStep, LaterRead

(***************************************************************************)
(* What is cached of a running process is its own, although its PID may    *)
(* have had another holder before, or during, the scan that cached it, and *)
(* although its files are read one after another (Lookup, readProcess).    *)
(***************************************************************************)
THEOREM OwnIdentityCorrect ==
  ASSUME Unchanging
  PROVE  Spec => []OwnIdentity
<1>1. TypeOK /\ OwnInv /\ [Next]_vars => OwnInv'
  BY OwnStep
<1>2. OwnInv => OwnIdentity
  BY DEF OwnInv, OwnEntries, OwnIdentity, OwnUser, NameOf, Running, Alive
<1> QED
  BY <1>1, <1>2, OwnInit, TypeCorrect, PTL DEF Spec

=============================================================================
