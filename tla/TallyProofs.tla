----------------------------- MODULE TallyProofs -----------------------------
(***************************************************************************)
(* What holds of a scan's own accounts, for every machine, configuration,  *)
(* fault and number of scans: each listed process is counted once, and the *)
(* map is left with the processes of the scan.                             *)
(***************************************************************************)
EXTENDS ScannerProofs

ResultShape == DOMAIN res = {"procs", "ignored", "vanished", "denied", "errs"}

Walking == pc \in Steps \cup {"walk"}

(***************************************************************************)
(* Accounting, said of each PID, with what carries it from read to read: a *)
(* process under way is one that was taken from the list, and between two  *)
(* processes no PID is under way.                                          *)
(***************************************************************************)
TallyInv ==
  /\ ResultShape
  /\ Walking =>
       /\ scan.todo \subseteq scan.listed
       /\ scan.listed \subseteq PIDS
       /\ \A q : q \in Passed <=> \E k \in 1..5 : q \in Tallies[k]
       /\ \A q : \A j, k \in 1..5 : q \in Tallies[j] /\ q \in Tallies[k] => j = k
  /\ pc \notin Steps => rd.pid = NoPid
  /\ pc \in Steps => rd.pid \in scan.listed \ scan.todo

\* A process is dropped with one tally more, or its reading goes on with none.
Files(p) ==
  /\ pc' = "walk" /\ rd'.pid = NoPid
  /\ DOMAIN res' = DOMAIN res
  /\ \E k \in 1..5 : \A j \in 1..5 :
       Tallies'[j] = IF j = k THEN Tallies[j] \cup {p} ELSE Tallies[j]

GoesOn(p) ==
  /\ pc' \in Steps /\ rd'.pid = p
  /\ DOMAIN res' = DOMAIN res
  /\ \A j \in 1..5 : Tallies'[j] = Tallies[j]

-----------------------------------------------------------------------------

LEMMA PidsPositive == NoPid \notin PIDS
BY KernelAssumption DEF NoPid

LEMMA TallyValues ==
  /\ DOMAIN Tallies = 1..5
  /\ Tallies[1] = DOMAIN res.procs
  /\ Tallies[2] = res.ignored
  /\ Tallies[3] = res.vanished
  /\ Tallies[4] = res.denied
  /\ Tallies[5] = {p \in PIDS : <<"stat", p>> \in res.errs}
  BY DEF Tallies

LEMMA TallyValuesNext ==
  /\ Tallies'[1] = DOMAIN res'.procs
  /\ Tallies'[2] = res'.ignored
  /\ Tallies'[3] = res'.vanished
  /\ Tallies'[4] = res'.denied
  /\ Tallies'[5] = {p \in PIDS : <<"stat", p>> \in res'.errs}
  BY DEF Tallies

\* One tally of the five grows, the others stay.
LEMMA FiveTallies ==
  ASSUME NEW p, NEW k \in 1..5,
         Tallies'[1] = IF k = 1 THEN Tallies[1] \cup {p} ELSE Tallies[1],
         Tallies'[2] = IF k = 2 THEN Tallies[2] \cup {p} ELSE Tallies[2],
         Tallies'[3] = IF k = 3 THEN Tallies[3] \cup {p} ELSE Tallies[3],
         Tallies'[4] = IF k = 4 THEN Tallies[4] \cup {p} ELSE Tallies[4],
         Tallies'[5] = IF k = 5 THEN Tallies[5] \cup {p} ELSE Tallies[5],
         pc' = "walk", rd' = NoReading, DOMAIN res' = DOMAIN res
  PROVE  Files(p)
<1>1. \A j \in 1..5 : Tallies'[j] = IF j = k THEN Tallies[j] \cup {p} ELSE Tallies[j]
  <2> TAKE j \in 1..5
  <2>1. j = 1 \/ j = 2 \/ j = 3 \/ j = 4 \/ j = 5
    OBVIOUS
  <2> QED
    BY <2>1
<1>2. rd'.pid = NoPid
  BY DEF NoReading
<1> QED
  BY <1>1, <1>2 DEF Files

\* One more in one tally, by the field of the result that it is kept in.
LEMMA OneTally ==
  ASSUME ResultShape, NEW p \in PIDS, pc' = "walk", rd' = NoReading,
         \/ res' = [res EXCEPT !.ignored = @ \cup {p}]
         \/ res' = [res EXCEPT !.vanished = @ \cup {p}]
         \/ res' = [res EXCEPT !.denied = @ \cup {p}]
         \/ res' = [res EXCEPT !.errs = @ \cup {<<"stat", p>>}]
         \/ \E s : /\ DOMAIN s = DOMAIN res.procs \cup {p}
                   /\ res' = [res EXCEPT !.procs = s]
  PROVE  Files(p)
<1> USE TallyValues, TallyValuesNext DEF ResultShape
<1>1. CASE res' = [res EXCEPT !.ignored = @ \cup {p}]
  <2>1. /\ DOMAIN res' = DOMAIN res
        /\ res'.procs = res.procs /\ res'.ignored = res.ignored \cup {p}
        /\ res'.vanished = res.vanished /\ res'.denied = res.denied /\ res'.errs = res.errs
    BY <1>1
  <2> QED
    BY <2>1, FiveTallies, 2 \in 1..5
<1>2. CASE res' = [res EXCEPT !.vanished = @ \cup {p}]
  <2>1. /\ DOMAIN res' = DOMAIN res
        /\ res'.procs = res.procs /\ res'.ignored = res.ignored
        /\ res'.vanished = res.vanished \cup {p}
        /\ res'.denied = res.denied /\ res'.errs = res.errs
    BY <1>2
  <2> QED
    BY <2>1, FiveTallies, 3 \in 1..5
<1>3. CASE res' = [res EXCEPT !.denied = @ \cup {p}]
  <2>1. /\ DOMAIN res' = DOMAIN res
        /\ res'.procs = res.procs /\ res'.ignored = res.ignored
        /\ res'.vanished = res.vanished /\ res'.denied = res.denied \cup {p}
        /\ res'.errs = res.errs
    BY <1>3
  <2> QED
    BY <2>1, FiveTallies, 4 \in 1..5
<1>4. CASE res' = [res EXCEPT !.errs = @ \cup {<<"stat", p>>}]
  <2>1. /\ DOMAIN res' = DOMAIN res
        /\ res'.procs = res.procs /\ res'.ignored = res.ignored
        /\ res'.vanished = res.vanished /\ res'.denied = res.denied
        /\ res'.errs = res.errs \cup {<<"stat", p>>}
    BY <1>4
  <2>2. Tallies'[5] = Tallies[5] \cup {p}
    BY <2>1
  <2> QED
    BY <2>1, <2>2, FiveTallies, 5 \in 1..5
<1>5. ASSUME NEW s, DOMAIN s = DOMAIN res.procs \cup {p}, res' = [res EXCEPT !.procs = s]
      PROVE  Files(p)
  <2>1. /\ DOMAIN res' = DOMAIN res
        /\ res'.procs = s /\ res'.ignored = res.ignored
        /\ res'.vanished = res.vanished /\ res'.denied = res.denied /\ res'.errs = res.errs
    BY <1>5
  <2> QED
    BY <1>5, <2>1, FiveTallies, 1 \in 1..5
<1> QED
  BY <1>1, <1>2, <1>3, <1>4, <1>5

\* A read that failed, other than stat, is in no tally.
LEMMA NoTally ==
  ASSUME ResultShape, NEW p, pc' \in Steps, rd'.pid = p,
         \/ UNCHANGED res
         \/ \E f \in File \ {"stat"} : \E q : res' = [res EXCEPT !.errs = @ \cup {<<f, q>>}]
  PROVE  GoesOn(p)
<1>1. CASE UNCHANGED res
  BY <1>1 DEF GoesOn, Tallies
<1>2. ASSUME NEW f \in File \ {"stat"}, NEW q, res' = [res EXCEPT !.errs = @ \cup {<<f, q>>}]
      PROVE  GoesOn(p)
  <2>1. /\ DOMAIN res' = DOMAIN res
        /\ res'.procs = res.procs /\ res'.ignored = res.ignored
        /\ res'.vanished = res.vanished /\ res'.denied = res.denied
        /\ res'.errs = res.errs \cup {<<f, q>>}
    BY <1>2 DEF ResultShape
  <2>2. {r \in PIDS : <<"stat", r>> \in res'.errs} = {r \in PIDS : <<"stat", r>> \in res.errs}
    BY <2>1
  <2>3. Tallies' = Tallies
    BY <2>1, <2>2 DEF Tallies
  <2> QED
    BY <2>1, <2>3 DEF GoesOn
<1> QED
  BY <1>1, <1>2

\* The invariant after either kind of step.
LEMMA FilesTally ==
  ASSUME TallyInv, NEW p, p \in scan.listed, scan'.listed = scan.listed,
         scan'.todo = scan.todo \ {p}, p \in scan.todo \/ p = rd.pid,
         Walking, Files(p), pc \in Steps => p = rd.pid
  PROVE  TallyInv'
<1> USE PidsPositive DEF TallyInv, ResultShape
<1>1. /\ pc' = "walk" /\ rd'.pid = NoPid
      /\ DOMAIN res' = DOMAIN res
      /\ Walking' /\ pc' \notin Steps
  BY DEF Files, Walking, Steps
<1>2. PICK k \in 1..5 : \A j \in 1..5 :
        Tallies'[j] = IF j = k THEN Tallies[j] \cup {p} ELSE Tallies[j]
  BY DEF Files
<1>3. p \notin Passed
  BY DEF Passed
<1>4. \A q : q \in Passed' <=> q \in Passed \/ q = p
  BY <1>1 DEF Passed, Walking
<1>5. \A q : q \in Passed' <=> \E j \in 1..5 : q \in Tallies'[j]
  BY <1>2, <1>4
<1>6. \A q : \A i, j \in 1..5 : q \in Tallies'[i] /\ q \in Tallies'[j] => i = j
  BY <1>2, <1>3
<1> QED
  BY <1>1, <1>5, <1>6

LEMMA GoesOnTally ==
  ASSUME TallyInv, NEW p, p \in scan.listed, scan'.listed = scan.listed,
         scan'.todo = scan.todo \ {p}, p \in scan.todo \/ p = rd.pid,
         Walking, GoesOn(p), pc \in Steps => p = rd.pid
  PROVE  TallyInv'
<1> USE PidsPositive DEF TallyInv, ResultShape
<1>1. /\ pc' \in Steps /\ rd'.pid = p
      /\ DOMAIN res' = DOMAIN res
      /\ Walking' /\ pc' # "walk"
  BY DEF GoesOn, Walking, Steps
<1>2. \A j \in 1..5 : Tallies'[j] = Tallies[j]
  BY DEF GoesOn
<1>3. \A q : q \in Passed' <=> q \in Passed
  BY <1>1 DEF Passed, Walking
<1> QED
  BY <1>1, <1>2, <1>3

-----------------------------------------------------------------------------

LEMMA TallyInit == Init => TallyInv
BY DEF Init, ScannerInit, TallyInv, ResultShape, Walking, Steps, NoResult, NoReading

LEMMA TallyBegin == TypeOK /\ TallyInv /\ BeginScan => TallyInv'
<1> SUFFICES ASSUME TypeOK, TallyInv, BeginScan PROVE TallyInv'
  OBVIOUS
<1>1. res' = NoResult /\ rd' = rd /\ rd.pid = NoPid /\ pc = "idle"
  BY DEF BeginScan, TallyInv, Steps
<1>2. ResultShape'
  BY <1>1 DEF ResultShape, NoResult
<1>3. CASE UNCHANGED <<pc, scan>>
  BY <1>1, <1>2, <1>3 DEF TallyInv, Walking, Steps
<1>4. ASSUME pc' = "walk", scan'.listed = DOMAIN proc, scan'.todo = DOMAIN proc
      PROVE  TallyInv'
  <2>1. DOMAIN proc \subseteq PIDS
    BY DEF TypeOK, KernelTypeOK
  <2>2. \A k \in 1..5 : Tallies'[k] = {}
    <3> TAKE k \in 1..5
    <3>1. k = 1 \/ k = 2 \/ k = 3 \/ k = 4 \/ k = 5
      OBVIOUS
    <3> QED
      BY <1>1, <3>1, TallyValuesNext DEF NoResult
  <2>3. Passed' = {}
    BY <1>4 DEF Passed
  <2> QED
    BY <1>1, <1>2, <1>4, <2>1, <2>2, <2>3 DEF TallyInv, Walking, Steps
<1> QED
  BY <1>3, <1>4 DEF BeginScan

LEMMA TallyStat == \A p \in PIDS : TallyInv /\ ReadStat(p) => TallyInv'
<1> SUFFICES ASSUME NEW p \in PIDS, TallyInv, ReadStat(p) PROVE TallyInv'
  OBVIOUS
<1>1. /\ pc = "walk" /\ p \in scan.todo
      /\ scan' = [scan EXCEPT !.todo = @ \ {p}, !.room = @ - 1]
  BY DEF ReadStat
<1>2. Files(p) \/ GoesOn(p)
  <2>1. CASE Drop /\ \/ res' = [res EXCEPT !.vanished = @ \cup {p}]
                     \/ res' = [res EXCEPT !.denied = @ \cup {p}]
                     \/ res' = [res EXCEPT !.errs = @ \cup {<<"stat", p>>}]
    BY <2>1, OneTally DEF Drop, TallyInv
  <2>2. CASE rd' = StatReading(scan.cfg, p) /\ pc' = AfterStat(scan.cfg, rd') /\ UNCHANGED res
    <3>1. rd'.pid = p
      BY <2>2 DEF StatReading, NoReading
    <3>2. pc' \in Steps
      BY <2>2 DEF AfterStat, AfterCmdline, Steps
    <3> QED
      BY <2>2, <3>1, <3>2, NoTally DEF TallyInv
  <2> QED
    BY <2>1, <2>2 DEF ReadStat, Vanish, Note
<1>3. Walking /\ pc \notin Steps /\ p \in scan.listed
  BY <1>1 DEF Walking, Steps, TallyInv
<1>4. scan'.listed = scan.listed /\ scan'.todo = scan.todo \ {p}
  BY <1>1
<1> QED
  BY <1>1, <1>2, <1>3, <1>4, FilesTally, GoesOnTally

\* A step that ends the reading under way, or takes it further.
LEMMA TallyReading ==
  ASSUME TallyInv, pc \in Steps, UNCHANGED scan, Files(rd.pid) \/ GoesOn(rd.pid)
  PROVE  TallyInv'
<1>1. Walking /\ rd.pid \in scan.listed /\ rd.pid \notin scan.todo
  BY DEF Walking, TallyInv
<1>2. scan'.listed = scan.listed /\ scan'.todo = scan.todo \ {rd.pid}
  BY <1>1
<1> QED
  BY <1>1, <1>2, FilesTally, GoesOnTally

LEMMA TallyLaterRead == TypeOK /\ TallyInv /\ LaterRead => TallyInv'
<1> SUFFICES ASSUME TypeOK, TallyInv, LaterRead PROVE TallyInv'
  OBVIOUS
<1>1. UNCHANGED scan /\ (Drop \/ KeepsReading)
  BY LaterReadShape
<1>2. pc \in Steps
  BY DEF LaterRead, ReadCmdline, ReadStatus, ReadStatm, ReadIO, ReadFDs, ReadSmaps, Steps
<1>3. \/ Vanish(rd.pid)
      \/ /\ pc' # "walk"
         /\ \/ UNCHANGED res
            \/ \E f \in File \ {"stat"} : Note(f, rd.pid)
  BY DEF LaterRead, ReadCmdline, ReadStatus, ReadStatm, ReadIO, ReadFDs, ReadSmaps,
         NoteUnlessDenied, File, AfterCmdline, AfterStatm, AfterIO, AfterFDs
<1>4. rd.pid \in PIDS
  BY <1>2 DEF TypeOK, ReadingTypeOK
<1>5. CASE Vanish(rd.pid)
  <2>1. Files(rd.pid)
    BY <1>4, <1>5, OneTally DEF Vanish, Drop, TallyInv
  <2> QED
    BY <1>1, <1>2, <2>1, TallyReading
<1>6. CASE /\ pc' # "walk"
           /\ UNCHANGED res \/ \E f \in File \ {"stat"} : Note(f, rd.pid)
  <2>1. pc' \in Steps /\ rd'.pid = rd.pid
    BY <1>1, <1>6 DEF Drop, KeepsReading
  <2>2. GoesOn(rd.pid)
    BY <1>6, <2>1, NoTally DEF Note, TallyInv
  <2> QED
    BY <1>1, <1>2, <2>2, TallyReading
<1> QED
  BY <1>3, <1>5, <1>6

LEMMA TallyFilter == TypeOK /\ TallyInv /\ FilterAndName => TallyInv'
<1> SUFFICES ASSUME TypeOK, TallyInv, FilterAndName PROVE TallyInv'
  OBVIOUS
<1>1. pc \in Steps /\ UNCHANGED scan
  BY DEF FilterAndName, Steps
<1>2. rd.pid \in PIDS
  BY <1>1 DEF TypeOK, ReadingTypeOK
<1>3. CASE Drop /\ res' = [res EXCEPT !.ignored = @ \cup {rd.pid}]
  <2>1. Files(rd.pid)
    BY <1>2, <1>3, OneTally DEF Drop, TallyInv
  <2> QED
    BY <1>1, <2>1, TallyReading
<1>4. CASE pc' = "statm" /\ UNCHANGED res
  <2>1. KeepsReading
    BY <1>4, FilterAndNameShape DEF Drop
  <2>2. GoesOn(rd.pid)
    BY <1>4, <2>1, NoTally DEF KeepsReading, TallyInv
  <2> QED
    BY <1>1, <2>2, TallyReading
<1> QED
  BY <1>3, <1>4 DEF FilterAndName

LEMMA TallyRecord == TypeOK /\ TallyInv /\ Record => TallyInv'
<1> SUFFICES ASSUME TypeOK, TallyInv, Record PROVE TallyInv'
  OBVIOUS
<1>1. pc \in Steps /\ UNCHANGED scan /\ Drop
  BY DEF Record, Steps
<1>2. rd.pid \in PIDS
  BY <1>1 DEF TypeOK, ReadingTypeOK
<1>3. \E s : /\ DOMAIN s = DOMAIN res.procs \cup {rd.pid}
             /\ res' = [res EXCEPT !.procs = s]
  BY DEF Record
<1>4. Files(rd.pid)
  BY <1>1, <1>2, <1>3, OneTally DEF Drop, TallyInv
<1> QED
  BY <1>1, <1>4, TallyReading

LEMMA TallyStep == TypeOK /\ TallyInv /\ [Next]_vars => TallyInv'
<1> SUFFICES ASSUME TypeOK, TallyInv, [Next]_vars PROVE TallyInv'
  OBVIOUS
<1>1. CASE UNCHANGED <<pc, scan, rd, res>>
  BY <1>1 DEF TallyInv, ResultShape, Walking, Passed, Tallies
<1>2. CASE AbortScan \/ EndScan \/ Stop
  BY <1>2 DEF AbortScan, AtBatchEnd, EndScan, Stop, TallyInv, ResultShape, NoResult, Walking, Steps
<1>3. CASE BeginScan
  BY <1>3, TallyBegin
<1>4. ASSUME NEW p \in PIDS, ReadStat(p) PROVE TallyInv'
  BY <1>4, TallyStat
<1>5. CASE LaterRead
  BY <1>5, TallyLaterRead
<1>6. CASE FilterAndName
  BY <1>6, TallyFilter
<1>7. CASE Record
  BY <1>7, TallyRecord
<1>8. CASE KernelStep \/ (\E c \in Configs : Reload(c)) \/ ResetState \/ Cancel \/ Halted
           \/ UNCHANGED vars
  BY <1>1, <1>8 DEF KernelStep, Reload, ResetState, Cancel, Halted, vars, scannerVars
<1>9. CASE StartBatch
  BY <1>9, StartBatchShape DEF TallyInv, ResultShape, Walking, Passed, Tallies
<1> QED
  BY <1>2, <1>3, <1>4, <1>5, <1>6, <1>7, <1>8, <1>9 DEF Next, ScanStep, LaterRead

LEMMA TallyCorrect == Spec => []TallyInv
BY TallyInit, TallyStep, TypeCorrect, PTL DEF Spec

\* Each process that a scan has passed is counted once: as scanned, ignored,
\* vanished, denied or a stat error (Result).
THEOREM AccountingCorrect == Spec => []Accounting
<1>1. TallyInv => Accounting
  <2> SUFFICES ASSUME TallyInv, Walking PROVE
          /\ UNION {Tallies[k] : k \in DOMAIN Tallies} = Passed
          /\ \A j, k \in DOMAIN Tallies : j # k => Tallies[j] \cap Tallies[k] = {}
    BY DEF Accounting, Walking
  <2> QED
    BY TallyValues DEF TallyInv
<1> QED
  BY <1>1, TallyCorrect, PTL

-----------------------------------------------------------------------------
(* What Prune leaves.                                                      *)

(***************************************************************************)
(* The generation of an entry says whether this scan has met its process,  *)
(* and what it reported has an entry.                                      *)
(***************************************************************************)
Met == DOMAIN res.procs \cup res.ignored

GenInv ==
  /\ \A q \in DOMAIN m : m[q].gen <= gen
  /\ Walking => /\ DOMAIN res.procs \subseteq DOMAIN m
                /\ \A q \in DOMAIN m : m[q].gen = gen <=> q \in Met

LEMMA GenInit == Init => GenInv
BY DEF Init, ScannerInit, GenInv, Walking, Steps, NewStateMap

\* What is under way has not been met.
LEMMA UnderWay ==
  ASSUME TallyInv, Walking, NEW p, p \in scan.todo \/ (pc \in Steps /\ p = rd.pid)
  PROVE  p \notin Met
<1>1. p \notin Passed
  BY DEF Passed
<1> QED
  BY <1>1, TallyValues, 1 \in 1..5, 2 \in 1..5 DEF TallyInv, Met

LEMMA GenBegin == TypeOK /\ GenInv /\ BeginScan => GenInv'
<1> SUFFICES ASSUME TypeOK, GenInv, BeginScan PROVE GenInv'
  OBVIOUS
<1>1. gen' = gen + 1 /\ m' = m /\ gen \in Nat /\ \A q \in DOMAIN m : m[q].gen \in Nat
  BY DEF BeginScan, NextGeneration, TypeOK, StateMapTypeOK
<1>2. Met' = {} /\ DOMAIN res'.procs = {}
  BY DEF BeginScan, NoResult, Met
<1> QED
  BY <1>1, <1>2 DEF GenInv

LEMMA GenStat == \A p \in PIDS : TallyInv /\ GenInv /\ ReadStat(p) => GenInv'
<1> SUFFICES ASSUME NEW p \in PIDS, TallyInv, GenInv, ReadStat(p) PROVE GenInv'
  OBVIOUS
<1>1. Walking /\ p \in scan.todo /\ gen' = gen
  BY DEF ReadStat, Walking
<1>2. p \notin Met
  BY <1>1, UnderWay
<1>3. m' = m \/ m' = Lookup(m, p, proc[p].start).map
  BY DEF ReadStat
<1>4. \/ UNCHANGED res
      \/ res' = [res EXCEPT !.vanished = @ \cup {p}]
      \/ res' = [res EXCEPT !.denied = @ \cup {p}]
      \/ res' = [res EXCEPT !.errs = @ \cup {<<"stat", p>>}]
  BY DEF ReadStat, Vanish, Note
<1>5. res'.procs = res.procs /\ res'.ignored = res.ignored
  BY <1>4 DEF TallyInv, ResultShape
<1>6. /\ DOMAIN m' \subseteq DOMAIN m /\ DOMAIN m \ {p} \subseteq DOMAIN m'
      /\ \A q \in DOMAIN m' : m'[q] = m[q]
  BY <1>3 DEF Lookup
<1> QED
  BY <1>1, <1>2, <1>5, <1>6 DEF GenInv, Met

\* The reads that follow look at the map only, and report nothing.
LEMMA GenLaterRead == TypeOK /\ TallyInv /\ GenInv /\ LaterRead => GenInv'
<1> SUFFICES ASSUME TypeOK, TallyInv, GenInv, LaterRead PROVE GenInv'
  OBVIOUS
<1>1. UNCHANGED <<m, gen>>
  BY LaterReadShape
<1>2. Walking
  BY DEF LaterRead, ReadCmdline, ReadStatus, ReadStatm, ReadIO, ReadFDs, ReadSmaps,
         Walking, Steps
<1>3. \/ Vanish(rd.pid)
      \/ UNCHANGED res
      \/ \E f \in File : Note(f, rd.pid)
  BY DEF LaterRead, ReadCmdline, ReadStatus, ReadStatm, ReadIO, ReadFDs, ReadSmaps,
         NoteUnlessDenied, File
<1>4. res'.procs = res.procs /\ res'.ignored = res.ignored
  BY <1>3 DEF Vanish, Note, TallyInv, ResultShape
<1> QED
  BY <1>1, <1>2, <1>4 DEF GenInv, Met

\* The entry of p is stamped, and p has been met now.
LEMMA GenStamp ==
  ASSUME TypeOK, TallyInv, GenInv, pc \in Steps, gen' = gen,
         \A q \in DOMAIN m \ {rd.pid} : q \in DOMAIN m' /\ m'[q] = m[q],
         DOMAIN m' \subseteq DOMAIN m \cup {rd.pid},
         rd.pid \in DOMAIN m' => m'[rd.pid].gen = gen,
         DOMAIN res'.procs \subseteq DOMAIN res.procs \cup (DOMAIN m' \cap {rd.pid}),
         DOMAIN res.procs \subseteq DOMAIN res'.procs,
         Met' = Met \cup {rd.pid}
  PROVE  GenInv'
<1>1. rd.pid \notin Met /\ Walking
  BY UnderWay DEF Walking
<1>2. gen \in Nat
  BY DEF TypeOK, StateMapTypeOK
<1>3. \A q \in DOMAIN m' : m'[q].gen <= gen' /\ (m'[q].gen = gen' <=> q \in Met')
  <2> TAKE q \in DOMAIN m'
  <2>1. CASE q = rd.pid
    BY <1>2, <2>1
  <2>2. CASE q # rd.pid
    BY <1>1, <2>2 DEF GenInv
  <2> QED
    BY <2>1, <2>2
<1>4. DOMAIN res'.procs \subseteq DOMAIN m'
  BY <1>1 DEF GenInv, Met
<1> QED
  BY <1>3, <1>4 DEF GenInv

LEMMA GenFilter == TypeOK /\ TallyInv /\ GenInv /\ FilterAndName => GenInv'
<1> SUFFICES ASSUME TypeOK, TallyInv, GenInv, FilterAndName PROVE GenInv'
  OBVIOUS
<1>1. pc \in Steps /\ gen' = gen /\ Walking
  BY DEF FilterAndName, Steps, Walking
<1>2. CASE m' = Touch(m, gen, rd.pid) /\ res' = [res EXCEPT !.ignored = @ \cup {rd.pid}]
  <2>1. res'.procs = res.procs /\ res'.ignored = res.ignored \cup {rd.pid}
    BY <1>2 DEF TallyInv, ResultShape
  <2>2. DOMAIN m' = DOMAIN m
    BY <1>2 DEF Touch
  <2>3. \A q \in DOMAIN m \ {rd.pid} : m'[q] = m[q]
    BY <1>2 DEF Touch
  <2>4. rd.pid \in DOMAIN m => m'[rd.pid].gen = gen
    BY <1>2 DEF Touch, TypeOK, StateMapTypeOK, PIDStateFields
  <2> QED
    BY <1>1, <2>1, <2>2, <2>3, <2>4, GenStamp DEF Met
<1>3. CASE UNCHANGED <<m, res>>
  BY <1>1, <1>3 DEF GenInv, Met
<1> QED
  BY <1>2, <1>3 DEF FilterAndName

LEMMA GenRecord == TypeOK /\ TallyInv /\ GenInv /\ Record => GenInv'
<1> SUFFICES ASSUME TypeOK, TallyInv, GenInv, Record PROVE GenInv'
  OBVIOUS
<1>1. pc \in Steps /\ gen' = gen /\ m' = Put(m, gen, rd.pid, NewState)
  BY DEF Record, Steps
<1>2. DOMAIN res'.procs = DOMAIN res.procs \cup {rd.pid} /\ res'.ignored = res.ignored
  BY DEF Record, TallyInv, ResultShape
<1>3. DOMAIN m' = DOMAIN m \cup {rd.pid} /\ m'[rd.pid].gen = gen
  BY <1>1 DEF Put, NewState
<1>4. \A q \in DOMAIN m \ {rd.pid} : m'[q] = m[q]
  BY <1>1 DEF Put
<1> QED
  BY <1>1, <1>2, <1>3, <1>4, GenStamp DEF Met

LEMMA GenStep == TypeOK /\ TallyInv /\ GenInv /\ [Next]_vars => GenInv'
<1> SUFFICES ASSUME TypeOK, TallyInv, GenInv, [Next]_vars PROVE GenInv'
  OBVIOUS
<1>1. CASE UNCHANGED <<m, gen, pc, res>>
  BY <1>1 DEF GenInv, Walking, Met
<1>2. CASE AbortScan \/ Stop
  BY <1>2 DEF AbortScan, Stop, GenInv, Walking, Steps
<1>3. CASE EndScan
  BY <1>3 DEF EndScan, Prune, GenInv, Walking, Steps
<1>4. CASE ResetState
  BY <1>4 DEF ResetState, NewStateMap, GenInv, Walking, Steps
<1>5. CASE BeginScan
  BY <1>5, GenBegin
<1>6. ASSUME NEW p \in PIDS, ReadStat(p) PROVE GenInv'
  BY <1>6, GenStat
<1>7. CASE LaterRead
  BY <1>7, GenLaterRead
<1>8. CASE FilterAndName \/ Record
  BY <1>8, GenFilter, GenRecord
<1>9. CASE StartBatch \/ KernelStep \/ (\E c \in Configs : Reload(c)) \/ Cancel \/ Halted
           \/ UNCHANGED vars
  BY <1>1, <1>9 DEF StartBatch, KernelStep, Reload, Cancel, Halted, vars, scannerVars
<1> QED
  BY <1>2, <1>3, <1>4, <1>5, <1>6, <1>7, <1>8, <1>9 DEF Next, ScanStep, LaterRead

LEMMA GenCorrect == Spec => []GenInv
BY GenInit, GenStep, TypeCorrect, TallyCorrect, PTL DEF Spec

\* A scan that ends leaves an entry for what it reported, for what it ignored
\* and had an entry, and for nothing else (Prune, Touch, Put).
THEOREM MapCorrect == Spec => MapTracksScan
<1>1. TypeOK /\ TallyInv /\ GenInv /\ [Next]_vars =>
        [pc = "walk" /\ pc' = "idle" =>
           DOMAIN m' = DOMAIN res.procs \cup (res.ignored \cap DOMAIN m)]_vars
  <2> SUFFICES ASSUME TypeOK, GenInv, [Next]_vars, pc = "walk", pc' = "idle"
               PROVE  DOMAIN m' = DOMAIN res.procs \cup (res.ignored \cap DOMAIN m)
    OBVIOUS
  <2>1. EndScan
    BY DEF Next, KernelStep, ScanStep, BeginScan, StartBatch, AbortScan, ReadStat, ReadCmdline,
           ReadStatus, FilterAndName, ReadStatm, ReadIO, ReadFDs, ReadSmaps, Record,
           Vanish, Drop, AfterStat, AfterCmdline, Reload, ResetState, Cancel, Stop,
           Halted, vars, scannerVars
  <2>2. DOMAIN m' = {q \in DOMAIN m : m[q].gen >= gen}
    BY <2>1 DEF EndScan, Prune
  <2>3. \A q \in DOMAIN m : m[q].gen >= gen <=> q \in Met
    BY DEF GenInv, Walking, TypeOK, StateMapTypeOK
  <2> QED
    BY <2>2, <2>3 DEF GenInv, Walking, Met
<1> QED
  BY <1>1, TypeCorrect, TallyCorrect, GenCorrect, PTL DEF Spec, MapTracksScan

-----------------------------------------------------------------------------
(* The entries of running processes.                                       *)

(***************************************************************************)
(* The entry of a running process is lost when the state is reset, when    *)
(* its stat cannot be read, when a file is gone although its process is    *)
(* not, and when PSS is asked of a kernel thread or a zombie, which has no *)
(* memory map and answers ESRCH.  None of this happens here.               *)
(***************************************************************************)
AllMapped == "exit" \notin KernelOps /\ \A g \in Programs : ~g.kernel

NothingLost ==
  /\ ~Resets
  /\ Faults["stat"] = {}
  /\ \A f \in File : "vanished" \notin Faults[f]
  /\ SmapsRollup => AllMapped \/ \A c \in Configs : ~c.readSmaps

\* Unless each process can be asked for its smaps_rollup, none is.
Mapped ==
  /\ AllMapped => \A q \in DOMAIN proc : ~NoMemory(q)
  /\ ~SmapsRollup \/ AllMapped \/ (pc # "smaps" /\ ~scan.doSmaps)

(***************************************************************************)
(* While a scan is on its way, the entry of a running process that it has  *)
(* not met belongs to a process that it is still to meet, and a reading is *)
(* of the process that its entry describes.                                *)
(***************************************************************************)
LiveEntries ==
  /\ pc \in Steps /\ rd.pid \in DOMAIN m => m[rd.pid].start = rd.start
  /\ Walking => \A q \in DOMAIN m :
                  Alive(q, m[q].start) /\ m[q].gen # gen =>
                    q \in scan.todo \/ (pc \in Steps /\ q = rd.pid)

LiveInv == Mapped /\ LiveEntries

LEMMA LiveInit == Init => LiveInv
BY DEF Init, KernelInit, ScannerInit, LiveInv, Mapped, LiveEntries, NoScan, Walking, Steps

\* What is true of the processes there are is true of those that start.
LEMMA MappedKernel == TypeOK /\ Mapped /\ KernelStep => Mapped'
<1> SUFFICES ASSUME TypeOK, Mapped, KernelStep PROVE Mapped'
  OBVIOUS
<1>1. UNCHANGED <<pc, scan>>
  BY DEF KernelStep, scannerVars
<1>2. PICK p \in PIDS :
        \/ Run(p) \/ Exit(p) \/ Reap(p)
        \/ \E g \in Programs : Exec(p, g)
        \/ \E u \in UIDS : SetUID(p, u)
        \/ \E g \in Programs, u \in UIDS : Fork(p, g, u)
  BY DEF KernelStep, KernelNext
<1>3. ASSUME AllMapped, NEW q \in DOMAIN proc' PROVE ~NoMemory(q)'
  <2>1. /\ q \in DOMAIN proc => ~proc[q].prog.kernel /\ ~proc[q].zombie
        /\ \A g \in Programs : ~g.kernel
    BY <1>3 DEF Mapped, AllMapped, NoMemory
  <2>2. \/ q \in DOMAIN proc /\ proc'[q].prog = proc[q].prog /\ proc'[q].zombie = proc[q].zombie
        \/ \E g \in Programs : proc'[q].prog = g /\ ~proc'[q].zombie
    BY <1>2, <1>3, <2>1
    DEF AllMapped, TypeOK, KernelTypeOK, Process, Run, Exit, Reap, Exec, SetUID, Fork
  <2> QED
    BY <2>1, <2>2 DEF NoMemory
<1> QED
  BY <1>1, <1>3 DEF Mapped

\* smaps comes next only where the scan asks for it.
LEMMA MappedScan ==
  ASSUME NothingLost
  PROVE  TypeOK /\ Mapped /\ ScanStep => Mapped'
<1> SUFFICES ASSUME TypeOK, Mapped, ScanStep PROVE Mapped'
  OBVIOUS
<1>1. UNCHANGED proc
  BY DEF ScanStep, BeginScan, StartBatch, AbortScan, EndScan, ReadStat, ReadCmdline,
         ReadStatus, FilterAndName, ReadStatm, ReadIO, ReadFDs, ReadSmaps, Record, kernelVars
<1>2. ASSUME SmapsRollup, ~AllMapped PROVE pc' # "smaps" /\ ~scan'.doSmaps
  <2>1. pc # "smaps" /\ ~scan.doSmaps
    BY <1>2 DEF Mapped
  <2>2. CASE BeginScan
    BY <1>2, <2>1, <2>2
    DEF BeginScan, ShouldScanSmaps, NothingLost, TypeOK, ControlTypeOK
  <2>3. ASSUME NEW p \in PIDS, ReadStat(p) PROVE pc' # "smaps" /\ ~scan'.doSmaps
    BY <2>1, <2>3
    DEF ReadStat, Vanish, Drop, AfterStat, AfterCmdline
  <2>4. CASE LaterRead
    BY <2>1, <2>4
    DEF LaterRead, ReadCmdline, ReadStatus, ReadStatm, ReadIO, ReadFDs, ReadSmaps,
        Vanish, Drop, AfterCmdline, AfterStatm, AfterIO, AfterFDs
  <2>5. CASE StartBatch \/ AbortScan \/ EndScan \/ FilterAndName \/ Record
    BY <2>1, <2>5, StartBatchShape DEF AbortScan, EndScan, FilterAndName, Record, Drop
  <2> QED
    BY <2>2, <2>3, <2>4, <2>5 DEF ScanStep, LaterRead
<1>3. AllMapped => \A q \in DOMAIN proc' : ~NoMemory(q)'
  BY <1>1 DEF Mapped, NoMemory
<1> QED
  BY <1>2, <1>3, ScannerAssumption DEF Mapped

\* No instance starts that has an entry.
LEMMA LiveKernel == TypeOK /\ LiveEntries /\ KernelStep => LiveEntries'
<1> SUFFICES ASSUME TypeOK, LiveEntries, KernelStep PROVE LiveEntries'
  OBVIOUS
<1>1. UNCHANGED <<pc, rd, m, gen, scan>>
  BY DEF KernelStep, scannerVars
<1>2. \A q \in DOMAIN m : Alive(q, m[q].start)' => Alive(q, m[q].start)
  <2>1. PICK p \in PIDS :
          \/ Run(p) \/ Exit(p) \/ Reap(p)
          \/ \E g \in Programs : Exec(p, g)
          \/ \E u \in UIDS : SetUID(p, u)
          \/ \E g \in Programs, u \in UIDS : Fork(p, g, u)
    BY DEF KernelStep, KernelNext
  <2>2. \A q \in DOMAIN proc' :
          \/ q \in DOMAIN proc /\ proc'[q].start = proc[q].start
          \/ proc'[q].start = lastStart + 1
    BY <2>1 DEF TypeOK, KernelTypeOK, Process, Run, Exit, Reap, Exec, SetUID, Fork
  <2>3. \A q \in DOMAIN m : m[q].start \in 1..lastStart /\ lastStart \in Nat
    BY KernelAssumption DEF TypeOK, StateMapTypeOK, KernelTypeOK
  <2> QED
    BY <1>1, <2>2, <2>3 DEF Alive
<1> QED
  BY <1>1, <1>2 DEF LiveEntries, Walking

LEMMA LiveStat ==
  ASSUME NothingLost
  PROVE  \A p \in PIDS : TypeOK /\ LiveEntries /\ ReadStat(p) => LiveEntries'
<1> SUFFICES ASSUME NEW p \in PIDS, TypeOK, LiveEntries, ReadStat(p) PROVE LiveEntries'
  OBVIOUS
<1>1. /\ pc = "walk" /\ Walking /\ UNCHANGED <<kernelVars, gen>>
      /\ scan' = [scan EXCEPT !.todo = @ \ {p}, !.room = @ - 1]
  BY DEF ReadStat, Walking
<1>2. scan'.todo = scan.todo \ {p} /\ scan'.doSmaps = scan.doSmaps
  BY <1>1
<1>3. CASE p \notin DOMAIN proc /\ Drop /\ m' = m
  BY <1>1, <1>2, <1>3 DEF LiveEntries, Drop, Steps, Walking, Alive, kernelVars
<1>4. ASSUME p \in DOMAIN proc, m' = Lookup(m, p, proc[p].start).map,
             rd' = StatReading(scan.cfg, p), pc' = AfterStat(scan.cfg, rd')
      PROVE  LiveEntries'
  <2>1. pc' \in {"cmdline", "status", "filter"}
    BY <1>4 DEF AfterStat, AfterCmdline
  <2>2. rd'.pid = p /\ rd'.start = proc[p].start
    BY <1>4 DEF StatReading, NoReading
  <2>3. /\ \A q \in DOMAIN m' : q \in DOMAIN m /\ m'[q] = m[q]
        /\ p \in DOMAIN m' => m'[p].start = proc[p].start
    BY <1>4 DEF Lookup
  <2> QED
    BY <1>1, <1>2, <2>1, <2>2, <2>3 DEF LiveEntries, Steps, Walking, Alive, kernelVars
<1>5. \A o \in Outcome("stat", p) :
        IF p \in DOMAIN proc THEN o = "ok" ELSE o = "vanished"
  BY DEF Outcome, NothingLost
<1>6. \/ p \notin DOMAIN proc /\ Drop /\ m' = m
      \/ /\ p \in DOMAIN proc /\ m' = Lookup(m, p, proc[p].start).map
         /\ rd' = StatReading(scan.cfg, p) /\ pc' = AfterStat(scan.cfg, rd')
  BY <1>5 DEF ReadStat, Vanish
<1> QED
  BY <1>3, <1>4, <1>6

LEMMA LiveLaterRead ==
  ASSUME NothingLost
  PROVE  TypeOK /\ Mapped /\ LiveEntries /\ LaterRead => LiveEntries'
<1> SUFFICES ASSUME TypeOK, Mapped, LiveEntries, LaterRead PROVE LiveEntries'
  OBVIOUS
<1>1. UNCHANGED <<kernelVars, m, gen, scan>> /\ pc \in Steps /\ Walking
  BY LaterReadShape
  DEF LaterRead, ReadCmdline, ReadStatus, ReadStatm, ReadIO, ReadFDs, ReadSmaps, Steps, Walking
<1>2. CASE Drop
  <2>1. \A f \in File : "vanished" \in Outcome(f, rd.pid) =>
          rd.pid \notin DOMAIN proc \/ (f = "smaps" /\ NoMemory(rd.pid) /\ SmapsRollup)
    BY DEF Outcome, WithoutMemory, NothingLost
  <2>2. rd.pid \notin DOMAIN proc
    BY <1>2, <2>1
    DEF LaterRead, ReadCmdline, ReadStatus, ReadStatm, ReadIO, ReadFDs, ReadSmaps, Mapped, File,
        Drop, AfterCmdline, AfterStatm, AfterIO, AfterFDs
  <2> QED
    BY <1>1, <1>2, <2>2 DEF LiveEntries, Drop, Steps, Walking, Alive, kernelVars
<1>3. CASE KeepsReading /\ ~Drop
  BY <1>1, <1>3 DEF LiveEntries, KeepsReading, Walking, Alive, kernelVars
<1> QED
  BY <1>2, <1>3, LaterReadShape

\* The entry of the process under way is stamped, or becomes that of the reading.
LEMMA LiveStamped ==
  ASSUME TypeOK, LiveEntries, pc \in Steps, pc' = "walk", UNCHANGED <<kernelVars, gen, scan>>,
         \A q \in DOMAIN m' : \/ q = rd.pid /\ m'[q].gen = gen
                              \/ q \in DOMAIN m /\ q # rd.pid /\ m'[q] = m[q]
  PROVE  LiveEntries'
BY DEF LiveEntries, Walking, Steps, Alive, kernelVars

LEMMA LiveFilterRecord == TypeOK /\ LiveEntries /\ (FilterAndName \/ Record) => LiveEntries'
<1> SUFFICES ASSUME TypeOK, LiveEntries, FilterAndName \/ Record PROVE LiveEntries'
  OBVIOUS
<1>1. UNCHANGED <<kernelVars, gen, scan>> /\ pc \in Steps
  BY DEF FilterAndName, Record, Steps
<1>2. CASE Record
  BY <1>1, <1>2, LiveStamped DEF Record, Put, NewState, Drop
<1>3. CASE FilterAndName /\ Drop /\ m' = Touch(m, gen, rd.pid)
  <2>1. \A q \in DOMAIN m' : \/ q = rd.pid /\ m'[q].gen = gen
                             \/ q \in DOMAIN m /\ q # rd.pid /\ m'[q] = m[q]
    BY <1>3 DEF Touch, TypeOK, StateMapTypeOK, PIDStateFields
  <2> QED
    BY <1>1, <1>3, <2>1, LiveStamped DEF Drop
<1>4. CASE FilterAndName /\ KeepsReading /\ m' = m
  BY <1>1, <1>4 DEF LiveEntries, KeepsReading, Walking, Alive, kernelVars
<1> QED
  BY <1>2, <1>3, <1>4, FilterAndNameShape

LEMMA LiveStep ==
  ASSUME NothingLost
  PROVE  TypeOK /\ LiveInv /\ [Next]_vars => LiveInv'
<1> SUFFICES ASSUME TypeOK, LiveInv, [Next]_vars PROVE LiveInv'
  OBVIOUS
<1>1. CASE KernelStep
  BY <1>1, MappedKernel, LiveKernel DEF LiveInv
<1>2. CASE ScanStep
  <2>1. Mapped'
    BY <1>2, MappedScan DEF LiveInv
  <2>2. CASE BeginScan
    <3>1. \/ UNCHANGED <<pc, scan>>
          \/ pc' = "walk" /\ scan'.todo = DOMAIN proc
      BY <2>2 DEF BeginScan
    <3> QED
      BY <2>1, <2>2, <3>1 DEF BeginScan, LiveInv, LiveEntries, Walking, Steps, Alive, kernelVars
  <2>4. CASE StartBatch
    BY <2>1, <2>4, StartBatchShape DEF LiveInv, LiveEntries, Walking, Alive, kernelVars
  <2>3. CASE AbortScan \/ EndScan
    BY <2>1, <2>3 DEF AbortScan, EndScan, LiveInv, LiveEntries, Walking, Steps
  <2> QED
    BY <1>2, <2>1, <2>2, <2>3, <2>4, LiveStat, LiveLaterRead, LiveFilterRecord
    DEF ScanStep, LaterRead, LiveInv
<1>3. CASE UNCHANGED <<kernelVars, pc, scan, rd, m, gen>>
  BY <1>3 DEF LiveInv, Mapped, NoMemory, LiveEntries, Walking, Alive, kernelVars
<1>4. CASE (\E c \in Configs : Reload(c)) \/ Cancel \/ Halted \/ UNCHANGED vars
  BY <1>3, <1>4 DEF Reload, Cancel, Halted, vars, scannerVars
<1>5. CASE Stop
  BY <1>5 DEF Stop, LiveInv, Mapped, NoMemory, LiveEntries, Walking, Steps, kernelVars
<1>6. ~ResetState
  BY DEF ResetState, NothingLost
<1> QED
  BY <1>1, <1>2, <1>4, <1>5, <1>6 DEF Next

\* When a scan ends, the entries of running processes have been stamped.
LEMMA LivePruned ==
  TypeOK /\ TallyInv /\ GenInv /\ LiveInv /\ EndScan =>
    /\ \A q \in DOMAIN m' : q \in DOMAIN m /\ m'[q] = m[q]
    /\ \A q \in DOMAIN m : Alive(q, m[q].start) => q \in DOMAIN m'
<1> SUFFICES ASSUME TypeOK, LiveInv, EndScan
             PROVE  /\ \A q \in DOMAIN m' : q \in DOMAIN m /\ m'[q] = m[q]
                    /\ \A q \in DOMAIN m : Alive(q, m[q].start) => q \in DOMAIN m'
  OBVIOUS
<1>1. m' = [q \in {r \in DOMAIN m : m[r].gen >= gen} |-> m[q]]
  BY DEF EndScan, Prune
<1>2. \A q \in DOMAIN m : Alive(q, m[q].start) => m[q].gen = gen
  BY DEF EndScan, LiveInv, LiveEntries, Walking, Steps
<1>3. gen \in Nat
  BY DEF TypeOK, StateMapTypeOK
<1> QED
  BY <1>1, <1>2, <1>3

\* What a step does to the entry of a running process: nothing.
LEMMA LiveKept ==
  ASSUME NothingLost
  PROVE  TypeOK /\ TallyInv /\ GenInv /\ LiveInv /\ [Next]_vars =>
           \A q \in DOMAIN m : Alive(q, m[q].start) =>
             q \in DOMAIN m' /\ m'[q].start = m[q].start
<1> SUFFICES ASSUME TypeOK, TallyInv, GenInv, LiveInv, [Next]_vars,
                    NEW q \in DOMAIN m, Alive(q, m[q].start)
             PROVE  q \in DOMAIN m' /\ m'[q].start = m[q].start
  OBVIOUS
<1>1. CASE EndScan
  BY <1>1, LivePruned
<1>2. ASSUME NEW p \in PIDS, ReadStat(p) PROVE q \in DOMAIN m' /\ m'[q].start = m[q].start
  <2>1. m' = m \/ (p \in DOMAIN proc /\ m' = Lookup(m, p, proc[p].start).map)
    BY <1>2 DEF ReadStat, Outcome
  <2> QED
    BY <2>1 DEF Lookup, Alive
<1>3. CASE FilterAndName
  BY <1>3, FilterAndNameShape DEF Touch, TypeOK, StateMapTypeOK, PIDStateFields
<1>4. CASE Record
  BY <1>4 DEF Record, Put, NewState, LiveInv, LiveEntries, Steps
<1>5. CASE m' = m
  BY <1>5
<1>6. ~ResetState
  BY DEF ResetState, NothingLost
<1> QED
  BY <1>1, <1>2, <1>3, <1>4, <1>5, <1>6, LaterReadShape
  DEF Next, ScanStep, KernelStep, BeginScan, StartBatch, AbortScan, LaterRead, Reload, Cancel,
      Stop, Halted, vars, scannerVars

LEMMA LiveInvCorrect ==
  ASSUME NothingLost
  PROVE  Spec => []LiveInv
<1>1. TypeOK /\ LiveInv /\ [Next]_vars => LiveInv'
  BY LiveStep
<1> QED
  BY <1>1, LiveInit, TypeCorrect, PTL DEF Spec

(***************************************************************************)
(* Unless the code loses it on purpose, the entry of a process that still  *)
(* runs is never dropped, whatever else comes, goes or takes its place in  *)
(* the middle of a scan (Prune, Lookup, Touch).                            *)
(***************************************************************************)
THEOREM KeepsLiveCorrect ==
  ASSUME NothingLost
  PROVE  Spec => KeepsLive
<1>1. TypeOK /\ TallyInv /\ GenInv /\ LiveInv /\ [Next]_vars =>
        [\A p \in DOMAIN m :
           Alive(p, m[p].start) => p \in DOMAIN m' /\ m'[p].start = m[p].start]_vars
  BY LiveKept
<1>2. Spec => []LiveInv
  BY LiveInvCorrect
<1> QED
  BY <1>1, <1>2, TypeCorrect, TallyCorrect, GenCorrect, PTL DEF Spec, KeepsLive

=============================================================================
