--------------------------- MODULE PipelineProofs ---------------------------
(***************************************************************************)
(* What holds of Pipeline for every machine, configuration, retention and  *)
(* schedule: the totals are kept as long as they must be and no longer,    *)
(* and together with the scanner they implement Ledger.                    *)
(***************************************************************************)
EXTENDS Pipeline, ResultProofs, AggregatorProofs

-----------------------------------------------------------------------------
(* The scanner of the pipeline is the scanner.                             *)

LEMMA ScannerInside == PipelineSpec => Spec
<1>1. PipelineInit => Init
  BY DEF PipelineInit
<1>2. [PipelineNext]_pipelineVars => [Next]_vars
  BY DEF PipelineNext, ScanRound, ApplyResult, ReloadStep, NamingChange, Clock, PipelineHalted,
         pipelineVars, Next
<1> QED
  BY <1>1, <1>2, PTL DEF PipelineSpec, Spec

ScannerInv == TypeOK /\ TallyInv /\ CountingInv /\ HoldersInv /\ Reported

LEMMA ScannerInvCorrect == PipelineSpec => []ScannerInv
BY ScannerInside, TypeCorrect, TallyCorrect, CountingInvCorrect, HoldersCorrect,
   ReportedCorrect, PTL DEF ScannerInv

\* Nobody stops this scanner, and a scan under way is one to be applied.
Pending == ~cancelled /\ (Walking => pending)

LEMMA PendingInit == PipelineInit => Pending
BY DEF PipelineInit, Init, ScannerInit, Pending, Walking, Steps

LEMMA PendingStep == TypeOK /\ Pending /\ [PipelineNext]_pipelineVars => Pending'
<1> SUFFICES ASSUME TypeOK, Pending, [PipelineNext]_pipelineVars PROVE Pending'
  OBVIOUS
<1>1. CASE KernelStep /\ UNCHANGED <<now, aggregatorVars, pending>>
  BY <1>1 DEF KernelStep, scannerVars, Pending, Walking
<1>2. CASE ScanRound
  <2>1. cancelled' = cancelled
    BY <1>2, LaterReadShape, FilterAndNameShape
    DEF ScanRound, ScanStep, BeginScan, StartBatch, AbortScan, EndScan, ReadStat, LaterRead,
        Record
  <2>2. pc \notin Steps \cup {"walk"} => pc' \notin Steps
    BY <1>2 DEF ScanRound, ScanStep, BeginScan, StartBatch, AbortScan, AtBatchEnd, EndScan,
                ReadStat, ReadCmdline, ReadStatus, FilterAndName, ReadStatm, ReadIO, ReadFDs,
                ReadSmaps, Record, Steps
  <2>3. pending' = (pending \/ pc' = "walk")
    BY <1>2 DEF ScanRound
  <2> QED
    BY <2>1, <2>2, <2>3 DEF Pending, Walking
<1>3. CASE ApplyResult \/ Clock \/ PipelineHalted \/ UNCHANGED pipelineVars
  BY <1>3 DEF ApplyResult, Clock, PipelineHalted, pipelineVars, vars, scannerVars, Pending,
              Walking, Steps
<1>4. CASE NamingChange
  BY <1>4 DEF NamingChange, ResetState, Pending, Walking, Steps
<1>5. CASE ReloadStep
  BY <1>5 DEF ReloadStep, Reload, scannerVars, Pending, Walking
<1> QED
  BY <1>1, <1>2, <1>3, <1>4, <1>5 DEF PipelineNext

LEMMA PendingCorrect == PipelineSpec => []Pending
BY PendingInit, PendingStep, ScannerInvCorrect, PTL DEF PipelineSpec, ScannerInv

-----------------------------------------------------------------------------
(* The totals.                                                             *)

\* The aggregator sees the readings of the result, and can count them.
LEMMA FiguredReadings ==
  Reported => /\ DOMAIN Figured(res.procs) = DOMAIN res.procs
              /\ \A p \in DOMAIN res.procs :
                   /\ Key(Figured(res.procs)[p]) = Key(res.procs[p])
                   /\ Contribution(Figured(res.procs)[p], "cpu") =
                        Contribution(res.procs[p], "cpu")
                   /\ Figured(res.procs)[p].d = res.procs[p].d
BY DEF Reported, Figured, Key, Contribution

LEMMA FiguredCountable == Reported => Countable(Figured(res.procs))
<1> SUFFICES ASSUME Reported PROVE Countable(Figured(res.procs))
  OBVIOUS
<1>1. IsFiniteSet(DOMAIN res.procs)
  BY KernelAssumption, FS_Subset DEF Reported
<1> QED
  BY <1>1, FiguredReadings DEF Reported, Countable

\* The keys of a result are groups that the model knows of.
LEMMA FiguredKeys == Reported => Keys(Figured(res.procs)) \subseteq Groups
BY FiguredReadings DEF Reported, Keys, Key, Groups

TotalsInv ==
  /\ AggregatorTypeOK
  /\ ForgetsAfterRetention
  /\ LiveGroupsKept
  /\ ExportedKept
  /\ snap.at \in Int /\ \A k \in DOMAIN exported : exported[k].last \in Int
  /\ DOMAIN accums \subseteq Groups

LEMMA TotalsInit == PipelineInit => TotalsInv
<1> SUFFICES ASSUME PipelineInit PROVE TotalsInv
  OBVIOUS
<1>1. /\ now = 0 /\ scans = 0 /\ snap = NoSnapshot
      /\ DOMAIN accums = {} /\ DOMAIN exported = {}
  BY DEF PipelineInit, AggregatorInit
<1>2. AggregatorTypeOK
  BY <1>1, AggregatorAssumption DEF AggregatorTypeOK, NoSnapshot
<1> QED
  BY <1>1, <1>2 DEF TotalsInv, ForgetsAfterRetention, LiveGroupsKept, ExportedKept, NoSnapshot

LEMMA TotalsStep ==
  Reported /\ TotalsInv /\ [PipelineNext]_pipelineVars => TotalsInv'
<1> SUFFICES ASSUME Reported, TotalsInv, [PipelineNext]_pipelineVars PROVE TotalsInv'
  OBVIOUS
<1>1. ASSUME UNCHANGED <<now, aggregatorVars>> PROVE TotalsInv'
  BY <1>1 DEF TotalsInv, AggregatorTypeOK, ForgetsAfterRetention, LiveGroupsKept, ExportedKept,
              aggregatorVars
<1>2. CASE KernelStep /\ UNCHANGED <<now, aggregatorVars, pending>>
  BY <1>1, <1>2
<1>3. CASE ScanRound
  BY <1>1, <1>3 DEF ScanRound
<1>4. CASE ApplyResult
  <2> DEFINE procs == Figured(res.procs)
             errs  == Cardinality(res.errs)
             acc   == Accumulate(accums, procs, now)
  <2>1. Apply(procs, errs) /\ now' = now
    BY <1>4 DEF ApplyResult
  <2>2. Countable(procs) /\ Keys(procs) \subseteq Groups
    BY FiguredCountable, FiguredKeys
  <2> HIDE DEF procs, errs
  <2>3. now \in Int
    BY DEF TotalsInv, AggregatorTypeOK
  <2>4. AggregatorTypeOK'
    BY <2>1, <2>2, ApplyType DEF TotalsInv
  <2>5. ForgetsAfterRetention' /\ LiveGroupsKept' /\ ExportedKept'
    BY <2>1, <2>3, ApplyForgets, ApplyKeeps DEF TotalsInv
  <2>6. accums' = PruneAccums(acc, now) /\ DOMAIN acc = DOMAIN accums \cup Keys(procs)
    BY <2>1, ApplyShape DEF Accumulate
  <2>7. DOMAIN accums' \subseteq Groups
    <3> HIDE DEF acc
    <3> QED
      BY <2>2, <2>6, PruneKeeps DEF TotalsInv
  <2>8. snap'.at \in Int /\ \A k \in DOMAIN exported' : exported'[k].last \in Int
    <3>0. snap'.at = now
      BY <2>1, ApplyShape
    <3>1. exported' = [k \in DOMAIN exported \cup Keys(procs) |->
                         IF k \in Keys(procs) THEN acc[k] ELSE exported[k]]
      BY <2>1, ApplyShape
    <3>2. \A k \in Keys(procs) : acc[k].last = now
      BY AccumulateSeen
    <3> HIDE DEF acc
    <3> QED
      BY <2>3, <3>0, <3>1, <3>2 DEF TotalsInv
  <2> QED
    BY <2>4, <2>5, <2>7, <2>8 DEF TotalsInv
<1>5. CASE NamingChange
  <2>1. DOMAIN accums' = {} /\ DOMAIN exported' = {} /\ UNCHANGED <<now, scans, snap>>
    BY <1>5 DEF NamingChange, Reset
  <2> QED
    BY <2>1 DEF TotalsInv, AggregatorTypeOK, ForgetsAfterRetention, LiveGroupsKept, ExportedKept
<1>6. CASE Clock
  <2>1. now < MaxClock /\ now' = now + 1 /\ UNCHANGED <<accums, namesSeen, scans, snap, exported>>
    BY <1>6 DEF Clock, Tick, aggregatorVars
  <2>2. now \in Int /\ MaxClock \in Nat /\ Retention \in Int
    BY AggregatorAssumption DEF TotalsInv, AggregatorTypeOK
  <2>3. AggregatorTypeOK'
    <3>1. now' \in 0..MaxClock /\ snap.at \in 0..now'
      BY <2>1, <2>2 DEF TotalsInv, AggregatorTypeOK
    <3>2. \A k \in DOMAIN accums : accums[k].last \in 0..now'
      BY <2>1, <2>2 DEF TotalsInv, AggregatorTypeOK
    <3> QED
      BY <2>1, <3>1, <3>2 DEF TotalsInv, AggregatorTypeOK
  <2>4. ExportedKept'
    <3> SUFFICES ASSUME NEW k \in DOMAIN exported,
                        Retention <= 0 \/ now' - exported[k].last <= Retention
                 PROVE  k \in DOMAIN accums /\ accums[k] = exported[k]
      BY <2>1 DEF ExportedKept
    <3>1. exported[k].last \in Int
      BY DEF TotalsInv
    <3>2. Retention <= 0 \/ now - exported[k].last <= Retention
      BY <2>1, <2>2, <3>1
    <3> QED
      BY <3>2 DEF TotalsInv, ExportedKept
  <2> QED
    BY <2>1, <2>3, <2>4 DEF TotalsInv, ForgetsAfterRetention, LiveGroupsKept
<1>7. CASE ReloadStep \/ PipelineHalted \/ UNCHANGED pipelineVars
  BY <1>1, <1>7 DEF ReloadStep, PipelineHalted, pipelineVars
<1> QED
  BY <1>2, <1>3, <1>4, <1>5, <1>6, <1>7 DEF PipelineNext

LEMMA TotalsCorrect == PipelineSpec => []TotalsInv
BY TotalsInit, TotalsStep, ScannerInvCorrect, PTL DEF PipelineSpec, ScannerInv

\* After a scan nothing is kept of a group that was last seen longer ago than
\* a positive retention (prune).
THEOREM RetentionCorrect == PipelineSpec => []ForgetsAfterRetention
<1>1. TotalsInv => ForgetsAfterRetention
  BY DEF TotalsInv
<1> QED
  BY TotalsCorrect, <1>1, PTL

\* The total that was exported for a group of the last scan is the one the
\* next delta is added to (Apply, prune).
THEOREM LiveCorrect == PipelineSpec => []LiveGroupsKept
<1>1. TotalsInv => LiveGroupsKept
  BY DEF TotalsInv
<1> QED
  BY TotalsCorrect, <1>1, PTL

\* A group that comes back within the retention goes on from what Prometheus
\* saw of it last, whoever its members are now (accumulate, prune).
THEOREM ResumesCorrect == PipelineSpec => ResumesWithinRetention
<1>1. Reported /\ TotalsInv /\ [PipelineNext]_pipelineVars =>
        [\A k \in DOMAIN exported :
           k \in DOMAIN snap'.groups /\ snap' # snap
             /\ (Retention <= 0 \/ now - exported[k].last <= Retention)
             => \A c \in Counter :
                  snap'.groups[k].accum.cnt[c] >= exported[k].cnt[c]]_aggregatorVars
  <2> SUFFICES ASSUME Reported, TotalsInv, [PipelineNext]_pipelineVars, snap' # snap,
                      NEW k \in DOMAIN exported, k \in DOMAIN snap'.groups,
                      Retention <= 0 \/ now - exported[k].last <= Retention
               PROVE  \A c \in Counter : snap'.groups[k].accum.cnt[c] >= exported[k].cnt[c]
    OBVIOUS
  <2>1. ApplyResult
    BY DEF PipelineNext, ScanRound, ReloadStep, NamingChange, Reset, Clock, PipelineHalted,
           pipelineVars, aggregatorVars
  <2>2. Apply(Figured(res.procs), Cardinality(res.errs)) /\ Countable(Figured(res.procs))
    BY <2>1, FiguredCountable DEF ApplyResult
  <2>3. Counts(accums) /\ ExportedKept
    BY DEF TotalsInv, AggregatorTypeOK, Counts, CounterValues
  <2> QED
    BY <2>2, <2>3, ApplyResumes
<1> QED
  BY <1>1, TotalsCorrect, ScannerInvCorrect, PTL
  DEF PipelineSpec, ScannerInv, ResumesWithinRetention

-----------------------------------------------------------------------------
(* The ledger.                                                             *)

\* The account that the state of the program stands for: the variables of
\* Ledger under the mapping of Counted.
Opened   == [i \in Instance |-> base[i]["cpu"]]
Credited == [i \in Instance |-> emitted[i]["cpu"] - InTransit(i)]
Total    == [g \in Groups |-> IF g \in DOMAIN accums THEN accums[g].cnt["cpu"] ELSE 0]

\* What is in transit of an instance, of given readings.
Transit(procs, i) ==
  SumFunctionOnSet([p \in DOMAIN procs |-> Contribution(procs[p], "cpu")],
                   {p \in DOMAIN procs : procs[p].start = i})

\* Between two rounds nothing is in transit.
LEMMA InTransitIs == \A i : InTransit(i) = IF pending THEN Transit(res.procs, i) ELSE 0
<1> SUFFICES ASSUME NEW i PROVE InTransit(i) = IF pending THEN Transit(res.procs, i) ELSE 0
  OBVIOUS
<1>1. CASE pending
  BY <1>1 DEF InTransit, Transit
<1>2. CASE ~pending
  <2>1. {p \in DOMAIN res.procs : pending /\ res.procs[p].start = i} = {}
    BY <1>2
  <2> QED
    BY <1>2, <2>1, SumEmpty DEF InTransit
<1> QED
  BY <1>1, <1>2

LEMMA TransitNone ==
  ASSUME NEW procs, NEW i, \A p \in DOMAIN procs : procs[p].start # i
  PROVE  Transit(procs, i) = 0
<1>1. {p \in DOMAIN procs : procs[p].start = i} = {}
  OBVIOUS
<1> QED
  BY <1>1, SumEmpty DEF Transit

\* One reading of an instance is all there is of it in a result.
LEMMA TransitOne ==
  ASSUME NEW procs, NEW p \in DOMAIN procs, Contribution(procs[p], "cpu") \in Nat,
         \A q \in DOMAIN procs : procs[q].start = procs[p].start => q = p
  PROVE  Transit(procs, procs[p].start) = Contribution(procs[p], "cpu")
<1> DEFINE f == [q \in DOMAIN procs |-> Contribution(procs[q], "cpu")]
<1>1. {q \in DOMAIN procs : procs[q].start = procs[p].start} = {p}
  OBVIOUS
<1>2. f[p] = Contribution(procs[p], "cpu")
  OBVIOUS
<1> HIDE DEF f
<1>3. SumFunctionOnSet(f, {p}) = f[p]
  BY <1>2, SumOne
<1>4. Transit(procs, procs[p].start) = SumFunctionOnSet(f, {p})
  BY <1>1, Zenon DEF Transit, f
<1> QED
  BY <1>2, <1>3, <1>4

\* Each reading of a result is one of its own instance, and can be counted.
Distinct(procs) ==
  \A p \in DOMAIN procs :
    /\ Contribution(procs[p], "cpu") \in Nat
    /\ \A q \in DOMAIN procs : procs[q].start = procs[p].start => q = p

LEMMA ReportDistinct == HoldersInv /\ Reported => Distinct(res.procs)
BY DEF HoldersInv, Holds, Reported, Distinct, Contribution, CounterValues, Counter

LEMMA TransitValue ==
  ASSUME NEW procs, Distinct(procs), NEW i
  PROVE  /\ Transit(procs, i) \in Nat
         /\ \A p \in DOMAIN procs :
              procs[p].start = i => Transit(procs, i) = Contribution(procs[p], "cpu")
<1>1. ASSUME NEW p \in DOMAIN procs, procs[p].start = i
      PROVE  Transit(procs, i) = Contribution(procs[p], "cpu")
  BY <1>1, TransitOne DEF Distinct
<1> QED
  BY <1>1, TransitNone DEF Distinct

LEMMA LedgerInit == PipelineInit => Counted!Init
<1> SUFFICES ASSUME PipelineInit PROVE Counted!Init
  OBVIOUS
<1>1. /\ work = [i \in Instance |-> 0]
      /\ \A i \in Instance : base[i]["cpu"] = Unread /\ emitted[i]["cpu"] = 0
      /\ ~pending /\ DOMAIN accums = {}
  BY DEF PipelineInit, Init, KernelInit, ScannerInit, AggregatorInit, NoCounter, Counter
<1>2. \A i : InTransit(i) = 0
  BY <1>1, InTransitIs
<1> QED
  BY <1>1, <1>2 DEF Counted!Init, Counted!Unopened, Unread

\* A step that leaves the account alone.
LEMMA LedgerStutter ==
  ASSUME UNCHANGED <<work, Opened, Credited, Total>>
  PROVE  UNCHANGED Counted!ledgerVars
BY DEF Counted!ledgerVars, Opened, Credited, Total

LedgerInv ==
  /\ ScannerInv /\ Pending /\ TotalsInv
  /\ Distinct(res.procs)

\* The values of the account are numbers.
LEMMA LedgerTypes ==
  LedgerInv =>
    \A i \in Instance : /\ emitted[i]["cpu"] \in Nat /\ InTransit(i) \in Nat
                        /\ base[i]["cpu"] \in Nat \cup {Unread} /\ work[i] \in Nat
<1> SUFFICES ASSUME LedgerInv, NEW i \in Instance
             PROVE  /\ emitted[i]["cpu"] \in Nat /\ InTransit(i) \in Nat
                    /\ base[i]["cpu"] \in Nat \cup {Unread} /\ work[i] \in Nat
  OBVIOUS
<1>1. InTransit(i) \in Nat
  BY InTransitIs, TransitValue DEF LedgerInv
<1> QED
  BY <1>1, KernelAssumption
  DEF LedgerInv, ScannerInv, TypeOK, KernelTypeOK, HistoryTypeOK, CounterValues, Counter

\* A unit of work.
LEMMA LedgerKernel ==
  LedgerInv /\ KernelStep /\ UNCHANGED <<now, aggregatorVars, pending>> =>
    [Counted!Next]_(Counted!ledgerVars)
<1> SUFFICES ASSUME LedgerInv, KernelStep, UNCHANGED <<now, aggregatorVars, pending>>
             PROVE  [Counted!Next]_(Counted!ledgerVars)
  OBVIOUS
<1>1. UNCHANGED <<res, emitted, base, accums, pending>>
  BY DEF KernelStep, scannerVars, historyVars, aggregatorVars
<1>2. UNCHANGED <<Opened, Credited, Total>>
  <2>1. \A i : InTransit(i)' = InTransit(i)
    BY <1>1 DEF InTransit
  <2> QED
    BY <1>1, <2>1 DEF Opened, Credited, Total
<1>3. CASE work' = work
  BY <1>2, <1>3, LedgerStutter
<1>4. ASSUME NEW p \in PIDS, Run(p) PROVE Counted!Next
  <2>1. /\ proc[p].start \in Instance
        /\ work' = [work EXCEPT ![proc[p].start] = @ + 1]
    BY <1>4 DEF Run, LedgerInv, ScannerInv, TypeOK, KernelTypeOK, Process
  <2>2. Counted!Work(proc[p].start)
    BY <1>2, <2>1 DEF Counted!Work, Opened, Credited, Total
  <2> QED
    BY <2>1, <2>2 DEF Counted!Next
<1> QED
  BY <1>3, <1>4 DEF KernelStep, KernelNext, Exit, Reap, Exec, SetUID, Fork

\* What Record reports is in transit, and what was not counted from is opened.
LEMMA LedgerRecord ==
  LedgerInv /\ LedgerInv' /\ Record /\ ScanRound => [Counted!Next]_(Counted!ledgerVars)
<1> SUFFICES ASSUME LedgerInv, LedgerInv', Record, ScanRound
             PROVE  [Counted!Next]_(Counted!ledgerVars)
  OBVIOUS
<1> DEFINE v == rd.val["cpu"]
           n == IF rd.have["cpu"] THEN Deltas["cpu"] ELSE 0
<1>1. /\ pc \in Steps /\ pending /\ pending'
      /\ UNCHANGED <<work, accums>>
  BY DEF Record, ScanRound, LedgerInv, Pending, Walking, Steps, kernelVars, aggregatorVars
<1>2. PICK i \in Instance : i = rd.start /\ rd.have["cpu"] = TRUE /\ v \in Nat /\ v <= work[i]
  BY <1>1, KernelAssumption
  DEF LedgerInv, ScannerInv, CountingInv, Baselines, ReadingSound, TypeOK, KernelTypeOK,
      ReadingTypeOK, Instance, CounterValues, Counter
<1>3. /\ \A j \in Instance :
           emitted'[j]["cpu"] = IF j = i THEN emitted[i]["cpu"] + n ELSE emitted[j]["cpu"]
      /\ \A j \in Instance :
           base'[j]["cpu"] = IF j = i /\ base[i]["cpu"] = Unread THEN v ELSE base[j]["cpu"]
  BY <1>2 DEF Record, CounterValues, Counter, LedgerInv, ScannerInv, TypeOK, HistoryTypeOK
<1>4. n = Contribution(Reading, "cpu")
  BY <1>2 DEF Contribution, Reading, Deltas, Counter
<1>5. /\ DOMAIN res'.procs = DOMAIN res.procs \cup {rd.pid}
      /\ rd.pid \notin DOMAIN res.procs
      /\ res'.procs[rd.pid] = Reading
      /\ \A p \in DOMAIN res.procs : res'.procs[p] = res.procs[p]
  BY RecordReports DEF LedgerInv, ScannerInv
<1>6. Reading.start = i
  BY <1>2 DEF Reading
<1> HIDE DEF v, n
<1>7. \A p \in DOMAIN res.procs : res.procs[p].start # i
  BY <1>1, <1>2, <1>5 DEF LedgerInv, ScannerInv, HoldersInv, Holds
<1>8. \A j \in Instance : InTransit(j)' = InTransit(j) + (IF j = i THEN n ELSE 0)
  <2> TAKE j \in Instance
  <2>1. InTransit(j) = Transit(res.procs, j)
    BY <1>1, InTransitIs
  <2>2. InTransit(j)' = Transit(res'.procs, j)
    BY <1>1 DEF InTransit, Transit
  <2>3. Distinct(res.procs) /\ Distinct(res'.procs)
    BY DEF LedgerInv, Distinct
  <2>4. CASE j = i
    <3>1. Transit(res.procs, j) = 0
      BY <1>7, <2>4, TransitNone
    <3>2. Transit(res'.procs, j) = n /\ n \in Nat
      BY <1>4, <1>5, <1>6, <2>3, <2>4, TransitValue
    <3> QED
      BY <2>1, <2>2, <2>4, <3>1, <3>2
  <2>5. CASE j # i
    <3>1. CASE \E p \in DOMAIN res.procs : res.procs[p].start = j
      <4>1. PICK p \in DOMAIN res.procs : res.procs[p].start = j
        BY <3>1
      <4>2. p \in DOMAIN res'.procs /\ res'.procs[p] = res.procs[p]
        BY <1>5, <4>1
      <4>3. Transit(res.procs, j) = Contribution(res.procs[p], "cpu")
        BY <2>3, <4>1, TransitValue
      <4>4. Transit(res'.procs, j) = Contribution(res'.procs[p], "cpu")
        BY <2>3, <4>1, <4>2, TransitValue
      <4>5. Transit(res.procs, j) \in Nat
        BY <2>3, TransitValue
      <4> QED
        BY <2>1, <2>2, <2>5, <4>2, <4>3, <4>4, <4>5
    <3>2. CASE ~\E p \in DOMAIN res.procs : res.procs[p].start = j
      <4>1. \A p \in DOMAIN res'.procs : res'.procs[p].start # j
        BY <1>5, <1>6, <2>5, <3>2
      <4> QED
        BY <2>1, <2>2, <2>5, <3>2, <4>1, TransitNone
    <3> QED
      BY <3>1, <3>2
  <2> QED
    BY <2>4, <2>5
<1>9. UNCHANGED <<work, Credited, Total>>
  <2>1. \A j \in Instance :
          emitted'[j]["cpu"] - InTransit(j)' = emitted[j]["cpu"] - InTransit(j)
    <3> TAKE j \in Instance
    <3>1. emitted[j]["cpu"] \in Nat /\ InTransit(j) \in Nat
      BY LedgerTypes
    <3>2. n \in Nat
      BY <1>4, <1>5 DEF LedgerInv, Distinct
    <3> QED
      BY <1>3, <1>8, <3>1, <3>2
  <2> QED
    BY <1>1, <2>1 DEF Credited, Total
<1>10. CASE base[i]["cpu"] = Unread
  <2>1. Opened' = [Opened EXCEPT ![i] = v]
    BY <1>2, <1>3, <1>10 DEF Opened
  <2>2. v \in 0..work[i]
    BY <1>2, LedgerTypes
  <2>3. Counted!Open(i)
    BY <1>2, <1>9, <1>10, <2>1, <2>2
    DEF Counted!Open, Counted!Unopened, Unread, Opened, Credited, Total
  <2> QED
    BY <2>3 DEF Counted!Next
<1>11. CASE base[i]["cpu"] # Unread
  <2>1. Opened' = Opened
    BY <1>2, <1>3, <1>11 DEF Opened
  <2> QED
    BY <1>9, <2>1, LedgerStutter
<1> QED
  BY <1>10, <1>11

\* No other read changes the account.
LEMMA LedgerScan ==
  LedgerInv /\ LedgerInv' /\ ScanRound => [Counted!Next]_(Counted!ledgerVars)
<1> SUFFICES ASSUME LedgerInv, LedgerInv', ScanRound, ~Record
             PROVE  [Counted!Next]_(Counted!ledgerVars)
  BY LedgerRecord
<1>1. UNCHANGED <<work, emitted, base, accums>>
  BY LaterReadShape, FilterAndNameShape
  DEF ScanRound, ScanStep, BeginScan, StartBatch, AbortScan, EndScan, ReadStat, LaterRead,
      historyVars, kernelVars, aggregatorVars, LedgerInv, ScannerInv
<1>2. \A i : InTransit(i)' = InTransit(i)
  <2>1. CASE BeginScan \/ AbortScan
    <3>1. BeginScan /\ ~pending /\ DOMAIN res'.procs = {}
      BY <2>1 DEF ScanRound, BeginScan, AbortScan, LedgerInv, Pending, NoResult
    <3>2. \A i : InTransit(i) = 0
      BY <3>1, InTransitIs
    <3>3. \A i : InTransit(i)' = 0
      <4> TAKE i
      <4>1. {p \in DOMAIN res'.procs : pending' /\ res'.procs[p].start = i} = {}
        BY <3>1
      <4> QED
        BY <4>1, SumEmpty DEF InTransit
    <3> QED
      BY <3>2, <3>3
  <2>2. CASE ~BeginScan /\ ~AbortScan
    <3>1. SameReport
      BY <2>2, ReportKinds DEF ScanRound, Next, LedgerInv, ScannerInv
    <3>2. pending' = pending
      BY <2>2
      DEF ScanRound, ScanStep, StartBatch, AtBatchEnd, EndScan, ReadStat, ReadCmdline, ReadStatus, FilterAndName,
          ReadStatm, ReadIO, ReadFDs, ReadSmaps, LedgerInv, Pending, Walking, Steps
    <3> QED
      BY <3>1, <3>2 DEF SameReport, InTransit
  <2> QED
    BY <2>1, <2>2
<1>3. UNCHANGED <<work, Opened, Credited, Total>>
  BY <1>1, <1>2 DEF Opened, Credited, Total
<1> QED
  BY <1>3, LedgerStutter

\* When nothing is left in transit, what was in transit has been credited, and
\* is owed: it is work done after the opening.
LEMMA LedgerCredit ==
  LedgerInv /\ UNCHANGED <<work, emitted, base>> /\ (\A i : InTransit(i)' = 0) =>
    /\ Counted!Credit = [i \in Instance |-> InTransit(i)]
    /\ \A i \in Instance : Counted!Honest(i)
<1> SUFFICES ASSUME LedgerInv, UNCHANGED <<work, emitted, base>>, \A i : InTransit(i)' = 0
             PROVE  /\ Counted!Credit = [i \in Instance |-> InTransit(i)]
                    /\ \A i \in Instance : Counted!Honest(i)
  OBVIOUS
<1>1. \A i \in Instance : /\ Credited[i] = emitted[i]["cpu"] - InTransit(i)
                          /\ Credited'[i] = emitted[i]["cpu"]
  BY LedgerTypes DEF Credited
<1>2. Counted!Credit = [i \in Instance |-> Credited'[i] - Credited[i]]
  BY DEF Counted!Credit, Credited
<1>3. \A i \in Instance : Credited'[i] - Credited[i] = InTransit(i)
  BY <1>1, LedgerTypes
<1>4. ASSUME NEW i \in Instance PROVE Counted!Honest(i)
  <2>1. /\ emitted[i]["cpu"] \in Nat /\ InTransit(i) \in Nat
        /\ base[i]["cpu"] \in Nat \cup {Unread} /\ work[i] \in Nat
    BY LedgerTypes
  <2>2. CASE InTransit(i) = 0
    BY <1>1, <2>1, <2>2 DEF Counted!Honest, Credited
  <2>3. CASE InTransit(i) # 0
    <3>1. PICK p \in DOMAIN res.procs : res.procs[p].start = i
      BY <2>3, InTransitIs, TransitNone
    <3>2. base[i]["cpu"] # Unread
      BY <3>1 DEF LedgerInv, ScannerInv, Reported
    <3>3. emitted[i]["cpu"] + base[i]["cpu"] <= work[i]
      BY <3>2 DEF LedgerInv, ScannerInv, CountingInv, Baselines, CountedBelow
    <3>4. Credited'[i] >= Credited[i] /\ Credited'[i] + base[i]["cpu"] <= work[i]
      BY <1>1, <2>1, <3>2, <3>3
    <3>5. Opened[i] = base[i]["cpu"]
      BY DEF Opened
    <3> QED
      BY <3>2, <3>4, <3>5 DEF Counted!Honest, Counted!Unopened, Unread, Credited, Opened
  <2> QED
    BY <2>2, <2>3
<1> QED
  BY <1>2, <1>3, <1>4

\* Reset closes every group, when nothing is in transit.
LEMMA LedgerReset ==
  LedgerInv /\ NamingChange => [Counted!Next]_(Counted!ledgerVars)
<1> SUFFICES ASSUME LedgerInv, NamingChange PROVE [Counted!Next]_(Counted!ledgerVars)
  OBVIOUS
<1>1. /\ ~pending /\ ~pending'
      /\ UNCHANGED <<work, emitted, base>> /\ DOMAIN accums' = {}
  BY DEF NamingChange, ResetState, Reset, kernelVars, historyVars
<1>2. /\ \A i : InTransit(i) = 0
      /\ \A i : InTransit(i)' = 0
  <2>1. \A i : {p \in DOMAIN res'.procs : pending' /\ res'.procs[p].start = i} = {}
    BY <1>1
  <2> QED
    BY <1>1, <2>1, InTransitIs, SumEmpty DEF InTransit
<1>3. CASE Groups = {}
  <2>1. UNCHANGED <<Opened, Credited, Total>>
    BY <1>1, <1>2, <1>3 DEF Opened, Credited, Total
  <2> QED
    BY <1>1, <2>1, LedgerStutter
<1>4. CASE Groups # {}
  <2>1. PICK to \in [Instance -> Groups] : TRUE
    <3>1. PICK g \in Groups : TRUE
      BY <1>4
    <3>2. [i \in Instance |-> g] \in [Instance -> Groups]
      OBVIOUS
    <3> QED
      BY <3>2
  <2>2. \A g \in Groups : {i \in Instance : to[i] = g /\ Counted!Credit[i] > 0} = {}
    BY <1>1, <1>2, LedgerCredit
  <2>3. \A g \in Groups : Total'[g] = 0
    BY <1>1 DEF Total
  <2>4. Counted!Count
    BY <1>1, <1>2, <2>1, <2>2, <2>3, LedgerCredit DEF Counted!Count, Total
  <2> QED
    BY <2>4 DEF Counted!Next
<1> QED
  BY <1>3, <1>4

LEMMA ReadInstances ==
  LedgerInv => \A p \in DOMAIN res.procs : res.procs[p].start \in Instance
<1> SUFFICES ASSUME LedgerInv, NEW p \in DOMAIN res.procs
             PROVE  res.procs[p].start \in Instance
  OBVIOUS
<1>1. res.procs[p].start \in 1..lastStart
  BY DEF LedgerInv, ScannerInv, HoldersInv, Holds
<1> QED
  BY <1>1, KernelAssumption DEF LedgerInv, ScannerInv, TypeOK, KernelTypeOK, Instance

\* The sum of the ledger is the sum of the aggregator.
LEMMA SumOfLedger == \A f, S : Counted!SumFunctionOnSet(f, S) = SumFunctionOnSet(f, S)
<1> SUFFICES ASSUME NEW f, NEW S
             PROVE  Counted!SumFunctionOnSet(f, S) = SumFunctionOnSet(f, S)
  OBVIOUS
<1>1. Counted!SumFunctionOnSet(f, S) = (CHOOSE g : FoldsOn(g, f, SUBSET S))[S]
  BY DEF Counted!SumFunctionOnSet, Counted!FoldFunctionOnSet, Counted!MapThenFoldSet, FoldsOn,
         Pick
<1> QED
  BY <1>1, SumUnfold

\* What accumulate adds to a group is what is in transit of the instances that
\* are filed under it.
LEMMA AddedIsCredit ==
  ASSUME LedgerInv, pending, NEW g, NEW to,
         \A p \in DOMAIN res.procs : to[res.procs[p].start] = Key(res.procs[p])
  PROVE  LET credit  == [i \in Instance |-> InTransit(i)]
             members == {i \in Instance : to[i] = g /\ credit[i] > 0}
         IN  /\ Added(Figured(res.procs), g, "cpu") = SumFunctionOnSet(credit, members)
             /\ members # {} => g \in Keys(Figured(res.procs))
<1> DEFINE credit  == [i \in Instance |-> InTransit(i)]
           members == {i \in Instance : to[i] = g /\ credit[i] > 0}
           procs   == Figured(res.procs)
           f       == [p \in DOMAIN procs |-> Contribution(procs[p], "cpu")]
           S       == Members(procs, g)
           start   == [p \in DOMAIN procs |-> res.procs[p].start]
<1>1. /\ DOMAIN procs = DOMAIN res.procs
      /\ IsFiniteSet(DOMAIN procs)
      /\ \A p \in DOMAIN procs : Key(procs[p]) = Key(res.procs[p])
      /\ \A p \in DOMAIN procs : f[p] = Contribution(res.procs[p], "cpu") /\ f[p] \in Nat
  BY FiguredReadings, FiguredCountable DEF LedgerInv, ScannerInv, Countable, Distinct
<1>2. \A p \in DOMAIN procs : start[p] = res.procs[p].start /\ start[p] \in Instance
  BY <1>1, ReadInstances
<1>3. \A p \in DOMAIN procs : credit[start[p]] = f[p]
  <2> SUFFICES ASSUME NEW p \in DOMAIN procs PROVE credit[start[p]] = f[p]
    OBVIOUS
  <2>1. InTransit(start[p]) = Transit(res.procs, start[p])
    BY InTransitIs
  <2>2. Transit(res.procs, start[p]) = Contribution(res.procs[p], "cpu")
    BY <1>1, <1>2, TransitValue DEF LedgerInv
  <2> QED
    BY <1>1, <1>2, <2>1, <2>2
<1>4. \A p, q \in DOMAIN procs : start[p] = start[q] => p = q
  BY <1>1, <1>2 DEF LedgerInv, Distinct
<1>5. ASSUME NEW i \in Instance, credit[i] > 0
      PROVE  \E p \in DOMAIN procs : start[p] = i
  <2>1. Transit(res.procs, i) # 0
    BY <1>5, InTransitIs
  <2> QED
    BY <1>1, <1>2, <2>1, TransitNone
<1>6. S \subseteq DOMAIN procs /\ \A p \in DOMAIN procs : p \in S <=> to[start[p]] = g
  BY <1>1, <1>2 DEF Members
<1> HIDE DEF credit, f, start, procs, S
<1>7. members = {start[p] : p \in {q \in S : f[q] # 0}}
  <2>1. \A p \in DOMAIN procs : f[p] # 0 <=> credit[start[p]] > 0
    BY <1>1, <1>3
  <2> QED
    BY <1>2, <1>5, <1>6, <2>1
<1>8. SumFunctionOnSet(f, S) = SumFunctionOnSet(credit, members)
  <2>1. IsFiniteSet(S)
    BY <1>1, <1>6, FS_Subset
  <2>2. \A p \in S : f[p] \in Int /\ credit[start[p]] = f[p]
    BY <1>1, <1>3, <1>6
  <2>3. \A p, q \in S : start[p] = start[q] => p = q
    BY <1>4, <1>6
  <2>4. SumFunctionOnSet(f, S) = SumFunctionOnSet(credit, {start[p] : p \in {q \in S : f[q] # 0}})
    BY <2>1, <2>2, <2>3, SumRenamed
  <2> QED
    BY <1>7, <2>4
<1>9. Added(procs, g, "cpu") = SumFunctionOnSet(f, S)
  BY DEF Added, f, S
<1>10. members # {} => g \in Keys(procs)
  <2>1. members # {} => \E p \in DOMAIN procs : p \in S
    BY <1>6, <1>7
  <2> QED
    BY <2>1 DEF S, Members, Keys
<1> QED
  BY <1>8, <1>9, <1>10 DEF credit, procs

\* Apply credits what is in transit.
LEMMA LedgerApply ==
  LedgerInv /\ ApplyResult => [Counted!Next]_(Counted!ledgerVars)
<1> SUFFICES ASSUME LedgerInv, ApplyResult PROVE [Counted!Next]_(Counted!ledgerVars)
  OBVIOUS
<1> DEFINE procs == Figured(res.procs)
           acc   == Accumulate(accums, procs, now)
           key   == [p \in DOMAIN res.procs |-> Key(res.procs[p])]
<1>1. /\ pending /\ ~pending'
      /\ UNCHANGED <<work, emitted, base>>
      /\ Apply(procs, Cardinality(res.errs))
  BY DEF ApplyResult, vars, kernelVars, historyVars
<1>2. \A i : InTransit(i)' = 0
  <2>1. \A i : {p \in DOMAIN res'.procs : pending' /\ res'.procs[p].start = i} = {}
    BY <1>1
  <2> QED
    BY <2>1, SumEmpty DEF InTransit
<1>3. /\ accums' = PruneAccums(acc, now)
      /\ Countable(procs) /\ Keys(procs) \subseteq Groups
      /\ Counts(accums) /\ now \in Int
  <2>1. accums' = PruneAccums(acc, now)
    BY <1>1, ApplyShape
  <2>2. Countable(procs) /\ Keys(procs) \subseteq Groups
    BY FiguredCountable, FiguredKeys DEF LedgerInv, ScannerInv
  <2>3. Counts(accums) /\ now \in Int
    BY DEF LedgerInv, TotalsInv, AggregatorTypeOK, Counts, CounterValues
  <2> QED
    BY <2>1, <2>2, <2>3
<1>4. \A p \in DOMAIN res.procs : key[p] \in Groups
  BY <1>3, FiguredReadings DEF Keys, LedgerInv, ScannerInv
<1>5. CASE Groups = {}
  <2>1. DOMAIN res.procs = {}
    BY <1>4, <1>5
  <2>2. \A i : InTransit(i) = 0
    BY <1>1, <2>1, InTransitIs, TransitNone
  <2>3. UNCHANGED <<Opened, Credited, Total>>
    BY <1>1, <1>2, <1>5, <2>2 DEF Opened, Credited, Total
  <2> QED
    BY <1>1, <2>3, LedgerStutter
<1>6. ASSUME NEW g0 \in Groups PROVE Counted!Next
  <2> DEFINE to == [i \in Instance |->
                      IF \E p \in DOMAIN res.procs : res.procs[p].start = i
                      THEN key[CHOOSE p \in DOMAIN res.procs : res.procs[p].start = i]
                      ELSE g0]
             credit     == [i \in Instance |-> InTransit(i)]
             members(g) == {i \in Instance : to[i] = g /\ credit[i] > 0}
  <2>1. to \in [Instance -> Groups]
    BY <1>4
  <2>2. \A p \in DOMAIN res.procs : to[res.procs[p].start] = Key(res.procs[p])
    <3> TAKE p \in DOMAIN res.procs
    <3>1. res.procs[p].start \in Instance
      BY ReadInstances
    <3>2. (CHOOSE q \in DOMAIN res.procs : res.procs[q].start = res.procs[p].start) = p
      BY DEF LedgerInv, Distinct
    <3> QED
      BY <3>1, <3>2
  <2> HIDE DEF to, key
  <2>3. \A g : /\ Added(procs, g, "cpu") = SumFunctionOnSet(credit, members(g))
               /\ members(g) # {} => g \in Keys(procs)
    BY <1>1, <2>2, AddedIsCredit
  <2> HIDE DEF procs, credit, members
  <2>4. ASSUME NEW g \in Groups
        PROVE  \/ Total'[g] = Total[g] + SumFunctionOnSet(credit, members(g))
               \/ Total'[g] = 0 /\ members(g) = {}
    <3>1. CASE g \in Keys(procs)
      <4>1. g \in DOMAIN acc /\ acc[g].last = now
        BY <3>1, AccumulateSeen
      <4>2. acc[g].cnt["cpu"] = (IF g \in DOMAIN accums THEN accums[g].cnt["cpu"] ELSE 0)
                                  + Added(procs, g, "cpu")
        <5>1. "cpu" \in Counter
          BY DEF Counter
        <5> QED
          BY <1>3, <3>1, <5>1, AccumulateAdds
      <4> HIDE DEF acc
      <4>3. g \in DOMAIN accums' /\ accums'[g] = acc[g]
        BY <1>3, <4>1, PruneKeeps
      <4> QED
        BY <2>3, <4>2, <4>3 DEF Total
    <3>2. CASE g \notin Keys(procs)
      <4>1. members(g) = {} /\ SumFunctionOnSet(credit, members(g)) = 0
        BY <2>3, <3>2, SumEmpty
      <4>2. /\ DOMAIN acc = DOMAIN accums \cup Keys(procs)
            /\ g \in DOMAIN accums => acc[g] = accums[g]
        BY <1>3, <3>2, AccumulateGrows
      <4> HIDE DEF acc
      <4>3. g \in DOMAIN accums' => g \in DOMAIN accums /\ accums'[g] = accums[g]
        BY <1>3, <3>2, <4>2, PruneKeeps
      <4>4. Total[g] \in Int
        BY <1>3 DEF Total, Counts, CounterValues, Counter
      <4> QED
        BY <4>1, <4>3, <4>4 DEF Total
    <3> QED
      BY <3>1, <3>2
  <2>5. /\ Counted!Credit = credit
        /\ \A i \in Instance : Counted!Honest(i)
    BY <1>1, <1>2, LedgerCredit DEF credit
  <2>6. \A g \in Groups :
          LET own == {i \in Instance : to[i] = g /\ Counted!Credit[i] > 0}
          IN  \/ Total'[g] = Total[g] + SumFunctionOnSet(Counted!Credit, own)
              \/ Total'[g] = 0 /\ own = {}
    BY <2>4, <2>5 DEF members
  <2>7. Counted!Count
    BY <1>1, <2>1, <2>5, <2>6, SumOfLedger DEF Counted!Count, Total
  <2> QED
    BY <2>7 DEF Counted!Next
<1> QED
  BY <1>5, <1>6

\* What the invariants of the parts give for the ledger.
LEMMA LedgerInvCorrect == PipelineSpec => []LedgerInv
<1>1. ScannerInv => Distinct(res.procs)
  BY ReportDistinct DEF ScannerInv
<1> QED
  BY <1>1, ScannerInvCorrect, PendingCorrect, TotalsCorrect, PTL DEF LedgerInv

\* Every step of the pipeline is one of the ledger, or none.
LEMMA LedgerStep ==
  LedgerInv /\ LedgerInv' /\ [PipelineNext]_pipelineVars =>
    [Counted!Next]_(Counted!ledgerVars)
<1> SUFFICES ASSUME LedgerInv, LedgerInv', [PipelineNext]_pipelineVars
             PROVE  [Counted!Next]_(Counted!ledgerVars)
  OBVIOUS
<1>1. CASE ReloadStep \/ Clock \/ PipelineHalted \/ UNCHANGED pipelineVars
  <2>1. UNCHANGED <<work, res, emitted, base, accums, pending>>
    BY <1>1 DEF ReloadStep, Reload, Clock, PipelineHalted, pipelineVars, vars, kernelVars, scannerVars,
                historyVars, aggregatorVars
  <2>2. \A i : InTransit(i)' = InTransit(i)
    BY <2>1 DEF InTransit
  <2>3. UNCHANGED <<work, Opened, Credited, Total>>
    BY <2>1, <2>2 DEF Opened, Credited, Total
  <2> QED
    BY <2>3, LedgerStutter
<1> QED
  BY <1>1, LedgerKernel, LedgerScan, LedgerApply, LedgerReset DEF PipelineNext

(***************************************************************************)
(* The exporter keeps the ledger, on every machine and with every naming,  *)
(* filter, fault, retention and reset: every unit of work after the first  *)
(* reading enters the total of one group at most once, nothing else does,  *)
(* and a total falls only by being forgotten (readProcess, computeDeltas,  *)
(* Put, accumulate, prune, Reset).                                         *)
(***************************************************************************)
THEOREM LedgerKept == PipelineSpec => KeepsLedger
BY LedgerStep, LedgerInit, LedgerInvCorrect, PTL DEF PipelineSpec, KeepsLedger, Counted!Spec

-----------------------------------------------------------------------------
(* The totals together.                                                    *)

(***************************************************************************)
(* What is credited goes to one total each: a sum of totals that was       *)
(* covered by what was credited still is.  This is a fact of the ledger,   *)
(* and says nothing of scans.                                              *)
(***************************************************************************)
Backing(P, R, to, share, paid, paid2, credit, tot, tot2) ==
  /\ IsFiniteSet(P) /\ IsFiniteSet(R)
  /\ \A i \in P : paid[i] \in Int /\ credit[i] \in Nat /\ paid2[i] = paid[i] + credit[i]
  /\ \A r \in R : \A i : i \in share[r] <=> i \in P /\ to[i] = r /\ credit[i] > 0
  /\ \A r \in R : tot[r] \in Nat
  /\ \A r \in R : tot2[r] = tot[r] + SumFunctionOnSet(credit, share[r]) \/ tot2[r] = 0
  /\ SumFunctionOnSet(tot, R) <= SumFunctionOnSet(paid, P)

LEMMA SharesBacked ==
  ASSUME NEW P, NEW R, NEW to, NEW share, NEW paid, NEW paid2, NEW credit, NEW tot, NEW tot2,
         Backing(P, R, to, share, paid, paid2, credit, tot, tot2)
  PROVE  SumFunctionOnSet(tot2, R) <= SumFunctionOnSet(paid2, P)
<1> USE DEF Backing
<1> DEFINE S    == {i \in P : credit[i] > 0}
           part == [r \in R |-> SumFunctionOnSet(credit, share[r])]
           up   == [r \in R |-> tot[r] + part[r]]
<1>1. IsFiniteSet(S) /\ S \in SUBSET P /\ \A i \in S : credit[i] \in Nat
  BY FS_Subset
<1>2. \A r \in R : part[r] \in Nat
  <2> SUFFICES ASSUME NEW r \in R PROVE part[r] \in Nat
    OBVIOUS
  <2>1. IsFiniteSet(share[r]) /\ \A i \in share[r] : credit[i] \in Nat
    <3>1. share[r] \in SUBSET P
      OBVIOUS
    <3> QED
      BY <3>1, FS_Subset
  <2>2. SumFunctionOnSet(credit, share[r]) \in Nat
    BY <2>1, SumType
  <2> QED
    BY <2>2
<1>3. \A r \in R : /\ part[r] = SumFunctionOnSet(credit, share[r])
                  /\ \A i : i \in share[r] <=> i \in S /\ to[i] = r
  OBVIOUS
<1>4. \A r \in R : tot2[r] = tot[r] + part[r] \/ tot2[r] = 0
  BY <1>3
<1> HIDE DEF part
<1>5. \A r \in R : up[r] = tot[r] + part[r] /\ up[r] \in Int /\ tot2[r] \in Int /\ tot2[r] <= up[r]
  BY <1>2, <1>4
<1> HIDE DEF up, S
<1>6. SumFunctionOnSet(tot2, R) <= SumFunctionOnSet(up, R)
  BY <1>5, SumCompare
<1>7. SumFunctionOnSet(up, R) = SumFunctionOnSet(tot, R) + SumFunctionOnSet(part, R)
  BY <1>2, <1>5, SumAdds
<1>8. SumFunctionOnSet(part, R) <= SumFunctionOnSet(credit, S)
  BY <1>1, <1>3, SumShared
<1>9. SumFunctionOnSet(credit, S) <= SumFunctionOnSet(credit, P)
  BY <1>1, SumPart
<1>10. SumFunctionOnSet(paid2, P) = SumFunctionOnSet(paid, P) + SumFunctionOnSet(credit, P)
  BY SumAdds
<1>11. /\ SumFunctionOnSet(tot, R) \in Int /\ SumFunctionOnSet(part, R) \in Int
       /\ SumFunctionOnSet(paid, P) \in Int /\ SumFunctionOnSet(credit, P) \in Int
       /\ SumFunctionOnSet(credit, S) \in Int
  BY <1>1, <1>2, SumType
<1>12. SumFunctionOnSet(tot2, R) \in Int
  BY <1>5, SumType
<1> QED
  BY <1>6, <1>7, <1>8, <1>9, <1>10, <1>11, <1>12

\* Any totals together are covered by what was credited.
BackedInv ==
  /\ IsFiniteSet(DOMAIN accums)
  /\ \A R \in SUBSET Groups :
       IsFiniteSet(R) => SumFunctionOnSet(Total, R) <= SumFunctionOnSet(Credited, Instance)

LEMMA InstancesFinite == IsFiniteSet(Instance)
BY KernelAssumption, FS_Interval DEF Instance

LEMMA BackedInit == PipelineInit => BackedInv
<1> SUFFICES ASSUME PipelineInit PROVE BackedInv
  OBVIOUS
<1>1. Counted!Init
  BY LedgerInit
<1>2. /\ \A i \in Instance : Credited[i] = 0
      /\ \A g \in Groups : Total[g] = 0
  BY <1>1 DEF Counted!Init, Credited, Total
<1>3. SumFunctionOnSet(Credited, Instance) = 0
  BY <1>2, InstancesFinite, SumZero
<1>4. ASSUME NEW R \in SUBSET Groups, IsFiniteSet(R) PROVE SumFunctionOnSet(Total, R) = 0
  BY <1>2, <1>4, SumZero
<1>5. IsFiniteSet(DOMAIN accums)
  <2>1. DOMAIN accums = {}
    BY DEF PipelineInit, AggregatorInit
  <2> QED
    BY <2>1, FS_EmptySet
<1> QED
  BY <1>3, <1>4, <1>5 DEF BackedInv

\* The values of the account.
AccountTypeOK ==
  /\ \A i \in Instance : Credited[i] \in Int
  /\ \A g \in Groups : Total[g] \in Nat

LEMMA AccountTypes == LedgerInv => AccountTypeOK
<1> SUFFICES ASSUME LedgerInv PROVE AccountTypeOK
  OBVIOUS
<1>1. \A i \in Instance : Credited[i] \in Int
  BY LedgerTypes DEF Credited
<1>2. \A k \in DOMAIN accums : accums[k].cnt["cpu"] \in Nat
  BY DEF LedgerInv, TotalsInv, AggregatorTypeOK, CounterValues, Counter
<1> QED
  BY <1>1, <1>2 DEF Total, AccountTypeOK

\* A step of the ledger that counts.
LEMMA BackedCount ==
  ASSUME AccountTypeOK, AccountTypeOK', Counted!Count, NEW R \in SUBSET Groups, IsFiniteSet(R),
         SumFunctionOnSet(Total, R) <= SumFunctionOnSet(Credited, Instance)
  PROVE  SumFunctionOnSet(Total', R) <= SumFunctionOnSet(Credited', Instance)
<1>1. /\ \A i \in Instance : Credited[i] \in Int /\ Credited'[i] \in Int
      /\ \A g \in Groups : Total[g] \in Nat /\ Total'[g] \in Nat
  BY DEF AccountTypeOK
<1>2. \A i \in Instance : Counted!Credit[i] = Credited'[i] - Credited[i]
  BY DEF Counted!Credit, Credited
<1>3. \A i \in Instance : Counted!Honest(i)
  BY DEF Counted!Count
<1>4. \A i \in Instance : Credited'[i] = Credited[i] \/ Credited'[i] >= Credited[i]
  BY <1>3 DEF Counted!Honest, Credited
<1>5. PICK to \in [Instance -> Groups] : \A g \in Groups :
        \/ Total'[g] = Total[g] + Counted!SumFunctionOnSet(Counted!Credit,
                                    {i \in Instance : to[i] = g /\ Counted!Credit[i] > 0})
        \/ Total'[g] = 0
  BY DEF Counted!Count, Total
<1>6. \A g \in R :
        \/ Total'[g] = Total[g] + SumFunctionOnSet(Counted!Credit,
                                    {i \in Instance : to[i] = g /\ Counted!Credit[i] > 0})
        \/ Total'[g] = 0
  BY <1>5, SumOfLedger
<1>7. \A i \in Instance : /\ Credited[i] \in Int /\ Counted!Credit[i] \in Nat
                          /\ Credited'[i] = Credited[i] + Counted!Credit[i]
  BY <1>1, <1>2, <1>4
<1>8. \A g \in R : Total[g] \in Nat
  BY <1>1
<1> DEFINE P == Instance  paid == Credited  paid2 == Credited'  credit == Counted!Credit
           tot == Total  tot2 == Total'
           share == [g \in Groups |-> {i \in Instance : to[i] = g /\ Counted!Credit[i] > 0}]
<1>9. PICK P0, p0, p1, c0, t0, t1, s0 :
        /\ P0 = P /\ p0 = paid /\ p1 = paid2 /\ c0 = credit /\ t0 = tot /\ t1 = tot2
        /\ s0 = share
  OBVIOUS
<1>10. \A g \in R : /\ share[g] = {i \in Instance : to[i] = g /\ Counted!Credit[i] > 0}
                   /\ \A i : i \in share[g] <=> i \in P /\ to[i] = g /\ credit[i] > 0
  OBVIOUS
<1>11. \A g \in R : Total'[g] = Total[g] + SumFunctionOnSet(Counted!Credit, share[g]) \/ Total'[g] = 0
  <2> TAKE g \in R
  <2>1. share[g] = {i \in Instance : to[i] = g /\ Counted!Credit[i] > 0}
    BY <1>10
  <2> HIDE DEF share
  <2> QED
    BY <1>6, <2>1
<1> HIDE DEF P, paid, paid2, credit, tot, tot2, share
<1>12. /\ IsFiniteSet(P0)
       /\ \A i \in P0 : p0[i] \in Int /\ c0[i] \in Nat /\ p1[i] = p0[i] + c0[i]
       /\ \A r \in R : \A i : i \in s0[r] <=> i \in P0 /\ to[i] = r /\ c0[i] > 0
       /\ \A r \in R : t0[r] \in Nat
       /\ SumFunctionOnSet(t0, R) <= SumFunctionOnSet(p0, P0)
  BY <1>7, <1>8, <1>9, <1>10, InstancesFinite DEF P, paid, paid2, credit, tot, tot2
<1>13. \A r \in R : t1[r] = t0[r] + SumFunctionOnSet(c0, s0[r]) \/ t1[r] = 0
  BY <1>9, <1>11 DEF credit, tot, tot2
<1>14. SumFunctionOnSet(t1, R) <= SumFunctionOnSet(p1, P0)
  <2>1. Backing(P0, R, to, s0, p0, p1, c0, t0, t1)
    BY <1>12, <1>13 DEF Backing
  <2> QED
    BY <2>1, SharesBacked
<1> QED
  BY <1>9, <1>14 DEF P, paid2, tot2

\* The groups there are stay finitely many.
LEMMA AccumsFinite ==
  LedgerInv /\ IsFiniteSet(DOMAIN accums) /\ [PipelineNext]_pipelineVars =>
    IsFiniteSet(DOMAIN accums')
<1> SUFFICES ASSUME LedgerInv, IsFiniteSet(DOMAIN accums), [PipelineNext]_pipelineVars
             PROVE  IsFiniteSet(DOMAIN accums')
  OBVIOUS
<1> DEFINE procs == Figured(res.procs)
           acc   == Accumulate(accums, procs, now)
<1>1. CASE ApplyResult
  <2>1. accums' = PruneAccums(acc, now)
    BY <1>1, ApplyShape DEF ApplyResult
  <2>2. Countable(procs)
    BY FiguredCountable DEF LedgerInv, ScannerInv
  <2>3. IsFiniteSet(Keys(procs))
    <3>1. IsFiniteSet({[p \in DOMAIN procs |-> Key(procs[p])][q] : q \in DOMAIN procs})
      BY <2>2, ImageFinite DEF Countable
    <3>2. {[p \in DOMAIN procs |-> Key(procs[p])][q] : q \in DOMAIN procs} = Keys(procs)
      BY DEF Keys
    <3> QED
      BY <3>1, <3>2
  <2>4. DOMAIN acc = DOMAIN accums \cup Keys(procs)
    BY DEF Accumulate
  <2>5. IsFiniteSet(DOMAIN acc)
    BY <2>3, <2>4, FS_Union
  <2> HIDE DEF acc
  <2>6. DOMAIN accums' \subseteq DOMAIN acc
    BY <2>1, PruneKeeps
  <2> QED
    BY <2>5, <2>6, FS_Subset
<1>2. CASE NamingChange
  <2>1. DOMAIN accums' = {}
    BY <1>2 DEF NamingChange, Reset
  <2> QED
    BY <2>1, FS_EmptySet
<1>3. CASE accums' = accums
  BY <1>3
<1> QED
  BY <1>1, <1>2, <1>3
  DEF PipelineNext, pipelineVars, aggregatorVars, ScanRound, ReloadStep, Clock, PipelineHalted

LEMMA BackedStep ==
  LedgerInv /\ LedgerInv' /\ AccountTypeOK /\ AccountTypeOK' /\ BackedInv
    /\ [PipelineNext]_pipelineVars => BackedInv'
<1> SUFFICES ASSUME LedgerInv, LedgerInv', AccountTypeOK, AccountTypeOK', BackedInv,
                    [PipelineNext]_pipelineVars
             PROVE  BackedInv'
  OBVIOUS
<1>1. [Counted!Next]_(Counted!ledgerVars)
  BY LedgerStep
<1>2. CASE Counted!Count
  <2>1. ASSUME NEW R \in SUBSET Groups, IsFiniteSet(R)
        PROVE  SumFunctionOnSet(Total', R) <= SumFunctionOnSet(Credited', Instance)
    BY <1>2, <2>1, BackedCount DEF BackedInv
  <2> QED
    BY <2>1, AccumsFinite DEF BackedInv
<1>3. CASE UNCHANGED <<Credited, Total>>
  BY <1>3, AccumsFinite DEF BackedInv
<1>4. \/ Counted!Count
      \/ UNCHANGED <<Credited, Total>>
  BY <1>1 DEF Counted!Next, Counted!Work, Counted!Open, Counted!ledgerVars, Credited, Total
<1> QED
  BY <1>2, <1>3, <1>4

(***************************************************************************)
(* All totals together are no more than the processes have used since each *)
(* was first read, on every machine and whatever is reset, forgotten or    *)
(* lost (computeDeltas, Put, accumulate, prune, Reset).                    *)
(***************************************************************************)
THEOREM BackedCorrect == PipelineSpec => []TotalsBacked
<1>1. LedgerInv /\ BackedInv => TotalsBacked
  <2> SUFFICES ASSUME LedgerInv, BackedInv PROVE TotalsBacked
    OBVIOUS
  <2> DEFINE D     == DOMAIN accums
             total == [k \in D |-> accums[k].cnt["cpu"]]
             used  == [i \in Instance |->
                         IF base[i]["cpu"] = Unread THEN 0 ELSE work[i] - base[i]["cpu"]]
  <2>1. IsFiniteSet(D) /\ D \in SUBSET Groups
    BY DEF BackedInv, LedgerInv, TotalsInv
  <2>2. \A k \in D : total[k] \in Int /\ Total[k] \in Int /\ total[k] = Total[k]
    BY <2>1, AccountTypes DEF Total, AccountTypeOK
  <2>3. \A i \in Instance : Credited[i] \in Int /\ used[i] \in Int /\ Credited[i] <= used[i]
    <3> TAKE i \in Instance
    <3>1. /\ emitted[i]["cpu"] \in Nat /\ InTransit(i) \in Nat
          /\ base[i]["cpu"] \in Nat \cup {Unread} /\ work[i] \in Nat
      BY LedgerTypes
    <3>2. emitted[i]["cpu"] > 0 => base[i]["cpu"] # Unread
      BY CountingImplies DEF LedgerInv, ScannerInv, NoLifetimeTotalCPU, NoLifetimeTotal
    <3>3. base[i]["cpu"] # Unread => emitted[i]["cpu"] + base[i]["cpu"] <= work[i]
      BY DEF LedgerInv, ScannerInv, CountingInv, Baselines, CountedBelow
    <3> QED
      BY <3>1, <3>2, <3>3 DEF Credited
  <2>4. SumFunctionOnSet(Total, D) <= SumFunctionOnSet(Credited, Instance)
    BY <2>1 DEF BackedInv
  <2> HIDE DEF D, total, used
  <2>5. SumFunctionOnSet(total, D) <= SumFunctionOnSet(Total, D)
    BY <2>1, <2>2, SumCompare
  <2>6. SumFunctionOnSet(Credited, Instance) <= SumFunctionOnSet(used, Instance)
    BY <2>3, InstancesFinite, SumCompare
  <2>7. /\ SumFunctionOnSet(total, D) \in Int /\ SumFunctionOnSet(Total, D) \in Int
        /\ SumFunctionOnSet(Credited, Instance) \in Int
        /\ SumFunctionOnSet(used, Instance) \in Int
    BY <2>1, <2>2, <2>3, InstancesFinite, SumType
  <2>8. SumFunctionOnSet(total, D) <= SumFunctionOnSet(used, Instance)
    BY <2>4, <2>5, <2>6, <2>7
  <2> QED
    BY <2>8 DEF TotalsBacked, D, total, used
<1> QED
  BY <1>1, BackedInit, BackedStep, AccountTypes, LedgerInvCorrect, PTL DEF PipelineSpec

=============================================================================
