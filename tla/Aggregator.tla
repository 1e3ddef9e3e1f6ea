----------------------------- MODULE Aggregator -----------------------------
(***************************************************************************)
(* internal/aggregate: per-process readings folded into per-group series.  *)
(*                                                                         *)
(* A reading carries what Apply looks at: the group key (name, user), the  *)
(* counter deltas with the flags that say which files were read, the       *)
(* descriptor and PSS figures and the state letter.  A result is a         *)
(* function from the PIDs that were scanned to their readings.  The other  *)
(* additive gauges (threads, memory) are a sum over all members and are    *)
(* left out.  A result also has the number of reads that failed.           *)
(*                                                                         *)
(* Apply is given the retention on each call, from a configuration that a  *)
(* reload may change; here it is one constant.                             *)
(***************************************************************************)
EXTENDS Integers, FiniteSets, SequencesExt, StateMap

CONSTANTS
  Retention, \* filter.group_retention, in units of the clock
  MaxClock,  \* bound: the clock
  MaxApply,  \* bound: results applied
  MaxSum     \* bound: a counter of an accumulator

ASSUME AggregatorAssumption ==
  Retention \in Int /\ {MaxClock, MaxApply, MaxSum} \subseteq Nat

VARIABLES
  now,       \* the clock; a scan's ScanAt is read from it
  accums,    \* group key -> [cnt, last]
  namesSeen, \* group names observed since the last Reset
  scans,     \* results applied
  snap,      \* the last Snapshot
  exported   \* history: key -> the counters last exported for it, and when

aggregatorVars == <<accums, namesSeen, scans, snap, exported>>

NoAccum == [cnt |-> [c \in Counter |-> 0], last |-> 0]

NoSnapshot ==
  [ at |-> 0, groups |-> [k \in {} |-> NoAccum], list |-> <<>>, errs |-> 0,
    names |-> 0, number |-> 0 ]

AggregatorInit ==
  /\ now = 0
  /\ accums = [k \in {} |-> NoAccum]
  /\ namesSeen = {}
  /\ scans = 0
  /\ snap = NoSnapshot
  /\ exported = [k \in {} |-> NoAccum]

-----------------------------------------------------------------------------

Key(r) == <<r.name, r.user>>

Keys(procs) == {Key(procs[p]) : p \in DOMAIN procs}

Members(procs, k) == {p \in DOMAIN procs : Key(procs[p]) = k}

(***************************************************************************)
(* accumulate: a process without a previous state adds nothing, and a      *)
(* family whose file was not read adds nothing.                            *)
(***************************************************************************)
Contribution(r, c) == IF r.haveDeltas /\ r.have[c] THEN r.d[c] ELSE 0

\* What the members of group k add to its counter c.
Added(procs, k, c) ==
  SumFunctionOnSet([p \in DOMAIN procs |-> Contribution(procs[p], c)], Members(procs, k))

\* Mistakes: the totals are set, not added to; the time is not stamped.
AccumulatedAnew(acc, procs, k, at) ==
  [cnt |-> [c \in Counter |-> Added(procs, k, c)], last |-> at]

AccumulatedUnstamped(acc, procs, k, at) ==
  [ cnt  |-> [c \in Counter |-> acc.cnt[c] + Added(procs, k, c)],
    last |-> acc.last ]

Accumulated(acc, procs, k, at) ==
  [ cnt  |-> [c \in Counter |-> acc.cnt[c] + Added(procs, k, c)],
    last |-> at ]

\* Every group of the result is accumulated, the others keep their totals.
Accumulate(acc, procs, at) ==
  [k \in DOMAIN acc \cup Keys(procs) |->
     IF k \in Keys(procs)
     THEN Accumulated(IF k \in DOMAIN acc THEN acc[k] ELSE NoAccum, procs, k, at)
     ELSE acc[k]]

\* Mistakes: a group is kept too long, or forgotten too early.
PruneLate(acc, at) ==
  [k \in {j \in DOMAIN acc : at - acc[j].last <= Retention + 1} |-> acc[k]]
PruneEarly(acc, at) ==
  [k \in {j \in DOMAIN acc : at - acc[j].last < Retention} |-> acc[k]]

(***************************************************************************)
(* Prune forgets the groups last seen more than the retention ago.         *)
(***************************************************************************)
PruneAccums(acc, at) ==
  IF Retention <= 0 THEN acc
  ELSE [k \in {j \in DOMAIN acc : at - acc[j].last <= Retention} |-> acc[k]]

(***************************************************************************)
(* Sample: descriptor and PSS figures of the members that have them, the   *)
(* highest ratio among them, and the coverage counts.  A limit of zero     *)
(* stands for unlimited or unread, which counts in no sum of limits.       *)
(***************************************************************************)
WithFDs(procs, k) == {p \in Members(procs, k) : procs[p].haveFDs}
WithPSS(procs, k) == {p \in Members(procs, k) : procs[p].havePSS}

Sample(acc, procs, k) ==
  [ numProcs |-> Cardinality(Members(procs, k)),
    zombies  |-> Cardinality({p \in Members(procs, k) : procs[p].zombie}),
    openFDs  |-> MapThenSumSet(LAMBDA p : procs[p].openFDs, WithFDs(procs, k)),
    maxFDs   |-> MapThenSumSet(LAMBDA p : procs[p].maxFDs, WithFDs(procs, k)),
    worst    |-> Max({0} \cup {procs[p].ratio : p \in WithFDs(procs, k)}),
    fdsRead  |-> Cardinality(WithFDs(procs, k)),
    pss      |-> MapThenSumSet(LAMBDA p : procs[p].pss, WithPSS(procs, k)),
    pssRead  |-> Cardinality(WithPSS(procs, k)),
    ioRead   |-> Cardinality({p \in Members(procs, k) : procs[p].have["io"]}),
    accum    |-> acc[k] ]

(***************************************************************************)
(* Apply: accumulate, copy the totals into the live groups, then prune.    *)
(* The list is the groups in the order of a Go map, which is any.          *)
(***************************************************************************)
Apply(procs, errs) ==
  /\ scans < MaxApply
  /\ scans' = scans + 1
  /\ LET acc == Accumulate(accums, procs, now)
     IN  /\ \A k \in DOMAIN acc, c \in Counter : acc[k].cnt[c] <= MaxSum
         /\ accums' = PruneAccums(acc, now)
         /\ namesSeen' = namesSeen \cup {k[1] : k \in Keys(procs)}
         /\ \E order \in SetToSeqs(Keys(procs)) :
              snap' = [ at     |-> now,
                        groups |-> [k \in Keys(procs) |-> Sample(acc, procs, k)],
                        list   |-> order,
                        errs   |-> errs,
                        names  |-> Cardinality(namesSeen'),
                        number |-> scans' ]
         /\ exported' = [k \in DOMAIN exported \cup Keys(procs) |->
                           IF k \in Keys(procs) THEN acc[k] ELSE exported[k]]

\* Mistakes: the totals survive a naming change, or the scan number does not.
ResetNamesOnly ==
  /\ namesSeen' = {}
  /\ UNCHANGED <<accums, scans, snap, exported>>

ResetScans ==
  /\ accums' = [k \in {} |-> NoAccum]
  /\ namesSeen' = {}
  /\ exported' = [k \in {} |-> NoAccum]
  /\ scans' = 0
  /\ UNCHANGED snap

Reset ==
  /\ accums' = [k \in {} |-> NoAccum]
  /\ namesSeen' = {}
  /\ exported' = [k \in {} |-> NoAccum]
  /\ UNCHANGED <<scans, snap>>

Tick ==
  /\ now < MaxClock
  /\ now' = now + 1

-----------------------------------------------------------------------------
(* Correctness.                                                            *)

AggregatorTypeOK ==
  /\ now \in 0..MaxClock
  /\ scans \in 0..MaxApply
  /\ \A k \in DOMAIN accums :
       accums[k].cnt \in [Counter -> 0..MaxSum] /\ accums[k].last \in 0..now
  /\ {k[1] : k \in DOMAIN accums} \subseteq namesSeen
  /\ snap.at \in 0..now /\ snap.number <= scans

(***************************************************************************)
(* A group that comes back within the retention resumes its counters where *)
(* they were last exported, whoever its members are now (Accum, prune).    *)
(* What Prometheus sees never goes backwards in that time.                 *)
(***************************************************************************)
ResumesWithinRetention ==
  [][\A k \in DOMAIN exported :
       k \in DOMAIN snap'.groups /\ snap' # snap
         /\ (Retention <= 0 \/ now - exported[k].last <= Retention)
         => \A c \in Counter :
              snap'.groups[k].accum.cnt[c] >= exported[k].cnt[c]]_aggregatorVars

(***************************************************************************)
(* The totals are bounded by the retention: after a scan nothing is kept   *)
(* of a group last seen longer ago (prune).                                *)
(***************************************************************************)
ForgetsAfterRetention ==
  Retention > 0 => \A k \in DOMAIN accums : snap.at - accums[k].last <= Retention

(***************************************************************************)
(* The exported total of a live group is the total that is kept for it, so *)
(* the next delta is added to what was shown (the copy in Apply comes      *)
(* after accumulate and prune never takes a live group).                   *)
(***************************************************************************)
LiveGroupsKept ==
  \A k \in DOMAIN snap.groups \cap DOMAIN exported :
    k \in DOMAIN accums /\ accums[k] = snap.groups[k].accum

=============================================================================
