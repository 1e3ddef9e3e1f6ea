------------------------------ MODULE StateMap ------------------------------
(***************************************************************************)
(* internal/scan/state.go: the memory between two scans.                   *)
(*                                                                         *)
(* The Go map from PID to *PIDState is a function whose DOMAIN is the set  *)
(* of PIDs that have an entry.  An entry keeps the identity of the process *)
(* it describes (the start time), the generation that last stamped it, the *)
(* counter baselines, and the values cached for the process.               *)
(*                                                                         *)
(* Data abstraction.  The eight counters are three families, told apart by *)
(* the file they are read from: "cpu" is stat (ticks and faults), "ctx" is *)
(* status (context switches), "io" is io (bytes).  A cached descriptor or  *)
(* PSS value is represented by the number of the scan that read it, which  *)
(* is what its freshness depends on.                                       *)
(***************************************************************************)
EXTENDS Naturals

Counter == {"cpu", "ctx", "io"}

CounterValues == [Counter -> Nat]

\* A descriptor or PSS figure that has never been read.
NeverRead == 0

PIDStateFields ==
  { "start",             \* StartTicks
    "gen",               \* Generation
    "cnt",               \* UTimeTicks ... WriteBytes: one of CounterValues
    "name", "user", "uid",
    "haveFDs", "fdAt",   \* HaveFDs; OpenFDs, MaxFDs, FDRatio
    "havePSS", "pssAt" } \* HavePSS; PSSBytes, SwapPSSBytes

NewStateMap == [p \in {} |-> NeverRead]

NextGeneration(gen) == gen + 1

-----------------------------------------------------------------------------
(* Plausible mistakes in these operations: the properties are tried with   *)
(* each in the place of the operation it is named after.                   *)

\* Lookup that trusts the PID alone.
LookupByPidOnly(m, pid, start) == [found |-> pid \in DOMAIN m, map |-> m]

\* Put that restamps an entry that exists and keeps its baselines.
PutOnce(m, gen, pid, st) ==
  [p \in DOMAIN m \cup {pid} |->
     IF p = pid THEN [(IF pid \in DOMAIN m THEN m[pid] ELSE st) EXCEPT !.gen = gen]
     ELSE m[p]]

\* Touch forgotten.
TouchNothing(m, gen, pid) == m

\* Prune with <= for <.
PruneCurrent(m, gen) ==
  [p \in {q \in DOMAIN m : m[q].gen > gen} |-> m[p]]

\* Prune forgotten.
PruneNothing(m, gen) == m

-----------------------------------------------------------------------------
(***************************************************************************)
(* Lookup has two effects: it says whether the entry belongs to the        *)
(* process with this start time, and it deletes an entry that does not.    *)
(***************************************************************************)
Lookup(m, pid, start) ==
  LET held  == pid \in DOMAIN m
      found == held /\ m[pid].start = start
  IN  [ found |-> found,
        map   |-> [p \in IF held /\ ~found THEN DOMAIN m \ {pid} ELSE DOMAIN m |-> m[p]] ]

\* Put stamps the entry before storing it.
Put(m, gen, pid, st) ==
  [p \in DOMAIN m \cup {pid} |->
     IF p = pid THEN [st EXCEPT !.gen = gen] ELSE m[p]]

\* Touch stamps an entry that exists and creates none.
Touch(m, gen, pid) ==
  [p \in DOMAIN m |-> IF p = pid THEN [m[p] EXCEPT !.gen = gen] ELSE m[p]]

Prune(m, gen) ==
  [p \in {q \in DOMAIN m : m[q].gen >= gen} |-> m[p]]

\* The clamp: a counter that went backwards contributes nothing.
Delta(now, prev) == IF now < prev THEN 0 ELSE now - prev

=============================================================================
