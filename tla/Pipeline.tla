------------------------------ MODULE Pipeline ------------------------------
(***************************************************************************)
(* The scanner and the aggregator, one result after another: what a unit   *)
(* of work of a process becomes in the counter of its group.               *)
(*                                                                         *)
(* The loop of main, which is not in the repository, begins a scan, gives  *)
(* the result to the aggregator, and between two rounds may answer a       *)
(* naming change by resetting both.  A reload may come at any time, also   *)
(* before the loop answers it or in the middle of a scan.                  *)
(***************************************************************************)
EXTENDS Scanner, Aggregator

VARIABLE pending \* the result of the last scan is still to be applied

pipelineVars == <<vars, now, aggregatorVars, pending>>

PipelineInit ==
  /\ Init
  /\ AggregatorInit
  /\ pending = FALSE

-----------------------------------------------------------------------------

\* One scan at a time, and each result is applied before the next scan.
ScanRound ==
  /\ ScanStep
  /\ pc = "idle" => ~pending
  /\ pending' = (pending \/ pc' = "walk")
  /\ UNCHANGED <<now, aggregatorVars>>

\* The descriptor and PSS figures, which the scanner's model has as an age only.
Figured(procs) ==
  [p \in DOMAIN procs |->
     [f \in DOMAIN procs[p] \cup {"openFDs", "maxFDs", "ratio", "pss"} |->
        IF f \in DOMAIN procs[p] THEN procs[p][f] ELSE 0]]

ApplyResult ==
  /\ pc = "idle"
  /\ pending
  /\ Apply(Figured(res.procs), Cardinality(res.errs))
  /\ pending' = FALSE
  /\ UNCHANGED <<vars, now>>

\* The watcher activates another configuration, whatever the loop is doing.
ReloadStep ==
  /\ \E c \in Configs : Reload(c)
  /\ UNCHANGED <<now, aggregatorVars, pending>>

NamingChange ==
  /\ ~pending
  /\ ResetState
  /\ Reset
  /\ UNCHANGED <<now, pending>>

\* The time is read when a scan begins.
Clock ==
  /\ pc = "idle"
  /\ ~pending
  /\ Tick
  /\ UNCHANGED <<vars, aggregatorVars, pending>>

\* Not a step of the program: the bound MaxScans.
PipelineHalted ==
  /\ pc = "idle" /\ ~pending /\ scanNo = MaxScans
  /\ UNCHANGED pipelineVars

PipelineNext ==
  \/ KernelStep /\ UNCHANGED <<now, aggregatorVars, pending>>
  \/ ScanRound
  \/ ApplyResult
  \/ ReloadStep
  \/ NamingChange
  \/ Clock
  \/ PipelineHalted

PipelineSpec == PipelineInit /\ [][PipelineNext]_pipelineVars

-----------------------------------------------------------------------------
(* Correctness.                                                            *)

Groups == GroupNames \X GroupUsers

\* What has been reported of an instance and is not in a total yet.
InTransit(i) ==
  SumFunctionOnSet([p \in DOMAIN res.procs |-> Contribution(res.procs[p], "cpu")],
                   {p \in DOMAIN res.procs : pending /\ res.procs[p].start = i})

Counted == INSTANCE Ledger WITH
  Process  <- Instance,
  Group    <- Groups,
  consumed <- work,
  opened   <- [i \in Instance |-> base[i]["cpu"]],
  credited <- [i \in Instance |-> emitted[i]["cpu"] - InTransit(i)],
  total    <- [g \in Groups |-> IF g \in DOMAIN accums THEN accums[g].cnt["cpu"] ELSE 0]

(***************************************************************************)
(* The exporter keeps the ledger: whatever processes come and go under one *)
(* PID, however scans and their results interleave with the machine, every *)
(* unit of work after the first reading enters the total of one group at   *)
(* most once, nothing else does, and a total falls only by being forgotten *)
(* (readProcess, computeDeltas, Put, accumulate, prune, Reset).            *)
(***************************************************************************)
KeepsLedger == Counted!Spec

(***************************************************************************)
(* All groups together never show more than their processes have used      *)
(* since each was first read: no unit of work is in two totals, under two  *)
(* names, users or PIDs (computeDeltas, Put, accumulate, prune, Reset).    *)
(***************************************************************************)
TotalsBacked ==
  LET total == [k \in DOMAIN accums |-> accums[k].cnt["cpu"]]
      used  == [i \in Instance |->
                  IF base[i]["cpu"] = Unread THEN 0 ELSE work[i] - base[i]["cpu"]]
  IN  SumFunctionOnSet(total, DOMAIN accums) <= SumFunctionOnSet(used, Instance)

=============================================================================
