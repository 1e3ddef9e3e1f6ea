------------------------------ MODULE Exporter ------------------------------
(***************************************************************************)
(* The exporter after the scan: the loop of main gives each result to the  *)
(* aggregator and publishes the snapshot, a naming change comes between    *)
(* two rounds, and the HTTP server reads what is published all the while.  *)
(*                                                                         *)
(* main is not in the repository; what it does here is what the packages   *)
(* require of it: one goroutine scans, applies and publishes.              *)
(***************************************************************************)
EXTENDS Server

CONSTANTS
  Results,   \* [procs, errs] a scan may return
  MaxChanges \* bound: naming changes

\* A scan lists finitely many processes, and a delta is never negative (Delta).
ASSUME ExporterAssumption ==
  /\ MaxChanges \in Nat
  /\ \A r \in Results :
       /\ IsFiniteSet(DOMAIN r.procs)
       /\ \A p \in DOMAIN r.procs :
            {"haveDeltas", "d"} \subseteq DOMAIN r.procs[p] /\ r.procs[p].d \in CounterValues

VARIABLES
  loop,    \* what the loop does next: "scan", "store" or "publishing"
  known,   \* PIDs the scanner has an entry for
  changes, \* naming changes so far
  era      \* history: number of a snapshot -> naming changes before its scan

loopVars == <<loop, known, changes, era>>
vars == <<now, aggregatorVars, registryVars, serverVars, loopVars>>

Init ==
  /\ AggregatorInit
  /\ RegistryInit
  /\ ServerInit
  /\ loop = "scan"
  /\ known = {}
  /\ changes = 0
  /\ era = <<>>

-----------------------------------------------------------------------------

\* A process has deltas if the scan before left an entry for it.
WithDeltas(procs) ==
  [p \in DOMAIN procs |-> [procs[p] EXCEPT !.haveDeltas = p \in known]]

\* main leaves its loop when the context is done or the server has returned.
ScanAndApply ==
  /\ loop = "scan"
  /\ ~cancelled
  /\ srv # "returned"
  /\ \E r \in Results :
       /\ Apply(WithDeltas(r.procs), r.errs)
       /\ known' = DOMAIN r.procs
  /\ loop' = "store"
  /\ era' = Append(era, changes)
  /\ UNCHANGED <<now, registryVars, serverVars, changes>>

StartPublish ==
  /\ loop = "store"
  /\ StoreSnapshot({req.at})
  /\ loop' = "publishing"
  /\ UNCHANGED <<now, aggregatorVars, serverVars, known, changes, era>>

GoOnPublishing ==
  /\ loop = "publishing"
  /\ SetSelf
  /\ loop' = IF pub' = <<>> THEN "scan" ELSE loop
  /\ UNCHANGED <<now, aggregatorVars, serverVars, known, changes, era>>

\* Aggregator.Reset and Scanner.ResetState, between two rounds.
NamingChange ==
  /\ loop = "scan"
  /\ changes < MaxChanges
  /\ changes' = changes + 1
  /\ known' = {}
  /\ Reset
  /\ UNCHANGED <<now, registryVars, serverVars, loop, era>>

\* The time is read when a scan begins; it counts from the first, and passes
\* while another is to come.
Clock ==
  /\ loop = "scan"
  /\ ~cancelled
  /\ srv # "returned"
  /\ scans \in 1..MaxApply - 1
  /\ Tick
  /\ UNCHANGED <<aggregatorVars, registryVars, serverVars, loopVars>>

\* Steps of Run and of its listener.
RunStep == ListenerSends \/ RunReturnsErr \/ BeginShutdown \/ EndShutdown

ServerStep ==
  \/ GroupsLoad \/ GroupsSort \/ GroupsAnswer \/ Scrape
  \/ RunStep \/ ListenerEnds \/ Cancel

\* Not a step of the program: the bound MaxApply.
Halted ==
  /\ loop = "scan"
  /\ scans = MaxApply \/ cancelled \/ srv = "returned"
  /\ UNCHANGED vars

Next ==
  \/ ScanAndApply \/ StartPublish \/ GoOnPublishing
  \/ NamingChange
  \/ Clock
  \/ ServerStep /\ UNCHANGED <<now, aggregatorVars, loopVars>>
  \/ Halted

Spec == Init /\ [][Next]_vars

(***************************************************************************)
(* The goroutines of Run and of its listener run: a buffered send does not *)
(* wait, a done context and a sent error are noticed, and Shutdown has a   *)
(* timer.  Nothing is assumed of the clients or of the loop.               *)
(***************************************************************************)
FairSpec ==
  /\ Spec
  /\ WF_vars((RunReturnsErr \/ BeginShutdown \/ EndShutdown)
               /\ UNCHANGED <<now, aggregatorVars, loopVars>>)
  /\ WF_vars(ListenerSends /\ UNCHANGED <<now, aggregatorVars, loopVars>>)

-----------------------------------------------------------------------------
(* Correctness.                                                            *)

RegistryTypeOK ==
  /\ DOMAIN heap = {shown, scrape.at, req.at} \ {Nil}
  /\ shown <= scans
  /\ ToSet(pub) \subseteq DOMAIN self
  /\ pub # <<>> <=> loop = "publishing"

\* Shape of the state: every group with a total has a name that was seen,
\* every pointer that is held points at a snapshot and no other is kept,
\* and Publish is under way exactly while the loop publishes.
TypeOK ==
  /\ AggregatorTypeOK
  /\ RegistryTypeOK
  /\ srv \in {"serving", "draining", "returned"}
  /\ lis \in {"accepting", "sending", "done"}
  /\ srv = "serving" => lis = "accepting" \/ errCh # <<>> \/ lis = "sending"

(***************************************************************************)
(* A snapshot is never changed once it is published: readers hold no lock, *)
(* so the loop, the naming change and the other handlers must leave it     *)
(* alone (Registry, handleGroups).                                         *)
(***************************************************************************)
PublishedFrozen ==
  [][\A a \in DOMAIN heap \cap DOMAIN heap' : heap'[a] = heap[a]]_vars

(***************************************************************************)
(* A scrape emits every group of one snapshot exactly once, and no row of  *)
(* another, however many are published meanwhile (Publish, Collect).       *)
(***************************************************************************)
ScrapeWhole ==
  /\ \A i \in DOMAIN scrape.rows : scrape.rows[i] = Row(scrape.at, i)
  /\ scrape.on /\ ~Collecting =>
       /\ Len(scrape.rows) = Cardinality(DOMAIN heap[scrape.at].groups)
       /\ {scrape.rows[i][1] : i \in DOMAIN scrape.rows} = DOMAIN heap[scrape.at].groups

(***************************************************************************)
(* Between two rounds the self-metrics and /stats agree on the last scan,  *)
(* also after naming changes: the counter of scans is its number, and a    *)
(* self-metric never runs ahead of the snapshot (Publish, handleStats).    *)
(***************************************************************************)
SelfMetricsAgree ==
  /\ pub = <<>> /\ shown # Nil => \A f \in DOMAIN Stats : self[f] = Stats[f]
  /\ shown # Nil => self.scans <= Stats.scans

\* No naming change between the two scans, and no more than the retention.
OneRecord(a, b) ==
  /\ era[a] = era[b]
  /\ Retention <= 0 \/ heap[b].at - heap[a].at <= Retention

(***************************************************************************)
(* No reader that goes from one snapshot to a newer one sees a counter     *)
(* fall, however many it has missed between them, unless a naming change   *)
(* emptied the totals or the group may have been forgotten (Collect,       *)
(* Publish, accumulate, prune, Reset).                                     *)
(***************************************************************************)
CountersOnward ==
  \A a, b \in DOMAIN heap :
    a <= b /\ OneRecord(a, b) =>
      \A k \in DOMAIN heap[a].groups \cap DOMAIN heap[b].groups, c \in Counter :
        heap[a].groups[k].accum.cnt[c] <= heap[b].groups[k].accum.cnt[c]

(***************************************************************************)
(* A stop request ends Run and its listener, whatever the clients and the  *)
(* listener do: neither waits for a request that is never finished, nor    *)
(* for the other (Run).                                                    *)
(***************************************************************************)
ServerStops == cancelled ~> srv = "returned" /\ lis = "done"

-----------------------------------------------------------------------------
(* Statements of the documentation that the code contradicts.              *)

(***************************************************************************)
(* user_manual.md: until two scans have completed the exporter is not      *)
(* ready, so that it never is while its counters are meaningless: what is  *)
(* shown has a scan of the same naming before it, from which its deltas    *)
(* were taken (handleReadyz, Reset, ResetState).                           *)
(***************************************************************************)
ReadyMeansCounters ==
  Ready => LET n == heap[shown].number IN era[n - 1] = era[n]

=============================================================================
