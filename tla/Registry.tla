------------------------------ MODULE Registry ------------------------------
(***************************************************************************)
(* internal/metrics: the published snapshot, the self-metrics beside it,   *)
(* and a scrape that walks the snapshot while the next one is published.   *)
(*                                                                         *)
(* The atomic pointer is an address; heap has the snapshots that somebody  *)
(* can still reach, and a snapshot whose last reader has gone is dropped.  *)
(* Each self-metric is set by a step of its own, as each is read by its    *)
(* own collector.  The duration histogram and the CPU counter are sums     *)
(* like readErrs; the counts of processes, groups and entries are gauges   *)
(* like namesSeen.  AddOverrun and SetBuildInfo touch nothing else.        *)
(***************************************************************************)
EXTENDS Aggregator

VARIABLES
  heap,     \* address -> snapshot
  shown,    \* Registry.snap: an address, or Nil
  self,     \* the self-metrics
  pub,      \* the self-metrics Publish has still to set, in order
  scrape    \* a Collect under way: its pointer and the rows it has emitted

registryVars == <<heap, shown, self, pub, scrape>>

Nil == 0

PublishOrder == <<"scans", "namesSeen", "readErrs">>

NoSelf == [scans |-> 0, namesSeen |-> 0, readErrs |-> 0]

NoScrape == [on |-> FALSE, at |-> Nil, rows |-> <<>>]

RegistryInit ==
  /\ heap = [a \in {} |-> NoSnapshot]
  /\ shown = Nil
  /\ self = NoSelf
  /\ pub = <<>>
  /\ scrape = NoScrape

\* The snapshots at the addresses in roots; the others cannot be reached.
Reachable(h, roots) == [a \in DOMAIN h \cap roots |-> h[a]]

-----------------------------------------------------------------------------
(* Publish: the pointer first, then the self-metrics one after another.    *)

StoreSnapshot(others) ==
  /\ pub = <<>>
  /\ shown' = shown + 1
  /\ heap' = Reachable([a \in DOMAIN heap \cup {shown'} |->
                          IF a = shown' THEN snap ELSE heap[a]],
                       {shown', scrape.at} \cup others)
  /\ pub' = PublishOrder
  /\ UNCHANGED <<self, scrape>>

\* The value Publish gives a self-metric: two counters, the others gauges.
SelfValue(f) ==
  CASE f = "scans"     -> self.scans + 1
    [] f = "namesSeen" -> heap[shown].names
    [] f = "readErrs"  -> self.readErrs + heap[shown].errs

SetSelf ==
  /\ pub # <<>>
  /\ self' = [self EXCEPT ![Head(pub)] = SelfValue(Head(pub))]
  /\ pub' = Tail(pub)
  /\ UNCHANGED <<heap, shown, scrape>>

-----------------------------------------------------------------------------
(* Collect.  A series whose file no member could read is left out.         *)

When(read, series) == IF read THEN series ELSE {}

Series(s) ==
  {<<"num_procs", s.numProcs>>, <<"zombies", s.zombies>>,
   <<"fd_coverage", s.fdsRead>>, <<"io_coverage", s.ioRead>>, <<"pss_coverage", s.pssRead>>,
   <<"cpu_seconds", s.accum.cnt["cpu"]>>, <<"ctx_switches", s.accum.cnt["ctx"]>>}
  \cup When(s.pssRead > 0, {<<"pss_bytes", s.pss>>})
  \cup When(s.fdsRead > 0, {<<"open_fds", s.openFDs>>})
  \cup When(s.fdsRead > 0 /\ s.maxFDs > 0,
            {<<"max_fds", s.maxFDs>>, <<"worst_fd_ratio", s.worst>>})
  \cup When(s.ioRead > 0, {<<"io_bytes", s.accum.cnt["io"]>>})

Row(a, i) == <<heap[a].list[i], Series(heap[a].groups[heap[a].list[i]])>>

\* Before the first Publish there is nothing to emit, and Collect returns.
BeginCollect ==
  /\ ~scrape.on
  /\ shown # Nil
  /\ scrape' = [on |-> TRUE, at |-> shown, rows |-> <<>>]
  /\ UNCHANGED <<heap, shown, self, pub>>

Collecting == scrape.on /\ Len(scrape.rows) < Len(heap[scrape.at].list)

\* Mistake: the pointer is loaded again for each group.
CollectRowReloading ==
  /\ Collecting
  /\ Len(scrape.rows) < Len(heap[shown].list)
  /\ scrape' = [scrape EXCEPT !.rows = Append(@, Row(shown, Len(@) + 1))]
  /\ UNCHANGED <<heap, shown, self, pub>>

CollectRow ==
  /\ Collecting
  /\ scrape' = [scrape EXCEPT !.rows = Append(@, Row(scrape.at, Len(@) + 1))]
  /\ UNCHANGED <<heap, shown, self, pub>>

EndCollect(others) ==
  /\ scrape.on
  /\ ~Collecting
  /\ scrape' = NoScrape
  /\ heap' = Reachable(heap, {shown} \cup others)
  /\ UNCHANGED <<shown, self, pub>>

=============================================================================
