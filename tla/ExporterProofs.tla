--------------------------- MODULE ExporterProofs ---------------------------
(***************************************************************************)
(* What holds of Exporter for all results, sorts and bounds, however the   *)
(* loop, the naming changes and the readers interleave.                    *)
(***************************************************************************)
EXTENDS Exporter, AggregatorProofs, SequenceTheorems

(***************************************************************************)
(* Addresses grow: what is shown is the newest, everybody who holds a      *)
(* pointer holds one that was shown, and what Publish will store next is   *)
(* from a scan no older than the one that is shown.                        *)
(***************************************************************************)
HeapInv ==
  /\ shown \in Nat /\ scans \in Nat /\ snap.number \in Nat
  /\ snap.number <= scans
  /\ DOMAIN heap \subseteq 1..shown
  /\ shown # Nil => /\ shown \in DOMAIN heap
                    /\ heap[shown].number \in Nat
                    /\ heap[shown].number <= snap.number

LEMMA HeapInit == Init => HeapInv
BY DEF Init, HeapInv, AggregatorInit, RegistryInit, NoSnapshot, Nil

-----------------------------------------------------------------------------
(* The three kinds of steps.                                               *)

\* The registry is left alone; the aggregator may have a newer snapshot.
Away ==
  /\ UNCHANGED <<heap, shown>>
  /\ \/ UNCHANGED <<scans, snap>>
     \/ scans' = scans + 1 /\ snap'.number = scans + 1

\* Publish stores the aggregator's snapshot at a new address.
Stores ==
  /\ UNCHANGED <<scans, snap>>
  /\ shown' = shown + 1
  /\ heap' = [a \in DOMAIN heap' |-> IF a = shown' THEN snap ELSE heap[a]]
  /\ DOMAIN heap' \subseteq DOMAIN heap \cup {shown'}
  /\ shown' \in DOMAIN heap'

\* A reader lets go of its pointer.
Drops ==
  /\ UNCHANGED <<scans, snap, shown>>
  /\ DOMAIN heap' \subseteq DOMAIN heap
  /\ shown \in DOMAIN heap => shown \in DOMAIN heap'
  /\ heap' = [a \in DOMAIN heap' |-> heap[a]]

\* A step of the server publishes nothing.
LEMMA ServerKinds ==
  ASSUME ServerStep, UNCHANGED aggregatorVars
  PROVE  Away \/ Drops
<1>1. UNCHANGED <<scans, snap>>
  BY DEF aggregatorVars
<1>2. ASSUME NEW roots, shown \in roots, shown' = shown, heap' = Reachable(heap, roots)
      PROVE  Drops
  <2>1. DOMAIN heap' = DOMAIN heap \cap roots
    BY <1>2 DEF Reachable
  <2>2. heap' = [a \in DOMAIN heap' |-> heap[a]]
    BY <1>2, <2>1 DEF Reachable
  <2> QED
    BY <1>1, <1>2, <2>1, <2>2 DEF Drops
<1>3. CASE GroupsLoad
  BY <1>1, <1>3 DEF GroupsLoad, registryVars, Away
<1>4. CASE GroupsSort
  BY <1>1, <1>4 DEF GroupsSort, registryVars, Away
<1>5. CASE GroupsAnswer
  BY <1>2, <1>5 DEF GroupsAnswer
<1>6. CASE Scrape
  <2>1. CASE BeginCollect \/ CollectRow
    BY <1>1, <2>1 DEF BeginCollect, CollectRow, Away
  <2>2. CASE EndCollect({req.at})
    BY <1>2, <2>2 DEF EndCollect
  <2> QED
    BY <1>6, <2>1, <2>2 DEF Scrape
<1>7. CASE RunStep \/ ListenerEnds \/ Cancel
  BY <1>1, <1>7 DEF RunStep, ListenerSends, RunReturnsErr, BeginShutdown, EndShutdown,
                    ListenerEnds, Cancel, registryVars, Away
<1> QED
  BY <1>3, <1>4, <1>5, <1>6, <1>7 DEF ServerStep

LEMMA StepKinds == [Next]_vars => Away \/ Stores \/ Drops
<1> SUFFICES ASSUME [Next]_vars PROVE Away \/ Stores \/ Drops
  OBVIOUS
<1>1. CASE ScanAndApply
  <2>1. UNCHANGED registryVars
    BY <1>1 DEF ScanAndApply
  <2>2. PICK r \in Results : Apply(WithDeltas(r.procs), r.errs)
    BY <1>1 DEF ScanAndApply
  <2>3. scans' = scans + 1 /\ snap'.number = scans'
    BY <2>2 DEF Apply
  <2> QED
    BY <2>1, <2>3 DEF Away, registryVars
<1>2. CASE StartPublish
  <2>1. StoreSnapshot({req.at}) /\ UNCHANGED <<scans, snap>>
    BY <1>2 DEF StartPublish, aggregatorVars
  <2>2. /\ shown' = shown + 1
        /\ DOMAIN heap' = (DOMAIN heap \cup {shown'}) \cap ({shown', scrape.at} \cup {req.at})
        /\ \A a \in DOMAIN heap' : heap'[a] = IF a = shown' THEN snap ELSE heap[a]
        /\ heap' = [a \in DOMAIN heap' |-> heap'[a]]
    BY <2>1 DEF StoreSnapshot, Reachable
  <2>3. heap' = [a \in DOMAIN heap' |-> IF a = shown' THEN snap ELSE heap[a]]
    BY <2>2
  <2> QED
    BY <2>1, <2>2, <2>3 DEF Stores
<1>3. CASE GoOnPublishing
  BY <1>3 DEF GoOnPublishing, SetSelf, Away, aggregatorVars
<1>4. CASE NamingChange \/ Clock
  BY <1>4 DEF NamingChange, Reset, Clock, Away, aggregatorVars, registryVars
<1>5. CASE ServerStep /\ UNCHANGED <<now, aggregatorVars, loopVars>>
  BY <1>5, ServerKinds
<1>6. CASE UNCHANGED vars
  BY <1>6 DEF vars, aggregatorVars, registryVars, Away
<1> QED
  BY <1>1, <1>2, <1>3, <1>4, <1>5, <1>6 DEF Next, Halted

-----------------------------------------------------------------------------

LEMMA HeapStep == HeapInv /\ [Next]_vars => HeapInv'
<1> SUFFICES ASSUME HeapInv, Away \/ Stores \/ Drops PROVE HeapInv'
  BY StepKinds
<1> USE DEF HeapInv, Nil
<1>1. CASE Away
  BY <1>1 DEF Away
<1>2. CASE Stores
  <2>1. heap'[shown'] = snap
    BY <1>2 DEF Stores
  <2>2. DOMAIN heap' \subseteq 1..shown'
    BY <1>2 DEF Stores
  <2> QED
    BY <1>2, <2>1, <2>2 DEF Stores
<1>3. CASE Drops
  <2>1. shown # Nil => heap'[shown] = heap[shown]
    BY <1>3 DEF Drops
  <2> QED
    BY <1>3, <2>1 DEF Drops
<1> QED
  BY <1>1, <1>2, <1>3

LEMMA HeapCorrect == Spec => []HeapInv
BY HeapInit, HeapStep, PTL DEF Spec

\* What a reader holds a pointer to never changes under it, whatever the loop,
\* a naming change and the other handlers do (Registry, handleGroups).
THEOREM FrozenCorrect == Spec => PublishedFrozen
<1>1. HeapInv /\ [Next]_vars =>
        [\A a \in DOMAIN heap \cap DOMAIN heap' : heap'[a] = heap[a]]_vars
  <2> SUFFICES ASSUME HeapInv, Away \/ Stores \/ Drops, NEW a \in DOMAIN heap \cap DOMAIN heap'
               PROVE  heap'[a] = heap[a]
    BY StepKinds
  <2>1. CASE Away
    BY <2>1 DEF Away
  <2>2. CASE Stores
    <3>1. a # shown'
      BY <2>2 DEF Stores, HeapInv
    <3> QED
      BY <2>2, <3>1 DEF Stores
  <2>3. CASE Drops
    BY <2>3 DEF Drops
  <2> QED
    BY <2>1, <2>2, <2>3
<1> QED
  BY <1>1, HeapCorrect, PTL DEF Spec, PublishedFrozen

-----------------------------------------------------------------------------
(* The rounds of the loop, against the scrape and the request under way.   *)

\* The n-th snapshot is published at address n, one round after the other.
Rounds ==
  /\ loop \in {"scan", "store", "publishing"}
  /\ scans \in Nat /\ shown \in Nat
  /\ shown = IF loop = "store" THEN scans - 1 ELSE scans
  /\ snap.number = scans
  /\ scans > 0 => Listed(snap)
  /\ \A a \in DOMAIN heap : heap[a].number = a /\ Listed(heap[a])

\* What of Publish is still to be done, and what is done already.
Published ==
  /\ pub \in IF loop = "publishing"
            THEN {PublishOrder, <<"namesSeen", "readErrs">>, <<"readErrs">>}
            ELSE {<<>>}
  /\ DOMAIN self = {"scans", "namesSeen", "readErrs"}
  /\ self.scans = IF pub = PublishOrder THEN shown - 1 ELSE shown
  /\ shown # Nil /\ pub \in {<<"readErrs">>, <<>>} => self.namesSeen = heap[shown].names

\* The snapshots that are kept are the ones somebody can reach.
Pointers ==
  /\ DOMAIN scrape = {"on", "at", "rows"} /\ (scrape.on <=> scrape.at # Nil)
  /\ DOMAIN req = {"on", "at", "list", "sorted"} /\ (req.on <=> req.at # Nil)
  /\ {scrape.at, req.at} \subseteq 0..shown
  /\ DOMAIN heap = {shown, scrape.at, req.at} \ {Nil}

RowsOf(a, n) == [i \in 1..n |-> Row(a, i)]

\* A scrape has emitted the first rows of its snapshot, in order.
Rows ==
  /\ scrape.on => \E n \in 0..Len(heap[scrape.at].list) : scrape.rows = RowsOf(scrape.at, n)
  /\ ~scrape.on => scrape.rows = <<>>

\* Run is told of the end of its listener.
Told ==
  /\ srv \in {"serving", "draining", "returned"}
  /\ lis \in {"accepting", "sending", "done"}
  /\ srv = "serving" => lis = "accepting" \/ errCh # <<>> \/ lis = "sending"

ExporterInv == AggregatorTypeOK /\ Rounds /\ Published /\ Pointers /\ Rows /\ Told

LEMMA ExporterInit == Init => ExporterInv
<1> SUFFICES ASSUME Init PROVE ExporterInv
  OBVIOUS
<1> USE DEF Init, AggregatorInit, RegistryInit, ServerInit, Nil
<1>1. AggregatorTypeOK
  BY AggregatorAssumption DEF AggregatorTypeOK, NoSnapshot
<1>2. Rounds /\ Rows /\ Told
  BY DEF Rounds, Rows, Told, NoSnapshot, NoScrape
<1>3. Pointers
  BY DEF Pointers, NoScrape, NoRequest
<1>4. Published
  BY DEF Published, NoSelf, PublishOrder
<1> QED
  BY <1>1, <1>2, <1>3, <1>4 DEF ExporterInv

LEMMA RowsGrow ==
  ASSUME NEW a, NEW n \in Nat
  PROVE  Len(RowsOf(a, n)) = n /\ Append(RowsOf(a, n), Row(a, n + 1)) = RowsOf(a, n + 1)
<1> DEFINE V == {Row(a, i) : i \in 1..n + 1}
<1>1. RowsOf(a, n) \in [1..n -> V] /\ Row(a, n + 1) \in V
  BY DEF RowsOf
<1>2. RowsOf(a, n) \in Seq(V) /\ Len(RowsOf(a, n)) = n
  BY <1>1
<1> DEFINE t == Append(RowsOf(a, n), Row(a, n + 1))
<1> HIDE DEF V
<1>3. /\ t \in Seq(V) /\ Len(t) = n + 1
      /\ \A i \in 1..n : t[i] = RowsOf(a, n)[i]
      /\ t[n + 1] = Row(a, n + 1)
  BY <1>1, <1>2, AppendProperties
<1>4. t = [i \in 1..n + 1 |-> t[i]]
  BY <1>3
<1>5. \A i \in 1..n : RowsOf(a, n)[i] = Row(a, i)
  BY DEF RowsOf
<1> HIDE DEF t
<1>6. \A i \in 1..n + 1 : t[i] = Row(a, i)
  BY <1>3, <1>5
<1>7. t = [i \in 1..n + 1 |-> Row(a, i)]
  BY <1>4, <1>6
<1> QED
  BY <1>2, <1>7 DEF RowsOf, t

\* What a scrape has emitted depends on its snapshot only.
LEMMA RowsKept ==
  ASSUME Rows, UNCHANGED scrape, scrape.on => heap'[scrape.at] = heap[scrape.at]
  PROVE  Rows'
<1>1. ASSUME scrape.on, NEW n \in 0..Len(heap[scrape.at].list),
             scrape.rows = RowsOf(scrape.at, n)
      PROVE  scrape.rows = RowsOf(scrape.at, n)'
  <2>1. \A i : Row(scrape.at, i)' = Row(scrape.at, i)
    BY <1>1 DEF Row
  <2> QED
    BY <1>1, <2>1 DEF RowsOf
<1> QED
  BY <1>1 DEF Rows

-----------------------------------------------------------------------------
(* The steps of the loop.                                                  *)

\* What a scan returns can be added up.
LEMMA ResultCountable == \A r \in Results : Countable(WithDeltas(r.procs))
<1> SUFFICES ASSUME NEW r \in Results PROVE Countable(WithDeltas(r.procs))
  OBVIOUS
<1>1. ASSUME NEW p \in DOMAIN r.procs PROVE WithDeltas(r.procs)[p].d = r.procs[p].d
  <2>1. {"haveDeltas", "d"} \subseteq DOMAIN r.procs[p]
    BY ExporterAssumption
  <2> QED
    BY <2>1 DEF WithDeltas
<1>2. DOMAIN WithDeltas(r.procs) = DOMAIN r.procs
  BY DEF WithDeltas
<1>3. IsFiniteSet(DOMAIN r.procs) /\ \A p \in DOMAIN r.procs : r.procs[p].d \in CounterValues
  BY ExporterAssumption
<1> QED
  BY <1>1, <1>2, <1>3 DEF Countable

LEMMA ScanStepInv == ExporterInv /\ ScanAndApply => ExporterInv'
<1> SUFFICES ASSUME ExporterInv, ScanAndApply PROVE ExporterInv'
  OBVIOUS
<1> USE DEF ExporterInv
<1>1. PICK r \in Results : Apply(WithDeltas(r.procs), r.errs)
  BY DEF ScanAndApply
<1>2. Countable(WithDeltas(r.procs))
  BY ResultCountable
<1>3. /\ UNCHANGED <<now, heap, shown, self, pub, scrape, req, srv, lis, errCh, cancelled>>
      /\ loop = "scan" /\ loop' = "store"
  BY DEF ScanAndApply, registryVars, serverVars, runVars
<1>4. AggregatorTypeOK'
  BY <1>1, <1>2, <1>3, ApplyType
<1>5. Rounds'
  <2>1. scans' = scans + 1 /\ snap'.number = scans'
    BY <1>1, ApplyShape
  <2>2. Listed(snap')
    BY <1>1, <1>2, ApplyLists DEF Countable
  <2> QED
    BY <1>3, <2>1, <2>2 DEF Rounds
<1>6. Published' /\ Pointers' /\ Told'
  BY <1>3 DEF Published, Pointers, Told
<1>7. Rows'
  BY <1>3, RowsKept
<1> QED
  BY <1>4, <1>5, <1>6, <1>7

LEMMA StoreInv == ExporterInv /\ StartPublish => ExporterInv'
<1> SUFFICES ASSUME ExporterInv, StartPublish PROVE ExporterInv'
  OBVIOUS
<1> USE DEF ExporterInv, Nil
<1>1. /\ UNCHANGED <<now, accums, namesSeen, scans, snap, self, scrape,
                     req, srv, lis, errCh, cancelled>>
      /\ loop = "store" /\ loop' = "publishing" /\ pub' = PublishOrder
      /\ shown' = shown + 1
  BY DEF StartPublish, StoreSnapshot, aggregatorVars, serverVars, runVars
<1>2. /\ DOMAIN heap' = (DOMAIN heap \cup {shown'}) \cap {shown', scrape.at, req.at}
      /\ \A a \in DOMAIN heap' : heap'[a] = IF a = shown' THEN snap ELSE heap[a]
  BY DEF StartPublish, StoreSnapshot, Reachable
<1>3. AggregatorTypeOK'
  BY <1>1 DEF AggregatorTypeOK
<1>4. Pointers'
  BY <1>1, <1>2 DEF Pointers, Rounds
<1>5. Rounds'
  BY <1>1, <1>2 DEF Rounds
<1>6. Published'
  <2>1. pub = <<>> /\ PublishOrder # <<>>
    BY <1>1 DEF Published, PublishOrder
  <2>2. self.scans = shown /\ PublishOrder \notin {<<"readErrs">>, <<>>}
    BY <2>1 DEF Published, PublishOrder
  <2> QED
    BY <1>1, <2>2 DEF Published, Rounds
<1>7. Rows'
  <2>1. scrape.on => scrape.at \in DOMAIN heap' /\ scrape.at # shown'
    BY <1>1, <1>2 DEF Pointers, Rounds
  <2> QED
    BY <1>1, <1>2, <2>1, RowsKept
<1>8. Told'
  BY <1>1 DEF Told
<1> QED
  BY <1>3, <1>4, <1>5, <1>6, <1>7, <1>8

LEMMA PublishInv == ExporterInv /\ GoOnPublishing => ExporterInv'
<1> SUFFICES ASSUME ExporterInv, GoOnPublishing PROVE ExporterInv'
  OBVIOUS
<1> USE DEF ExporterInv
<1>1. /\ UNCHANGED <<now, accums, namesSeen, scans, snap, heap, shown, scrape,
                     req, srv, lis, errCh, cancelled>>
      /\ loop = "publishing" /\ pub' = Tail(pub)
      /\ loop' = IF pub' = <<>> THEN "scan" ELSE loop
      /\ self' = [self EXCEPT ![Head(pub)] = SelfValue(Head(pub))]
  BY DEF GoOnPublishing, SetSelf, aggregatorVars, serverVars, runVars
<1>2. AggregatorTypeOK' /\ Pointers' /\ Told'
  BY <1>1 DEF AggregatorTypeOK, Pointers, Told
<1>3. Rows'
  BY <1>1, RowsKept
<1>4. Rounds'
  BY <1>1 DEF Rounds
<1>5. Published'
  <2>1. CASE pub = PublishOrder
    <3>1. Head(pub) = "scans" /\ pub' = <<"namesSeen", "readErrs">>
      BY <1>1, <2>1 DEF PublishOrder
    <3>2. self' = [self EXCEPT !["scans"] = self.scans + 1]
      BY <1>1, <3>1 DEF SelfValue
    <3>3. self'.scans = shown /\ DOMAIN self' = DOMAIN self
      BY <2>1, <3>2 DEF Published, Rounds
    <3>4. pub' # PublishOrder /\ pub' \notin {<<"readErrs">>, <<>>}
      BY <3>1 DEF PublishOrder
    <3> QED
      BY <1>1, <3>1, <3>3, <3>4 DEF Published
  <2>2. CASE pub = <<"namesSeen", "readErrs">>
    <3>1. Head(pub) = "namesSeen" /\ pub' = <<"readErrs">>
      BY <1>1, <2>2
    <3>2. self' = [self EXCEPT !["namesSeen"] = heap[shown].names]
      BY <1>1, <3>1 DEF SelfValue
    <3> QED
      BY <1>1, <2>2, <3>1, <3>2 DEF Published, PublishOrder
  <2>3. CASE pub = <<"readErrs">>
    <3>1. Head(pub) = "readErrs" /\ pub' = <<>>
      BY <1>1, <2>3
    <3>2. self'.scans = self.scans /\ self'.namesSeen = self.namesSeen /\ DOMAIN self' = DOMAIN self
      BY <1>1, <3>1 DEF Published
    <3> QED
      BY <1>1, <2>3, <3>1, <3>2 DEF Published, PublishOrder
  <2> QED
    BY <1>1, <2>1, <2>2, <2>3 DEF Published
<1> QED
  BY <1>2, <1>3, <1>4, <1>5

LEMMA ClockInv == ExporterInv /\ Clock => ExporterInv'
<1> SUFFICES ASSUME ExporterInv, Clock PROVE ExporterInv'
  OBVIOUS
<1> USE DEF ExporterInv
<1>1. /\ UNCHANGED <<accums, namesSeen, scans, snap, heap, shown, self, pub, scrape,
                     req, srv, lis, errCh, loop>>
      /\ now' = now + 1 /\ now < MaxClock
  BY DEF Clock, Tick, aggregatorVars, registryVars, serverVars, runVars, loopVars
<1>2. AggregatorTypeOK'
  <2>1. now' \in 0..MaxClock /\ snap.at \in 0..now'
    BY <1>1, AggregatorAssumption DEF AggregatorTypeOK
  <2>2. \A k \in DOMAIN accums :
          accums[k].cnt \in [Counter -> 0..MaxSum] /\ accums[k].last \in 0..now'
    BY <1>1, AggregatorAssumption DEF AggregatorTypeOK
  <2> QED
    BY <1>1, <2>1, <2>2 DEF AggregatorTypeOK
<1>3. Rounds' /\ Published' /\ Pointers' /\ Told'
  BY <1>1 DEF Rounds, Published, Pointers, Told
<1>4. Rows'
  BY <1>1, RowsKept
<1> QED
  BY <1>2, <1>3, <1>4

LEMMA ChangeInv == ExporterInv /\ NamingChange => ExporterInv'
<1> SUFFICES ASSUME ExporterInv, NamingChange PROVE ExporterInv'
  OBVIOUS
<1> USE DEF ExporterInv
<1>1. /\ UNCHANGED <<now, scans, snap, heap, shown, self, pub, scrape,
                     req, srv, lis, errCh, cancelled, loop>>
      /\ DOMAIN accums' = {}
  BY DEF NamingChange, Reset, registryVars, serverVars, runVars
<1>2. AggregatorTypeOK' /\ Rounds' /\ Published' /\ Pointers' /\ Told'
  BY <1>1 DEF AggregatorTypeOK, Rounds, Published, Pointers, Told
<1>3. Rows'
  BY <1>1, RowsKept
<1> QED
  BY <1>2, <1>3

-----------------------------------------------------------------------------
(* The steps of the server.                                                *)

\* The loop stands still, and nothing a pointer leads to changes.
Aside ==
  /\ UNCHANGED <<now, accums, namesSeen, scans, snap, shown, self, pub, loop>>
  /\ \A a \in DOMAIN heap' : heap'[a] = heap[a]
  /\ DOMAIN heap' \subseteq DOMAIN heap

LEMMA AsideInv ==
  ASSUME AggregatorTypeOK, Rounds, Published, Pointers, Pointers', Aside
  PROVE  AggregatorTypeOK' /\ Rounds' /\ Published'
<1> USE DEF Aside
<1>1. AggregatorTypeOK'
  BY DEF AggregatorTypeOK
<1>2. Rounds'
  BY DEF Rounds
<1>3. Published'
  <2>1. shown # Nil => heap'[shown] = heap[shown]
    BY DEF Pointers, Nil
  <2> QED
    BY <2>1 DEF Published, Nil
<1> QED
  BY <1>1, <1>2, <1>3

LEMMA RequestInv ==
  ASSUME ExporterInv, UNCHANGED <<now, aggregatorVars, loopVars>>,
         GroupsLoad \/ GroupsSort \/ GroupsAnswer
  PROVE  ExporterInv'
<1> USE DEF ExporterInv, Nil
<1>1. UNCHANGED <<now, accums, namesSeen, scans, snap, shown, self, pub, scrape, loop, runVars>>
  BY DEF GroupsLoad, GroupsSort, GroupsAnswer, aggregatorVars, registryVars, loopVars
<1>2. Aside /\ Pointers'
  <2>1. CASE GroupsLoad
    BY <1>1, <2>1 DEF GroupsLoad, registryVars, Pointers, Rounds, Aside
  <2>2. CASE GroupsSort
    <3>1. heap' = heap /\ req'.on = req.on /\ req'.at = req.at /\ DOMAIN req' = DOMAIN req
      BY <2>2 DEF GroupsSort, registryVars, Pointers
    <3>2. Aside
      BY <1>1, <3>1 DEF Aside
    <3>3. Pointers'
      BY <1>1, <3>1 DEF Pointers
    <3> QED
      BY <3>2, <3>3
  <2>3. CASE GroupsAnswer
    <3>1. req' = NoRequest /\ heap' = Reachable(heap, {shown, scrape.at})
      BY <2>3 DEF GroupsAnswer
    <3>2. Aside
      BY <1>1, <3>1 DEF Reachable, Aside
    <3>3. ~req'.on /\ req'.at = Nil /\ DOMAIN req' = DOMAIN req
      BY <3>1 DEF NoRequest, Pointers
    <3>4. Pointers'
      BY <1>1, <3>1, <3>3 DEF Reachable, Pointers, Rounds
    <3> QED
      BY <3>2, <3>4
  <2> QED
    BY <2>1, <2>2, <2>3
<1>3. Rows'
  <2>1. scrape.on => scrape.at \in DOMAIN heap'
    BY <1>1, <1>2 DEF Pointers
  <2> QED
    BY <1>1, <1>2, <2>1, RowsKept DEF Aside
<1>4. Told'
  BY <1>1 DEF Told, runVars
<1> QED
  BY <1>2, <1>3, <1>4, AsideInv

LEMMA ScrapeInv ==
  ASSUME ExporterInv, UNCHANGED <<now, aggregatorVars, loopVars>>, Scrape
  PROVE  ExporterInv'
<1> USE DEF ExporterInv, Nil
<1>1. /\ UNCHANGED <<now, accums, namesSeen, scans, snap, shown, self, pub, loop, req, runVars>>
      /\ \/ BeginCollect
         \/ CollectRow
         \/ EndCollect({req.at})
  BY DEF Scrape, BeginCollect, CollectRow, EndCollect, aggregatorVars, serverVars, loopVars
<1>2. Told'
  BY <1>1 DEF Told, runVars
<1>3. CASE BeginCollect
  <2>1. /\ heap' = heap /\ shown # Nil /\ ~scrape.on
        /\ scrape' = [on |-> TRUE, at |-> shown, rows |-> <<>>]
    BY <1>3 DEF BeginCollect
  <2>2. Aside /\ Pointers'
    <3>1. Aside
      BY <1>1, <2>1 DEF Aside
    <3>2. scrape'.on /\ scrape'.at = shown /\ DOMAIN scrape' = DOMAIN scrape
      BY <2>1 DEF Pointers
    <3>3. shown \in 0..shown
      BY DEF Rounds
    <3>4. Pointers'
      BY <1>1, <2>1, <3>2, <3>3 DEF Pointers
    <3> QED
      BY <3>1, <3>4
  <2>3. Rows'
    <3>1. shown \in DOMAIN heap
      BY <2>1 DEF Pointers
    <3>2. Len(heap[shown].list) \in Nat
      BY <3>1, LenProperties DEF Rounds, Listed
    <3>3. RowsOf(scrape.at, 0)' = <<>>
      BY DEF RowsOf
    <3> QED
      BY <2>1, <3>2, <3>3 DEF Rows
  <2> QED
    BY <1>2, <2>2, <2>3, AsideInv
<1>4. CASE CollectRow
  <2>1. /\ heap' = heap /\ Collecting
        /\ scrape' = [scrape EXCEPT !.rows =
                        Append(scrape.rows, Row(scrape.at, Len(scrape.rows) + 1))]
    BY <1>4 DEF CollectRow
  <2>2. /\ scrape'.on = scrape.on /\ scrape'.at = scrape.at /\ DOMAIN scrape' = DOMAIN scrape
        /\ scrape'.rows = Append(scrape.rows, Row(scrape.at, Len(scrape.rows) + 1))
    BY <2>1 DEF Pointers
  <2>3. Aside /\ Pointers'
    BY <1>1, <2>1, <2>2 DEF Pointers, Aside
  <2>4. Rows'
    <3>1. PICK n \in 0..Len(heap[scrape.at].list) : scrape.rows = RowsOf(scrape.at, n)
      BY <2>1 DEF Rows, Collecting
    <3>2. scrape.at \in DOMAIN heap
      BY <2>1 DEF Collecting, Pointers
    <3>3. Len(heap[scrape.at].list) \in Nat
      BY <3>2, LenProperties DEF Rounds, Listed
    <3>4. n + 1 \in 0..Len(heap[scrape.at].list) /\ scrape'.rows = RowsOf(scrape.at, n + 1)
      <4>1. n \in Nat /\ Len(scrape.rows) = n
        BY <3>1, <3>3, RowsGrow
      <4>2. n < Len(heap[scrape.at].list)
        BY <2>1, <4>1 DEF Collecting
      <4>3. scrape'.rows = Append(RowsOf(scrape.at, n), Row(scrape.at, n + 1))
        BY <2>2, <3>1, <4>1
      <4>4. Append(RowsOf(scrape.at, n), Row(scrape.at, n + 1)) = RowsOf(scrape.at, n + 1)
        BY <4>1, RowsGrow
      <4> QED
        BY <3>3, <4>1, <4>2, <4>3, <4>4
    <3>5. RowsOf(scrape.at, n + 1)' = RowsOf(scrape.at, n + 1)
      <4>1. heap' = heap /\ scrape'.at = scrape.at
        BY <2>1, <2>2
      <4> QED
        BY <4>1 DEF RowsOf, Row
    <3> QED
      BY <2>1, <2>2, <3>4, <3>5 DEF Rows, Collecting
  <2> QED
    BY <1>2, <2>3, <2>4, AsideInv
<1>5. CASE EndCollect({req.at})
  <2>1. scrape' = NoScrape /\ heap' = Reachable(heap, {shown, req.at})
    BY <1>5 DEF EndCollect
  <2>2. Aside /\ Pointers'
    <3>1. Aside
      BY <1>1, <2>1 DEF Reachable, Aside
    <3>2. Pointers'
      <4>1. DOMAIN heap = {shown, scrape.at, req.at} \ {Nil}
        BY DEF Pointers
      <4>2. DOMAIN heap' = DOMAIN heap \cap {shown, req.at}
        BY <2>1 DEF Reachable
      <4>3. scrape'.at = Nil /\ ~scrape'.on /\ DOMAIN scrape' = {"on", "at", "rows"}
        BY <2>1 DEF NoScrape
      <4>4. DOMAIN heap' = {shown, scrape'.at, req.at} \ {Nil}
        BY <4>1, <4>2, <4>3
      <4>5. shown' = shown /\ req' = req
        BY <1>1, <1>5 DEF EndCollect
      <4>6. Nil \in 0..shown
        BY DEF Rounds, Nil
      <4> QED
        BY <4>3, <4>4, <4>5, <4>6 DEF Pointers
    <3> QED
      BY <3>1, <3>2
  <2>3. Rows'
    BY <2>1 DEF Rows, NoScrape
  <2> QED
    BY <1>2, <2>2, <2>3, AsideInv
<1> QED
  BY <1>1, <1>3, <1>4, <1>5

LEMMA RunInv ==
  ASSUME ExporterInv, UNCHANGED <<now, aggregatorVars, loopVars>>,
         RunStep \/ ListenerEnds \/ Cancel
  PROVE  ExporterInv'
<1> USE DEF ExporterInv
<1>1. UNCHANGED <<now, accums, namesSeen, scans, snap, heap, shown, self, pub, scrape, loop, req>>
  BY DEF RunStep, ListenerSends, RunReturnsErr, BeginShutdown, EndShutdown, ListenerEnds,
         Cancel, aggregatorVars, registryVars, loopVars
<1>2. Aside /\ Pointers'
  BY <1>1 DEF Aside, Pointers
<1>3. Rows'
  BY <1>1, RowsKept
<1>4. Told'
  BY DEF RunStep, ListenerSends, RunReturnsErr, BeginShutdown, EndShutdown, ListenerEnds,
         Cancel, Told
<1> QED
  BY <1>2, <1>3, <1>4, AsideInv

LEMMA ExporterStep == ExporterInv /\ [Next]_vars => ExporterInv'
<1> SUFFICES ASSUME ExporterInv, [Next]_vars PROVE ExporterInv'
  OBVIOUS
<1>1. CASE UNCHANGED vars
  <2>1. UNCHANGED <<now, accums, namesSeen, scans, snap, heap, shown, self, pub, scrape, loop,
                    req, srv, lis, errCh>>
    BY <1>1 DEF vars, aggregatorVars, registryVars, serverVars, runVars, loopVars
  <2>2. Aside /\ Pointers' /\ Told'
    BY <2>1 DEF Aside, ExporterInv, Pointers, Told
  <2> QED
    BY <2>1, <2>2, RowsKept, AsideInv DEF ExporterInv
<1>2. CASE ServerStep /\ UNCHANGED <<now, aggregatorVars, loopVars>>
  BY <1>2, RequestInv, ScrapeInv, RunInv DEF ServerStep
<1> QED
  BY <1>1, <1>2, ScanStepInv, StoreInv, PublishInv, ChangeInv, ClockInv DEF Next, Halted

LEMMA ExporterCorrect == Spec => []ExporterInv
BY ExporterInit, ExporterStep, PTL DEF Spec

-----------------------------------------------------------------------------

\* The shape of the state: totals bounded and named, snapshots numbered and
\* kept exactly while somebody points at them, Publish under way exactly while
\* the loop publishes, and no Run left waiting for a listener that has gone.
THEOREM TypeCorrect == Spec => []TypeOK
<1>1. ExporterInv => TypeOK
  <2> SUFFICES ASSUME ExporterInv PROVE TypeOK
    OBVIOUS
  <2> USE DEF ExporterInv
  <2>1. shown <= scans /\ DOMAIN heap = {shown, scrape.at, req.at} \ {Nil}
    BY DEF Rounds, Pointers
  <2>2. ToSet(pub) \subseteq DOMAIN self
    BY DEF Published, PublishOrder, ToSet
  <2>3. pub # <<>> <=> loop = "publishing"
    BY DEF Published, PublishOrder
  <2> QED
    BY <2>1, <2>2, <2>3 DEF TypeOK, RegistryTypeOK, Told
<1> QED
  BY <1>1, ExporterCorrect, PTL

\* A scrape is of one snapshot, each group of it once, whatever is published
\* while it goes on (Publish, Collect).
THEOREM ScrapeCorrect == Spec => []ScrapeWhole
<1>1. ExporterInv => ScrapeWhole
  <2> SUFFICES ASSUME ExporterInv PROVE ScrapeWhole
    OBVIOUS
  <2> USE DEF ExporterInv
  <2>1. CASE ~scrape.on
    BY <2>1 DEF ScrapeWhole, Rows
  <2>2. CASE scrape.on
    <3> DEFINE s == heap[scrape.at]
    <3>1. PICK n \in 0..Len(s.list) : scrape.rows = RowsOf(scrape.at, n)
      BY <2>2 DEF Rows
    <3>2. Listed(s)
      BY <2>2 DEF Pointers, Rounds
    <3>3. Len(s.list) \in Nat
      BY <3>2, LenProperties DEF Listed
    <3>4. /\ DOMAIN scrape.rows = 1..n /\ Len(scrape.rows) = n
          /\ \A i \in 1..n : scrape.rows[i] = Row(scrape.at, i) /\ scrape.rows[i][1] = s.list[i]
      <4>1. n \in Nat /\ Len(scrape.rows) = n
        BY <3>1, <3>3, RowsGrow
      <4>2. DOMAIN scrape.rows = 1..n /\ \A i \in 1..n : scrape.rows[i] = Row(scrape.at, i)
        BY <3>1 DEF RowsOf
      <4>3. \A i \in 1..n : Row(scrape.at, i)[1] = s.list[i]
        BY DEF Row
      <4> QED
        BY <4>1, <4>2, <4>3
    <3>5. ASSUME ~Collecting
          PROVE  /\ Len(scrape.rows) = Cardinality(DOMAIN s.groups)
                 /\ {scrape.rows[i][1] : i \in DOMAIN scrape.rows} = DOMAIN s.groups
      <4>1. n = Len(s.list)
        BY <2>2, <3>3, <3>4, <3>5 DEF Collecting
      <4> QED
        BY <3>2, <3>4, <4>1 DEF Listed
    <3> QED
      BY <3>4, <3>5 DEF ScrapeWhole
  <2> QED
    BY <2>1, <2>2
<1> QED
  BY <1>1, ExporterCorrect, PTL

\* /metrics and /stats tell of the same scan once Publish is done, naming
\* changes or not, and never of a later one before (Publish, handleStats).
THEOREM SelfCorrect == Spec => []SelfMetricsAgree
<1>1. ExporterInv => SelfMetricsAgree
  <2> SUFFICES ASSUME ExporterInv PROVE SelfMetricsAgree
    OBVIOUS
  <2> USE DEF ExporterInv
  <2>1. DOMAIN Stats = {"scans", "namesSeen"} /\ Stats.scans = heap[shown].number
        /\ Stats.namesSeen = heap[shown].names
    BY DEF Stats
  <2>2. shown # Nil => heap[shown].number = shown /\ shown \in Nat
    BY DEF Pointers, Rounds
  <2>3. shown # Nil => self.scans <= Stats.scans
    BY <2>1, <2>2 DEF Published
  <2>4. pub = <<>> => pub # PublishOrder /\ pub \in {<<"readErrs">>, <<>>}
    BY DEF PublishOrder
  <2>5. pub = <<>> /\ shown # Nil => self["scans"] = shown /\ self["namesSeen"] = heap[shown].names
    BY <2>4 DEF Published
  <2> QED
    BY <2>1, <2>2, <2>3, <2>5 DEF SelfMetricsAgree
<1> QED
  BY <1>1, ExporterCorrect, PTL

-----------------------------------------------------------------------------
(* From one snapshot to a newer one.                                       *)

\* Nothing that s has at time t can have been forgotten since.
Within(s, t) == Retention <= 0 \/ t - s.at <= Retention

Timed(s, t) ==
  s.at \in 0..t /\ \A k \in DOMAIN s.groups : s.groups[k].accum.cnt \in CounterValues

\* The totals of acc, at time t, go on from what s shows.
GoesOnFrom(s, acc, t) ==
  Within(s, t) =>
    \A k \in DOMAIN s.groups :
      /\ k \in DOMAIN acc /\ s.at <= acc[k].last
      /\ \A c \in Counter : s.groups[k].accum.cnt[c] <= acc[k].cnt[c]

\* What r shows is no less than what s does.
NoLess(s, r) ==
  Within(s, r.at) =>
    \A k \in DOMAIN s.groups \cap DOMAIN r.groups, c \in Counter :
      s.groups[k].accum.cnt[c] <= r.groups[k].accum.cnt[c]

Eras ==
  /\ changes \in Nat /\ era \in Seq(Nat) /\ Len(era) = scans
  /\ \A i \in 1..scans : era[i] <= changes

\* The snapshots of the current era against the totals, and each against the
\* newer ones of its era, the one that is not published yet included.
OnwardInv ==
  /\ Eras
  /\ \A a \in DOMAIN heap : Timed(heap[a], now)
  /\ \A a \in DOMAIN heap : era[a] = changes => GoesOnFrom(heap[a], accums, now)
  /\ \A a, b \in DOMAIN heap : a <= b /\ era[a] = era[b] => NoLess(heap[a], heap[b])
  /\ loop = "store" =>
       /\ era[scans] = changes /\ Timed(snap, now) /\ GoesOnFrom(snap, accums, now)
       /\ \A a \in DOMAIN heap : era[a] = changes => NoLess(heap[a], snap)

LEMMA NoLessItself ==
  \A s, t : Timed(s, t) => NoLess(s, s)
BY DEF Timed, NoLess, CounterValues

\* A round: what a snapshot shows of a group is added to and not forgotten.
LEMMA RoundGoesOn ==
  \A s, acc, procs, t :
    /\ t \in Nat /\ Counts(acc) /\ Countable(procs)
    /\ \A k \in DOMAIN acc : acc[k].last \in 0..t
    /\ Timed(s, t) /\ GoesOnFrom(s, acc, t)
    => LET new == Accumulate(acc, procs, t)
       IN  /\ GoesOnFrom(s, PruneAccums(new, t), t)
           /\ Within(s, t) =>
                \A k \in DOMAIN s.groups, c \in Counter :
                  k \in DOMAIN new /\ s.groups[k].accum.cnt[c] <= new[k].cnt[c]
<1> SUFFICES ASSUME NEW s, NEW acc, NEW procs, NEW t \in Nat, Counts(acc), Countable(procs),
                    \A k \in DOMAIN acc : acc[k].last \in 0..t,
                    Timed(s, t), GoesOnFrom(s, acc, t), Within(s, t),
                    NEW k \in DOMAIN s.groups
             PROVE  LET new == Accumulate(acc, procs, t)
                    IN  /\ k \in DOMAIN PruneAccums(new, t)
                        /\ s.at <= PruneAccums(new, t)[k].last
                        /\ k \in DOMAIN new
                        /\ \A c \in Counter :
                             /\ s.groups[k].accum.cnt[c] <= PruneAccums(new, t)[k].cnt[c]
                             /\ s.groups[k].accum.cnt[c] <= new[k].cnt[c]
  BY DEF GoesOnFrom
<1> DEFINE new == Accumulate(acc, procs, t)
<1>1. /\ k \in DOMAIN acc /\ s.at <= acc[k].last
      /\ \A c \in Counter : s.groups[k].accum.cnt[c] <= acc[k].cnt[c]
  BY DEF GoesOnFrom
<1>2. /\ k \in DOMAIN new /\ new[k].cnt \in CounterValues
      /\ \A c \in Counter : new[k].cnt[c] >= acc[k].cnt[c]
      /\ k \notin Keys(procs) => new[k] = acc[k]
  <2>1. DOMAIN new = DOMAIN acc \cup Keys(procs)
    BY DEF Accumulate
  <2>2. Counts(new)
    BY AccumulateGrows
  <2>3. \A c \in Counter : new[k].cnt[c] >= acc[k].cnt[c]
    BY <1>1, AccumulateGrows
  <2>4. k \notin Keys(procs) => new[k] = acc[k]
    BY <1>1 DEF Accumulate
  <2> HIDE DEF new
  <2> QED
    BY <1>1, <2>1, <2>2, <2>3, <2>4 DEF Counts
<1>3. new[k].last = acc[k].last \/ new[k].last = t
  BY <1>2, AccumulateSeen
<1> HIDE DEF new
<1>4. s.at \in 0..t /\ s.groups[k].accum.cnt \in CounterValues /\ acc[k].last \in 0..t
  BY <1>1 DEF Timed
<1>5. s.at <= new[k].last /\ new[k].last \in 0..t
  BY <1>1, <1>3, <1>4
<1>6. acc[k].cnt \in CounterValues
  BY <1>1 DEF Counts
<1>7. \A c \in Counter : s.groups[k].accum.cnt[c] <= new[k].cnt[c]
  BY <1>1, <1>2, <1>4, <1>6 DEF CounterValues
<1>8. Retention <= 0 \/ t - new[k].last <= Retention
  BY <1>4, <1>5, AggregatorAssumption DEF Within
<1>9. k \in DOMAIN PruneAccums(new, t) /\ PruneAccums(new, t)[k] = new[k]
  BY <1>2, <1>8, PruneAll
<1> QED
  BY <1>2, <1>5, <1>7, <1>9 DEF new

LEMMA OnwardInit == Init => OnwardInv
BY DEF Init, AggregatorInit, RegistryInit, OnwardInv, Eras

LEMMA OnwardAside ==
  ASSUME OnwardInv, UNCHANGED <<now, accums, scans, changes, era>>,
         \A a \in DOMAIN heap' : a \in DOMAIN heap /\ heap'[a] = heap[a],
         loop' # "store" \/ UNCHANGED <<loop, snap>>
  PROVE  OnwardInv'
<1>1. Eras'
  BY DEF OnwardInv, Eras
<1>2. \A a \in DOMAIN heap' :
        /\ Timed(heap'[a], now)
        /\ era[a] = changes => GoesOnFrom(heap'[a], accums, now)
        /\ \A b \in DOMAIN heap' : a <= b /\ era[a] = era[b] => NoLess(heap'[a], heap'[b])
  BY DEF OnwardInv
<1>3. loop' = "store" =>
        /\ era[scans] = changes /\ Timed(snap', now) /\ GoesOnFrom(snap', accums, now)
        /\ \A a \in DOMAIN heap' : era[a] = changes => NoLess(heap'[a], snap')
  BY DEF OnwardInv
<1> QED
  BY <1>1, <1>2, <1>3 DEF OnwardInv

\* The totals are what the new snapshot shows, and more than any of the era did.
LEMMA OnwardScan == ExporterInv /\ OnwardInv /\ ScanAndApply => OnwardInv'
<1> SUFFICES ASSUME ExporterInv, OnwardInv, ScanAndApply PROVE OnwardInv'
  OBVIOUS
<1>1. PICK r \in Results :
        Apply(WithDeltas(r.procs), r.errs) /\ Countable(WithDeltas(r.procs))
  BY ResultCountable DEF ScanAndApply
<1> DEFINE procs == WithDeltas(r.procs)
           new == Accumulate(accums, procs, now)
<1> HIDE DEF procs
<1>2. /\ UNCHANGED <<now, heap, changes>> /\ loop' = "store" /\ loop = "scan"
      /\ era' = Append(era, changes)
  BY DEF ScanAndApply, registryVars
<1>3. /\ scans' = scans + 1 /\ accums' = PruneAccums(new, now)
      /\ snap'.at = now /\ DOMAIN snap'.groups = Keys(procs)
      /\ \A k \in Keys(procs) : snap'.groups[k].accum = new[k]
  BY <1>1, ApplyShape DEF procs
<1>4. /\ now \in Nat /\ Counts(accums) /\ \A k \in DOMAIN accums : accums[k].last \in 0..now
  BY AggregatorAssumption DEF ExporterInv, AggregatorTypeOK, Counts, CounterValues
<1>5. scans \in Nat /\ DOMAIN heap \subseteq 1..scans
  BY <1>2 DEF ExporterInv, Rounds, Pointers, Nil
<1>6. Eras' /\ \A i \in 1..scans : era'[i] = era[i]
  <2>1. /\ era \in Seq(Nat) /\ changes \in Nat /\ Len(era) = scans
        /\ \A i \in 1..scans : era[i] <= changes
    BY DEF OnwardInv, Eras
  <2>2. /\ era' \in Seq(Nat) /\ Len(era') = scans + 1
        /\ \A i \in 1..scans : era'[i] = era[i]
        /\ era'[scans + 1] = changes
    BY <1>2, <2>1, AppendProperties
  <2>3. \A i \in 1..scans + 1 : era'[i] <= changes
    BY <1>5, <2>1, <2>2
  <2> QED
    BY <1>2, <1>3, <2>1, <2>2, <2>3 DEF Eras
<1>7. era'[scans'] = changes
  BY <1>2, <1>3, AppendProperties DEF OnwardInv, Eras
<1>8. \A a \in DOMAIN heap : era'[a] = era[a]
  BY <1>5, <1>6
<1>9. \A k \in Keys(procs) :
        k \in DOMAIN new /\ new[k].last = now /\ new[k].cnt \in CounterValues
  <2>1. Countable(procs)
    BY <1>1 DEF procs
  <2>2. Counts(new)
    BY <1>4, <2>1, AccumulateGrows
  <2>3. \A k \in Keys(procs) : k \in DOMAIN new /\ new[k].last = now
    BY AccumulateSeen
  <2> HIDE DEF new
  <2> QED
    BY <2>2, <2>3 DEF Counts
<1>10. ASSUME NEW a \in DOMAIN heap, era[a] = changes
       PROVE  /\ GoesOnFrom(heap[a], accums', now)
              /\ Within(heap[a], now) =>
                   \A k \in DOMAIN heap[a].groups, c \in Counter :
                     k \in DOMAIN new /\ heap[a].groups[k].accum.cnt[c] <= new[k].cnt[c]
  <2>1. Timed(heap[a], now) /\ GoesOnFrom(heap[a], accums, now)
    BY <1>10 DEF OnwardInv
  <2>2. Countable(procs)
    BY <1>1 DEF procs
  <2> QED
    BY <1>3, <1>4, <2>1, <2>2, RoundGoesOn
<1> HIDE DEF new
<1>11. Timed(snap', now)
  BY <1>3, <1>4, <1>9 DEF Timed
<1>12. GoesOnFrom(snap', accums', now)
  <2>1. ASSUME NEW k \in Keys(procs) PROVE k \in DOMAIN accums' /\ accums'[k] = new[k]
    <3>1. now - new[k].last = 0
      BY <1>4, <1>9
    <3>2. k \in DOMAIN accums'
      BY <1>3, <1>9, <3>1, PruneKeeps
    <3> QED
      BY <1>3, <3>2, PruneKeeps
  <2>2. \A k \in Keys(procs), c \in Counter : new[k].cnt[c] <= new[k].cnt[c]
    BY <1>9 DEF CounterValues
  <2>3. now <= now
    BY <1>4
  <2> QED
    BY <1>3, <1>9, <2>1, <2>2, <2>3 DEF GoesOnFrom
<1>13. ASSUME NEW a \in DOMAIN heap, era[a] = changes PROVE NoLess(heap[a], snap')
  BY <1>3, <1>10, <1>13 DEF NoLess
<1>14. \A a \in DOMAIN heap' : Timed(heap'[a], now')
  BY <1>2 DEF OnwardInv
<1>15. \A a, b \in DOMAIN heap' : a <= b /\ era'[a] = era'[b] => NoLess(heap'[a], heap'[b])
  <2>1. \A a, b \in DOMAIN heap : a <= b /\ era[a] = era[b] => NoLess(heap[a], heap[b])
    BY DEF OnwardInv
  <2>2. ASSUME NEW a \in DOMAIN heap', NEW b \in DOMAIN heap', a <= b, era'[a] = era'[b]
        PROVE  NoLess(heap'[a], heap'[b])
    <3>1. heap' = heap /\ era[a] = era[b]
      BY <1>2, <1>8, <2>2
    <3>2. heap'[a] = heap[a] /\ heap'[b] = heap[b]
      BY <3>1
    <3>3. NoLess(heap[a], heap[b])
      BY <2>1, <2>2, <3>1
    <3> QED
      BY <3>2, <3>3
  <2> QED
    BY <2>2
<1>16. \A a \in DOMAIN heap' :
         era'[a] = changes' => GoesOnFrom(heap'[a], accums', now') /\ NoLess(heap'[a], snap')
  BY <1>2, <1>8, <1>10, <1>13
<1>17. Timed(snap', now') /\ GoesOnFrom(snap', accums', now') /\ era'[scans'] = changes'
  BY <1>2, <1>7, <1>11, <1>12
<1> QED
  BY <1>6, <1>14, <1>15, <1>16, <1>17 DEF OnwardInv

\* What is published is the newest, and no less than what of its era is kept.
LEMMA OnwardStore == ExporterInv /\ OnwardInv /\ StartPublish => OnwardInv'
<1> SUFFICES ASSUME ExporterInv, OnwardInv, StartPublish PROVE OnwardInv'
  OBVIOUS
<1>1. /\ UNCHANGED <<now, accums, scans, changes, era>>
      /\ loop = "store" /\ loop' = "publishing" /\ shown' = shown + 1
  BY DEF StartPublish, StoreSnapshot, aggregatorVars
<1>2. /\ DOMAIN heap' \subseteq DOMAIN heap \cup {shown'}
      /\ \A a \in DOMAIN heap' : heap'[a] = IF a = shown' THEN snap ELSE heap[a]
  BY DEF StartPublish, StoreSnapshot, Reachable
<1>3. /\ shown \in Nat /\ scans \in Nat /\ shown' = scans
      /\ \A a \in DOMAIN heap : a \in Nat /\ a < shown'
  BY <1>1 DEF ExporterInv, Rounds, Pointers, Nil
<1>4. /\ era[scans] = changes /\ Timed(snap, now) /\ GoesOnFrom(snap, accums, now)
      /\ \A a \in DOMAIN heap : era[a] = changes => NoLess(heap[a], snap)
  BY <1>1 DEF OnwardInv
<1>5. Eras'
  BY <1>1 DEF OnwardInv, Eras
<1>6. ASSUME NEW a \in DOMAIN heap'
      PROVE  /\ Timed(heap'[a], now')
             /\ era'[a] = changes' => GoesOnFrom(heap'[a], accums', now')
  <2>1. CASE a = shown'
    BY <1>1, <1>2, <1>4, <2>1
  <2>2. CASE a # shown'
    <3>1. a \in DOMAIN heap /\ heap'[a] = heap[a]
      BY <1>2, <2>2
    <3>2. Timed(heap[a], now) /\ (era[a] = changes => GoesOnFrom(heap[a], accums, now))
      BY <3>1 DEF OnwardInv
    <3> QED
      BY <1>1, <3>1, <3>2
  <2> QED
    BY <2>1, <2>2
<1>7. ASSUME NEW a \in DOMAIN heap', NEW b \in DOMAIN heap', a <= b, era'[a] = era'[b]
      PROVE  NoLess(heap'[a], heap'[b])
  <2>1. CASE a = shown'
    <3>1. b = shown'
      BY <1>2, <1>3, <1>7, <2>1
    <3>2. heap'[a] = snap /\ heap'[b] = snap
      BY <1>2, <2>1, <3>1
    <3> QED
      BY <1>4, <3>2, NoLessItself
  <2>2. CASE a # shown' /\ b = shown'
    <3>1. a \in DOMAIN heap /\ heap'[a] = heap[a] /\ heap'[b] = snap
      BY <1>2, <2>2
    <3>2. era[a] = changes
      BY <1>1, <1>3, <1>4, <1>7, <2>2
    <3>3. NoLess(heap[a], snap)
      BY <1>4, <3>1, <3>2
    <3> QED
      BY <3>1, <3>3
  <2>3. CASE a # shown' /\ b # shown'
    <3>1. /\ a \in DOMAIN heap /\ heap'[a] = heap[a]
          /\ b \in DOMAIN heap /\ heap'[b] = heap[b]
      BY <1>2, <2>3
    <3>2. NoLess(heap[a], heap[b])
      BY <1>1, <1>7, <3>1 DEF OnwardInv
    <3> QED
      BY <3>1, <3>2
  <2> QED
    BY <2>1, <2>2, <2>3
<1> QED
  BY <1>1, <1>5, <1>6, <1>7 DEF OnwardInv

\* A new era: no snapshot is of it yet.
LEMMA OnwardChange == ExporterInv /\ OnwardInv /\ NamingChange => OnwardInv'
<1> SUFFICES ASSUME ExporterInv, OnwardInv, NamingChange PROVE OnwardInv'
  OBVIOUS
<1>1. UNCHANGED <<now, scans, heap, era>> /\ loop' = "scan" /\ changes' = changes + 1
  BY DEF NamingChange, Reset, registryVars
<1>2. Eras' /\ \A i \in 1..scans : era[i] # changes'
  BY <1>1 DEF OnwardInv, Eras
<1>3. DOMAIN heap \subseteq 1..scans
  BY DEF ExporterInv, Rounds, Pointers, NamingChange, Nil
<1>4. \A a \in DOMAIN heap : Timed(heap[a], now) /\ era[a] # changes'
  BY <1>2, <1>3 DEF OnwardInv
<1>5. \A a, b \in DOMAIN heap : a <= b /\ era[a] = era[b] => NoLess(heap[a], heap[b])
  BY DEF OnwardInv
<1> QED
  BY <1>1, <1>2, <1>4, <1>5 DEF OnwardInv

\* What cannot have been forgotten by then cannot have been before.
LEMMA OnwardClock == ExporterInv /\ OnwardInv /\ Clock => OnwardInv'
<1> SUFFICES ASSUME ExporterInv, OnwardInv, Clock PROVE OnwardInv'
  OBVIOUS
<1>1. /\ UNCHANGED <<accums, scans, heap, changes, era>> /\ loop' = "scan"
      /\ now' = now + 1 /\ now \in Nat
  BY AggregatorAssumption
  DEF Clock, Tick, aggregatorVars, registryVars, loopVars, ExporterInv, AggregatorTypeOK
<1>2. Eras'
  BY <1>1 DEF OnwardInv, Eras
<1>3. ASSUME NEW a \in DOMAIN heap
      PROVE  /\ Timed(heap[a], now')
             /\ era[a] = changes => GoesOnFrom(heap[a], accums, now')
  <2>1. Timed(heap[a], now) /\ (era[a] = changes => GoesOnFrom(heap[a], accums, now))
    BY DEF OnwardInv
  <2>2. Timed(heap[a], now')
    BY <1>1, <2>1 DEF Timed
  <2>3. Within(heap[a], now') => Within(heap[a], now)
    BY <1>1, <2>1, AggregatorAssumption DEF Timed, Within
  <2> QED
    BY <2>1, <2>2, <2>3 DEF GoesOnFrom
<1>4. \A a, b \in DOMAIN heap : a <= b /\ era[a] = era[b] => NoLess(heap[a], heap[b])
  BY DEF OnwardInv
<1> QED
  BY <1>1, <1>2, <1>3, <1>4 DEF OnwardInv

\* The loop goes on with Publish or the server takes a step.
LEMMA OnwardElse ==
  ASSUME OnwardInv,
         \/ GoOnPublishing
         \/ ServerStep /\ UNCHANGED <<now, aggregatorVars, loopVars>>
         \/ UNCHANGED vars
  PROVE  OnwardInv'
<1>1. UNCHANGED <<now, accums, scans, snap, changes, era>>
  BY DEF GoOnPublishing, vars, aggregatorVars, loopVars
<1>2. loop' # "store" \/ UNCHANGED loop
  BY DEF GoOnPublishing, vars, loopVars
<1>3. \A a \in DOMAIN heap' : a \in DOMAIN heap /\ heap'[a] = heap[a]
  <2>1. CASE GoOnPublishing \/ UNCHANGED vars
    BY <2>1 DEF GoOnPublishing, SetSelf, vars, registryVars
  <2>2. CASE ServerStep /\ UNCHANGED <<now, aggregatorVars, loopVars>>
    BY <2>2, ServerKinds DEF Away, Drops
  <2> QED
    BY <2>1, <2>2
<1> QED
  BY <1>1, <1>2, <1>3, OnwardAside

LEMMA OnwardStep == ExporterInv /\ OnwardInv /\ [Next]_vars => OnwardInv'
BY OnwardScan, OnwardStore, OnwardChange, OnwardClock, OnwardElse DEF Next, Halted, vars

\* From one snapshot to a newer one no counter falls, for all results, however
\* many snapshots a reader has missed and whatever the retention, unless the
\* totals were emptied between or the group may have been forgotten (Collect,
\* Publish, accumulate, prune, Reset).
THEOREM OnwardCorrect == Spec => []CountersOnward
<1>1. OnwardInv => CountersOnward
  BY DEF OnwardInv, NoLess, Within, CountersOnward, OneRecord
<1> QED
  BY <1>1, OnwardInit, OnwardStep, ExporterCorrect, PTL DEF Spec

=============================================================================
