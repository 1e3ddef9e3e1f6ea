------------------------------- MODULE Server -------------------------------
(***************************************************************************)
(* internal/api: the handlers, which read what is published, and Run with  *)
(* its listener, from the first request to the end of the shutdown.        *)
(*                                                                         *)
(* /metrics is the scrape of Registry and /groups the request here; both   *)
(* may be under way at once, and a client may be as slow as it likes.      *)
(* /stats, /readyz, /livez and /config look at one value and answer, so    *)
(* they are operators or left out.                                         *)
(***************************************************************************)
EXTENDS Registry

CONSTANT Sorts \* values of the parameter sort of /groups

VARIABLES
  req,       \* a /groups request: its pointer and its own list
  srv,       \* Run: "serving", "draining", "returned"
  lis,       \* the goroutine that listens: "accepting", "sending", "done"
  errCh,     \* the channel between them, of capacity 1
  cancelled  \* ctx is done

runVars == <<srv, lis, errCh, cancelled>>
serverVars == <<req, runVars>>

NoRequest == [on |-> FALSE, at |-> Nil, list |-> <<>>, sorted |-> FALSE]

ServerInit ==
  /\ req = NoRequest
  /\ srv = "serving"
  /\ lis = "accepting"
  /\ errCh = <<>>
  /\ cancelled = FALSE

-----------------------------------------------------------------------------
(* /groups: load the pointer and copy the list, sort the copy, answer.     *)

\* Whether group j must come before group k; rss and name sort alike.
Before(by, groups, j, k) ==
  CASE by = "procs" -> groups[j].numProcs > groups[k].numProcs
    [] by = "fds"   -> groups[j].openFDs > groups[k].openFDs
    [] by = "cpu"   -> groups[j].accum.cnt["cpu"] > groups[k].accum.cnt["cpu"]

\* sort.Slice is not stable: any order without an inversion.
SortedBy(by, groups, list) ==
  {s \in SetToSeqs(ToSet(list)) :
     \A i, j \in DOMAIN s : i < j => ~Before(by, groups, s[j], s[i])}

\* Before the first Publish the answer is an error and nothing is loaded.
GroupsLoad ==
  /\ lis = "accepting"
  /\ ~req.on
  /\ shown # Nil
  /\ req' = [on |-> TRUE, at |-> shown, list |-> heap[shown].list, sorted |-> FALSE]
  /\ UNCHANGED <<registryVars, runVars>>

\* Mistake: the list of the snapshot is sorted, not a copy.
GroupsSortInPlace ==
  /\ req.on /\ ~req.sorted
  /\ \E by \in Sorts : \E s \in SortedBy(by, heap[req.at].groups, req.list) :
       /\ req' = [req EXCEPT !.list = s, !.sorted = TRUE]
       /\ heap' = [heap EXCEPT ![req.at].list = s]
  /\ UNCHANGED <<shown, self, pub, scrape, runVars>>

GroupsSort ==
  /\ req.on /\ ~req.sorted
  /\ \E by \in Sorts : \E s \in SortedBy(by, heap[req.at].groups, req.list) :
       req' = [req EXCEPT !.list = s, !.sorted = TRUE]
  /\ UNCHANGED <<registryVars, runVars>>

GroupsAnswer ==
  /\ req.on /\ req.sorted
  /\ req' = NoRequest
  /\ heap' = Reachable(heap, {shown, scrape.at})
  /\ UNCHANGED <<shown, self, pub, scrape, runVars>>

\* The scrape, which the server accepts as long as it accepts anything.
Scrape ==
  /\ \/ lis = "accepting" /\ BeginCollect
     \/ CollectRow
     \/ EndCollect({req.at})
  /\ UNCHANGED serverVars

\* /stats: the figures of the one snapshot it loaded.
Stats ==
  [ scans     |-> heap[shown].number,
    namesSeen |-> heap[shown].names ]

\* /readyz: counters exist from the second scan on.
Ready == shown # Nil /\ heap[shown].number >= 2

-----------------------------------------------------------------------------
(* Run and the goroutine that listens.                                     *)

\* ListenAndServe returns: it failed, or Shutdown closed the listener.
ListenerEnds ==
  /\ lis = "accepting"
  /\ lis' = "sending"
  /\ UNCHANGED <<registryVars, req, srv, errCh, cancelled>>

\* Mistake: without a buffer the send waits for Run, which may be gone.
ListenerSendsUnbuffered ==
  /\ lis = "sending"
  /\ srv = "serving"
  /\ errCh = <<>>
  /\ errCh' = <<"err">>
  /\ lis' = "done"
  /\ UNCHANGED <<registryVars, req, srv, cancelled>>

ListenerSends ==
  /\ lis = "sending"
  /\ errCh = <<>>
  /\ errCh' = <<"err">>
  /\ lis' = "done"
  /\ UNCHANGED <<registryVars, req, srv, cancelled>>

Cancel ==
  /\ ~cancelled
  /\ cancelled' = TRUE
  /\ UNCHANGED <<registryVars, req, srv, lis, errCh>>

\* Run's select.
RunReturnsErr ==
  /\ srv = "serving"
  /\ errCh # <<>>
  /\ srv' = "returned"
  /\ errCh' = <<>>
  /\ UNCHANGED <<registryVars, req, lis, cancelled>>

\* Shutdown closes the listener at once, then waits.
BeginShutdown ==
  /\ srv = "serving"
  /\ cancelled
  /\ srv' = "draining"
  /\ lis' = IF lis = "accepting" THEN "sending" ELSE lis
  /\ UNCHANGED <<registryVars, req, errCh, cancelled>>

Drained == ~scrape.on /\ ~req.on

\* Mistake: Shutdown waits for the requests however long they take.
EndShutdownPatiently ==
  /\ srv = "draining"
  /\ Drained
  /\ srv' = "returned"
  /\ UNCHANGED <<registryVars, req, lis, errCh, cancelled>>

\* Shutdown returns when the last request is answered or after ten seconds.
EndShutdown ==
  /\ srv = "draining"
  /\ srv' = "returned"
  /\ UNCHANGED <<registryVars, req, lis, errCh, cancelled>>

=============================================================================
