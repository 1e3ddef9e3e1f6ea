------------------------------ MODULE UserCache ------------------------------
(***************************************************************************)
(* internal/procfs/system.go, UserCache: names of users, cached beside a   *)
(* system whose accounts come, go and are renamed.                         *)
(*                                                                         *)
(* The scanner calls Name while the reload handler calls Refresh.  One     *)
(* action is one critical section of the mutex or one read of the system   *)
(* outside of it.  Every text is kept with the version of the account it   *)
(* was read from, the number of its changes so far, which is history.      *)
(***************************************************************************)
EXTENDS Naturals

CONSTANTS
  UIDS,        \* user ids of processes
  Names,       \* names an account may have
  Remote,      \* UIDs whose accounts LookupId finds and /etc/passwd has not
  PasswdFails, \* whether /etc/passwd may be unreadable
  LookupFails, \* whether LookupId may fail for an account that exists
  MaxChanges   \* bound: changes of one account

NoAccount == "none"

ASSUME UserCacheAssumption ==
  Remote \subseteq UIDS /\ NoAccount \notin Names /\ MaxChanges \in Nat

VARIABLES
  account, \* UID -> [name, version]; its name, or NoAccount
  byUID,   \* UserCache.byUID: UID -> [text, version]
  lookup,  \* a Name under way: its next step, its UID, what it found
  refresh, \* a Refresh under way: its next step, the map it has built
  floor,   \* history: UID -> version when the last Refresh read the file
  crossed  \* history: UIDs stored by a Name that a Refresh has overtaken

vars == <<account, byUID, lookup, refresh, floor, crossed>>

\* What Name returns: the name of the account, or uid:NNNN.
Text(u) == IF account[u].name = NoAccount THEN <<"uid", u>> ELSE <<"name", account[u].name>>

Entry(u) == [text |-> Text(u), version |-> account[u].version]

\* What Name makes of an account it could not read.
Unread(u) == [text |-> <<"uid", u>>, version |-> account[u].version]

\* What Refresh makes of /etc/passwd.
PasswdMap == [u \in {v \in UIDS \ Remote : account[v].name # NoAccount} |-> Entry(u)]

EmptyMap == [u \in {} |-> Entry(u)]

Versions == [u \in UIDS |-> account[u].version]

Idle == [step |-> "idle"]

\* NewUserCache has called Refresh.
Init ==
  /\ account \in [UIDS -> [name : Names \cup {NoAccount}, version : {0}]]
  /\ byUID = PasswdMap
  /\ lookup = Idle
  /\ refresh = Idle
  /\ floor = Versions
  /\ crossed = {}

-----------------------------------------------------------------------------

\* The administrator creates, renames or deletes an account.
Change(u) ==
  /\ account[u].version < MaxChanges
  /\ \E n \in Names \cup {NoAccount} :
       /\ n # account[u].name
       /\ account' = [account EXCEPT ![u] = [name |-> n, version |-> @.version + 1]]
  /\ UNCHANGED <<byUID, lookup, refresh, floor, crossed>>

(***************************************************************************)
(* Name.  A hit returns what is cached and changes nothing.  After a miss  *)
(* the lock is released, LookupId asks the system, and what Name makes of  *)
(* the answer is stored: uid:NNNN when there is no such account, and just  *)
(* so when there is one and the system could not say.                      *)
(***************************************************************************)
NameMisses(u) ==
  /\ lookup = Idle
  /\ u \notin DOMAIN byUID
  /\ lookup' = [step |-> "ask", uid |-> u]
  /\ UNCHANGED <<account, byUID, refresh, floor, crossed>>

LookupId ==
  /\ lookup.step = "ask"
  /\ \E e \in {Entry(lookup.uid)} \cup IF LookupFails THEN {Unread(lookup.uid)} ELSE {} :
       lookup' = [step |-> "store", uid |-> lookup.uid, found |-> e, late |-> FALSE]
  /\ UNCHANGED <<account, byUID, refresh, floor, crossed>>

\* Mistake: only an entry that exists is replaced.
NameReplaces ==
  /\ lookup.step = "store"
  /\ byUID' = [u \in DOMAIN byUID |-> IF u = lookup.uid THEN lookup.found ELSE byUID[u]]
  /\ crossed' = IF lookup.late THEN crossed \cup {lookup.uid} ELSE crossed \ {lookup.uid}
  /\ lookup' = Idle
  /\ UNCHANGED <<account, refresh, floor>>

NameStores ==
  /\ lookup.step = "store"
  /\ byUID' = [u \in DOMAIN byUID \cup {lookup.uid} |->
                 IF u = lookup.uid THEN lookup.found ELSE byUID[u]]
  /\ crossed' = IF lookup.late THEN crossed \cup {lookup.uid} ELSE crossed \ {lookup.uid}
  /\ lookup' = Idle
  /\ UNCHANGED <<account, refresh, floor>>

(***************************************************************************)
(* Refresh: the file is read outside the lock, then the map is replaced.   *)
(* A file that cannot be read leaves an empty map.                         *)
(***************************************************************************)
RefreshReads ==
  /\ refresh = Idle
  /\ \E m \in {PasswdMap} \cup IF PasswdFails THEN {EmptyMap} ELSE {} :
       refresh' = [step |-> "swap", m |-> m, versions |-> Versions]
  /\ UNCHANGED <<account, byUID, lookup, floor, crossed>>

\* A lookup that has its answer is overtaken.
Overtaken == IF lookup.step = "store" THEN [lookup EXCEPT !.late = TRUE] ELSE lookup

\* Mistake: what the file does not have is left in the map.
RefreshMerges ==
  /\ refresh.step = "swap"
  /\ byUID' = [u \in DOMAIN byUID \cup DOMAIN refresh.m |->
                 IF u \in DOMAIN refresh.m THEN refresh.m[u] ELSE byUID[u]]
  /\ floor' = refresh.versions
  /\ crossed' = {}
  /\ lookup' = Overtaken
  /\ refresh' = Idle
  /\ UNCHANGED account

RefreshSwaps ==
  /\ refresh.step = "swap"
  /\ byUID' = refresh.m
  /\ floor' = refresh.versions
  /\ crossed' = {}
  /\ lookup' = Overtaken
  /\ refresh' = Idle
  /\ UNCHANGED account

Next ==
  \/ \E u \in UIDS : Change(u) \/ NameMisses(u)
  \/ LookupId \/ NameStores
  \/ RefreshReads \/ RefreshSwaps

Spec == Init /\ [][Next]_vars

(***************************************************************************)
(* A lookup and a refresh that have begun end: the lock is held for one    *)
(* access of the map and the system answers.  No change of an account, no  *)
(* lookup and no reload is assumed to happen.                              *)
(***************************************************************************)
FairSpec == Spec /\ WF_vars(LookupId \/ NameStores) /\ WF_vars(RefreshSwaps)

-----------------------------------------------------------------------------
(* Correctness.                                                            *)

\* Shape of the state.
TypeOK ==
  /\ account \in [UIDS -> [name : Names \cup {NoAccount}, version : 0..MaxChanges]]
  /\ DOMAIN byUID \subseteq UIDS
  /\ \A u \in DOMAIN byUID : byUID[u].version <= account[u].version
  /\ lookup.step \in {"idle", "ask", "store"}
  /\ refresh.step \in {"idle", "swap"}
  /\ crossed \subseteq DOMAIN byUID

(***************************************************************************)
(* A reload makes names fresh: nothing in the cache is older than the last *)
(* Refresh, except what a lookup stores that had asked before the Refresh  *)
(* took effect (Name, Refresh).                                            *)
(***************************************************************************)
FreshSinceRefresh ==
  \A u \in DOMAIN byUID \ crossed : byUID[u].version >= floor[u]

(***************************************************************************)
(* Even so no name is stale for ever: once the accounts stay as they are,  *)
(* and as long as reloads keep coming, the cache ends without the name an  *)
(* account no longer has, whatever lookups are under way and whatever      *)
(* fails (Name, Refresh).  It may have uid:NNNN for an account that        *)
(* exists: a lookup that fails is cached like any other, and may fail      *)
(* again after each reload.  The bound MaxChanges makes accounts settle.   *)
(***************************************************************************)
NamesSettle ==
  []<>(refresh.step = "swap") =>
    <>[](\A u \in DOMAIN byUID : byUID[u].text \in {Text(u), <<"uid", u>>})

=============================================================================
