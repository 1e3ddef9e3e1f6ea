--------------------------- MODULE UserCacheProofs ---------------------------
(***************************************************************************)
(* What holds of UserCache for every set of users, names and changes, and  *)
(* however lookups and refreshes cross.                                    *)
(***************************************************************************)
EXTENDS UserCache, TLAPS

\* What was read of an account.
Texts == {<<"uid", u>> : u \in UIDS} \cup {<<"name", n>> : n \in Names}
Found == [text : Texts, version : Nat]

Lookups ==
  {Idle} \cup [step : {"ask"}, uid : UIDS]
         \cup [step : {"store"}, uid : UIDS, found : Found, late : BOOLEAN]

-----------------------------------------------------------------------------
(* The inductive invariant.                                                *)

\* Nothing was read of an account that is newer than the account.
ReadEarlier ==
  /\ account \in [UIDS -> [name : Names \cup {NoAccount}, version : 0..MaxChanges]]
  /\ floor \in [UIDS -> Nat]
  /\ \A u \in UIDS : floor[u] <= account[u].version
  /\ DOMAIN byUID \subseteq UIDS
  /\ \A u \in DOMAIN byUID :
       byUID[u].version \in Nat /\ byUID[u].version <= account[u].version

\* An answer that no Refresh has overtaken was asked for after the last one.
LookupTimely ==
  /\ lookup \in Lookups
  /\ lookup.step = "store" =>
       /\ lookup.found.version <= account[lookup.uid].version
       /\ lookup.late \/ lookup.found.version >= floor[lookup.uid]

\* The map a Refresh has built is that of one moment, which is not before the
\* last Refresh.
RefreshTimely ==
  /\ refresh.step \in {"idle", "swap"}
  /\ refresh.step = "swap" =>
       /\ refresh.versions \in [UIDS -> Nat]
       /\ \A u \in UIDS : /\ floor[u] <= refresh.versions[u]
                          /\ refresh.versions[u] <= account[u].version
       /\ DOMAIN refresh.m \subseteq UIDS
       /\ \A u \in DOMAIN refresh.m : refresh.m[u].version = refresh.versions[u]

Inv ==
  /\ ReadEarlier
  /\ LookupTimely
  /\ RefreshTimely
  /\ crossed \subseteq DOMAIN byUID
  /\ FreshSinceRefresh

LEMMA InvImplies == Inv => TypeOK /\ FreshSinceRefresh
BY DEF Inv, TypeOK, ReadEarlier, LookupTimely, RefreshTimely, Lookups, Idle

\* What is made of an account, read or not, is a text and its version.
LEMMA EntryFound ==
  ASSUME ReadEarlier, NEW u \in UIDS, NEW e \in {Entry(u), Unread(u)}
  PROVE  e \in Found /\ e.version = account[u].version
<1>1. account[u].name \in Names \cup {NoAccount} /\ account[u].version \in Nat
  BY UserCacheAssumption DEF ReadEarlier
<1>2. Text(u) \in Texts
  BY <1>1 DEF Text, Texts
<1>3. <<"uid", u>> \in Texts
  BY DEF Texts
<1> QED
  BY <1>1, <1>2, <1>3 DEF Entry, Unread, Found

LEMMA InvInit == Init => Inv
<1> SUFFICES ASSUME Init PROVE Inv
  OBVIOUS
<1> USE UserCacheAssumption
<1>1. account \in [UIDS -> [name : Names \cup {NoAccount}, version : 0..MaxChanges]]
  <2>1. [name : Names \cup {NoAccount}, version : {0}]
          \subseteq [name : Names \cup {NoAccount}, version : 0..MaxChanges]
    OBVIOUS
  <2> QED
    BY <2>1 DEF Init
<1>2. \A u \in UIDS : account[u].version = 0 /\ floor[u] = 0
  BY DEF Init, Versions
<1>3. floor \in [UIDS -> Nat]
  BY <1>2 DEF Init, Versions
<1>4. DOMAIN byUID \subseteq UIDS /\ \A u \in DOMAIN byUID : byUID[u].version = 0
  BY <1>2 DEF Init, PasswdMap, Entry
<1>5. ReadEarlier
  BY <1>1, <1>2, <1>3, <1>4 DEF ReadEarlier
<1>6. LookupTimely
  BY DEF Init, LookupTimely, Lookups, Idle
<1>7. RefreshTimely
  BY DEF Init, RefreshTimely, Idle
<1>8. ASSUME NEW u \in DOMAIN byUID \ crossed PROVE byUID[u].version >= floor[u]
  <2>1. byUID[u].version = 0 /\ floor[u] = 0
    BY <1>2, <1>4
  <2> QED
    BY <2>1
<1> QED
  BY <1>5, <1>6, <1>7, <1>8 DEF Init, Inv, FreshSinceRefresh

-----------------------------------------------------------------------------
(* The steps.                                                              *)

LEMMA InvStep == Inv /\ [Next]_vars => Inv'
<1> SUFFICES ASSUME Inv, [Next]_vars PROVE Inv'
  OBVIOUS
<1> USE UserCacheAssumption DEF Inv
<1>1. ASSUME NEW u \in UIDS, Change(u) PROVE Inv'
  <2>1. PICK n \in Names \cup {NoAccount} :
          account' = [account EXCEPT ![u] = [name |-> n, version |-> @.version + 1]]
    BY <1>1 DEF Change
  <2>2. /\ account[u].version \in 0..MaxChanges
        /\ account[u].version < MaxChanges
    BY <1>1 DEF Change, ReadEarlier
  <2>3. account' \in [UIDS -> [name : Names \cup {NoAccount}, version : 0..MaxChanges]]
    BY <2>1, <2>2 DEF ReadEarlier
  <2>4. \A v \in UIDS : /\ account[v].version \in Nat /\ account'[v].version \in Nat
                        /\ account[v].version <= account'[v].version
    <3> TAKE v \in UIDS
    <3>1. account[v].version \in Nat
      BY DEF ReadEarlier
    <3>2. CASE v = u
      BY <3>1, <3>2, <2>1 DEF ReadEarlier
    <3>3. CASE v # u
      BY <3>1, <3>3, <2>1 DEF ReadEarlier
    <3> QED
      BY <3>2, <3>3
  <2>5. ReadEarlier'
    BY <1>1, <2>3, <2>4 DEF Change, ReadEarlier
  <2>6. LookupTimely'
    <3>1. lookup.step = "store" => lookup.uid \in UIDS /\ lookup.found.version \in Nat
      BY DEF LookupTimely, Lookups, Idle, Found
    <3> QED
      BY <1>1, <2>4, <3>1 DEF Change, LookupTimely
  <2>7. RefreshTimely'
    BY <1>1, <2>4 DEF Change, RefreshTimely
  <2> QED
    BY <1>1, <2>5, <2>6, <2>7 DEF Change, FreshSinceRefresh
<1>2. ASSUME NEW u \in UIDS, NameMisses(u) PROVE Inv'
  BY <1>2 DEF NameMisses, ReadEarlier, LookupTimely, Lookups, RefreshTimely, FreshSinceRefresh
<1>3. CASE LookupId
  <2>1. lookup.uid \in UIDS
    BY <1>3 DEF LookupId, LookupTimely, Lookups, Idle
  <2>2. PICK e \in {Entry(lookup.uid), Unread(lookup.uid)} :
          lookup' = [step |-> "store", uid |-> lookup.uid, found |-> e, late |-> FALSE]
    BY <1>3 DEF LookupId
  <2>3. e \in Found /\ e.version = account[lookup.uid].version
    BY <2>1, EntryFound
  <2>4. account[lookup.uid].version \in Nat
        /\ floor[lookup.uid] \in Nat
        /\ floor[lookup.uid] <= account[lookup.uid].version
    BY <2>1 DEF ReadEarlier
  <2>5. LookupTimely'
    BY <1>3, <2>1, <2>2, <2>3, <2>4 DEF LookupId, LookupTimely, Lookups
  <2> QED
    BY <1>3, <2>5 DEF LookupId, ReadEarlier, RefreshTimely, FreshSinceRefresh
<1>4. CASE NameStores
  <2> DEFINE w == lookup.uid
  <2>1. /\ w \in UIDS /\ lookup.found \in Found /\ lookup.late \in BOOLEAN
        /\ lookup.found.version <= account[w].version
        /\ lookup.late \/ lookup.found.version >= floor[w]
    BY <1>4 DEF NameStores, LookupTimely, Lookups, Idle
  <2>2. /\ DOMAIN byUID' = DOMAIN byUID \cup {w}
        /\ byUID'[w] = lookup.found
        /\ \A u \in DOMAIN byUID \ {w} : byUID'[u] = byUID[u]
    BY <1>4 DEF NameStores
  <2>3. ReadEarlier'
    BY <1>4, <2>1, <2>2 DEF NameStores, ReadEarlier, Found
  <2>4. LookupTimely'
    BY <1>4 DEF NameStores, LookupTimely, Lookups, Idle
  <2>5. RefreshTimely'
    BY <1>4 DEF NameStores, RefreshTimely
  <2>6. crossed' \subseteq DOMAIN byUID'
    BY <1>4, <2>2 DEF NameStores
  <2>7. ASSUME NEW u \in DOMAIN byUID' \ crossed' PROVE byUID'[u].version >= floor'[u]
    <3>1. CASE u = w
      BY <1>4, <2>1, <2>2, <2>7, <3>1 DEF NameStores
    <3>2. CASE u # w
      BY <1>4, <2>2, <2>7, <3>2 DEF NameStores, FreshSinceRefresh
    <3> QED
      BY <3>1, <3>2
  <2> QED
    BY <2>3, <2>4, <2>5, <2>6, <2>7 DEF FreshSinceRefresh
<1>5. CASE RefreshReads
  <2>1. refresh = Idle
    BY <1>5 DEF RefreshReads
  <2>2. PICK m \in {PasswdMap, EmptyMap} :
          refresh' = [step |-> "swap", m |-> m, versions |-> Versions]
    BY <1>5 DEF RefreshReads
  <2>3. \A u \in UIDS : account[u].version \in Nat
    BY DEF ReadEarlier
  <2>4. DOMAIN m \subseteq UIDS /\ \A u \in DOMAIN m : m[u].version = account[u].version
    BY DEF PasswdMap, EmptyMap, Entry
  <2>5. Versions \in [UIDS -> Nat] /\ \A u \in UIDS : Versions[u] = account[u].version
    BY <2>3 DEF Versions
  <2>6. RefreshTimely'
    BY <1>5, <2>2, <2>3, <2>4, <2>5 DEF RefreshReads, RefreshTimely, ReadEarlier
  <2> QED
    BY <1>5, <2>6 DEF RefreshReads, ReadEarlier, LookupTimely, FreshSinceRefresh
<1>6. CASE RefreshSwaps
  <2>1. /\ refresh.versions \in [UIDS -> Nat]
        /\ \A u \in UIDS : refresh.versions[u] <= account[u].version
        /\ DOMAIN refresh.m \subseteq UIDS
        /\ \A u \in DOMAIN refresh.m : refresh.m[u].version = refresh.versions[u]
    BY <1>6 DEF RefreshSwaps, RefreshTimely
  <2>2. ReadEarlier'
    BY <1>6, <2>1 DEF RefreshSwaps, ReadEarlier
  <2>3. /\ Overtaken \in Lookups
        /\ Overtaken.step = "store" =>
             /\ Overtaken.late
             /\ Overtaken.found.version <= account[Overtaken.uid].version
    <3>1. CASE lookup.step = "store"
      <4>1. lookup \in [step : {"store"}, uid : UIDS, found : Found, late : BOOLEAN]
        BY <3>1 DEF LookupTimely, Lookups, Idle
      <4>2. Overtaken = [lookup EXCEPT !.late = TRUE]
        BY <3>1 DEF Overtaken
      <4>3. /\ Overtaken \in [step : {"store"}, uid : UIDS, found : Found, late : BOOLEAN]
            /\ Overtaken.late = TRUE
            /\ Overtaken.found = lookup.found /\ Overtaken.uid = lookup.uid
        BY <4>1, <4>2
      <4> QED
        BY <3>1, <4>3 DEF LookupTimely, Lookups
    <3>2. CASE lookup.step # "store"
      BY <3>2 DEF Overtaken, LookupTimely
    <3> QED
      BY <3>1, <3>2
  <2>4. LookupTimely'
    BY <1>6, <2>3 DEF RefreshSwaps, LookupTimely, Lookups
  <2>5. RefreshTimely'
    BY <1>6 DEF RefreshSwaps, RefreshTimely, Idle
  <2>6. crossed' = {} /\ byUID' = refresh.m /\ floor' = refresh.versions
    BY <1>6 DEF RefreshSwaps
  <2>7. ASSUME NEW u \in DOMAIN refresh.m
        PROVE  refresh.m[u].version >= refresh.versions[u]
    <3>1. refresh.versions[u] \in Nat /\ refresh.m[u].version = refresh.versions[u]
      BY <2>1
    <3> QED
      BY <3>1
  <2> QED
    BY <2>2, <2>4, <2>5, <2>6, <2>7 DEF FreshSinceRefresh
<1>7. CASE UNCHANGED vars
  BY <1>7 DEF vars, ReadEarlier, LookupTimely, RefreshTimely, FreshSinceRefresh
<1> QED
  BY <1>1, <1>2, <1>3, <1>4, <1>5, <1>6, <1>7 DEF Next

\* The shape of the cache; in particular no entry is from the future of its
\* account, whatever Name and Refresh do in between.
THEOREM TypeCorrect == Spec => []TypeOK
<1>1. Spec => []Inv
  BY InvInit, InvStep, PTL DEF Spec
<1> QED
  BY <1>1, InvImplies, PTL

\* After a reload only what a lookup stores that Refresh has overtaken may be
\* older than the accounts Refresh read (Name, Refresh).
THEOREM FreshnessCorrect == Spec => []FreshSinceRefresh
<1>1. Spec => []Inv
  BY InvInit, InvStep, PTL DEF Spec
<1> QED
  BY <1>1, InvImplies, PTL

=============================================================================
