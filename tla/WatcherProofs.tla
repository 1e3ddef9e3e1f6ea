---------------------------- MODULE WatcherProofs ----------------------------
(***************************************************************************)
(* What holds of Watcher for every set of configurations, every number of  *)
(* subscribers, edits and signals.                                         *)
(***************************************************************************)
EXTENDS Watcher, TLAPS

\* What a channel may hold.
Held == {<<>>} \cup {<<c>> : c \in Configs}

\* The subscribers publish has still to serve.
Waiting == {todo[i] : i \in DOMAIN todo}

-----------------------------------------------------------------------------
(* Sequences.                                                              *)

\* Serving the first subscriber leaves the others waiting, and it among
\* them only if it subscribed twice.
LEMMA ServeFirst ==
  ASSUME NEW S, NEW q \in Seq(S), q # <<>>
  PROVE  /\ Head(q) \in S /\ Tail(q) \in Seq(S)
         /\ Len(q) \in Nat /\ Len(q) >= 1
         /\ Len(q) = 1 <=> Tail(q) = <<>>
         /\ \A s : s \in {q[i] : i \in DOMAIN q} =>
                      s = Head(q) \/ s \in {Tail(q)[i] : i \in DOMAIN Tail(q)}
<1>1. Len(q) \in Nat /\ Len(q) >= 1 /\ DOMAIN q = 1..Len(q) /\ Head(q) = q[1]
  OBVIOUS
<1>2. /\ Tail(q) \in Seq(S) /\ Len(Tail(q)) = Len(q) - 1
      /\ DOMAIN Tail(q) = 1..(Len(q) - 1)
      /\ \A i \in 1..(Len(q) - 1) : Tail(q)[i] = q[i + 1]
  OBVIOUS
<1>3. Len(q) = 1 <=> Tail(q) = <<>>
  <2>1. ASSUME NEW t \in Seq(S) PROVE Len(t) = 0 <=> t = <<>>
    OBVIOUS
  <2>2. Len(Tail(q)) = 0 <=> Tail(q) = <<>>
    BY <1>2, <2>1
  <2> QED
    BY <1>1, <1>2, <2>2
<1>4. ASSUME NEW i \in DOMAIN q, i # 1
      PROVE  q[i] \in {Tail(q)[j] : j \in DOMAIN Tail(q)}
  <2>1. i - 1 \in DOMAIN Tail(q) /\ Tail(q)[i - 1] = q[i]
    BY <1>1, <1>2, <1>4
  <2> QED
    BY <2>1
<1> QED
  BY <1>1, <1>2, <1>3, <1>4

-----------------------------------------------------------------------------
(* The type invariant.                                                     *)

LEMMA TypeInit == Init => TypeOK
<1> SUFFICES ASSUME Init PROVE TypeOK
  OBVIOUS
<1>1. file.content \in Valid /\ file.mtime = 1 /\ Loaded(file.content) \in Configs
  BY DEF Init, Configs
<1>2. seen \in [Subs -> Configs] /\ ch \in [Subs -> Held]
  BY <1>1 DEF Init, Held
<1> QED
  BY <1>1, <1>2 DEF Init, TypeOK, NoStamp, Held

LEMMA TypeStep == TypeOK /\ [Next]_vars => TypeOK'
<1> SUFFICES ASSUME TypeOK, [Next]_vars PROVE TypeOK'
  OBVIOUS
<1> USE WatcherAssumption DEF TypeOK
<1>1. ASSUME NEW c \in Contents \cup {Missing}, Edit(c) PROVE TypeOK'
  <2>1. file'.mtime = file.mtime + 1
    BY <1>1 DEF Edit
  <2> QED
    BY <1>1, <2>1 DEF Edit
<1>2. CASE Hangup
  BY <1>2 DEF Hangup
<1>3. CASE New
  BY <1>3 DEF New, NoStamp, StatOf
<1>4. CASE OnSignal
  BY <1>4 DEF OnSignal
<1>5. CASE OnTick
  BY <1>5 DEF OnTick
<1>6. CASE Stat
  BY <1>6 DEF Stat, StatOf
<1>7. CASE Load
  BY <1>7 DEF Load, Configs
<1>8. CASE Swap
  BY <1>8 DEF Swap
<1>9. ASSUME todo # <<>>, Served PROVE todo' \in Seq(Subs) /\ (pc' = "send" <=> todo' # <<>>)
                                       /\ pc' \in {"select", "send"}
  BY <1>9, ServeFirst DEF Served
<1>10. CASE Send
  <2>1. todo # <<>> /\ Head(todo) \in Subs
    BY <1>10, ServeFirst DEF Send
  <2>2. CASE ch[Head(todo)] = <<>>
    <3>1. ch' = [ch EXCEPT ![Head(todo)] = <<cfg>>] /\ Served
      BY <1>10, <2>2 DEF Send
    <3>2. ch' \in [Subs -> {<<>>} \cup {<<c>> : c \in Configs}]
      BY <3>1, <2>1
    <3> QED
      BY <1>10, <2>1, <3>1, <3>2, <1>9 DEF Send
  <2>3. CASE ch[Head(todo)] # <<>>
    BY <1>10, <2>1, <2>3 DEF Send
  <2> QED
    BY <2>2, <2>3
<1>11. CASE DropOld
  <2>1. ch' \in [Subs -> {<<>>} \cup {<<c>> : c \in Configs}]
    BY <1>11 DEF DropOld
  <2> QED
    BY <1>11, <2>1 DEF DropOld
<1>12. CASE Resend
  <2>1. todo # <<>> /\ Served
    BY <1>12 DEF Resend
  <2>2. ch' \in [Subs -> {<<>>} \cup {<<c>> : c \in Configs}]
    <3>1. ch' = [ch EXCEPT ![Head(todo)] =
                   IF ch[Head(todo)] = <<>> THEN <<cfg>> ELSE ch[Head(todo)]]
      BY <1>12 DEF Resend
    <3>2. Head(todo) \in Subs
      BY <2>1, ServeFirst
    <3> QED
      BY <3>1, <3>2
  <2> QED
    BY <1>12, <2>1, <2>2, <1>9 DEF Resend
<1>13. ASSUME NEW s \in Subs, Receive(s) PROVE TypeOK'
  <2>1. ch[s] # <<>> /\ Head(ch[s]) \in Configs
    BY <1>13 DEF Receive
  <2>2. seen' \in [Subs -> Configs]
    BY <1>13, <2>1 DEF Receive
  <2>3. ch' \in [Subs -> {<<>>} \cup {<<c>> : c \in Configs}]
    BY <1>13 DEF Receive
  <2> QED
    BY <1>13, <2>2, <2>3 DEF Receive
<1>14. CASE UNCHANGED vars
  BY <1>14 DEF vars
<1> QED
  BY <1>1, <1>2, <1>3, <1>4, <1>5, <1>6, <1>7, <1>8, <1>10, <1>11, <1>12, <1>13, <1>14
     DEF Next, RunStep

\* The shape of the watcher's state, for any number of subscribers: in
\* particular publish is never left with a subscriber it forgot.
THEOREM TypeCorrect == Spec => []TypeOK
<1> QED
  BY TypeInit, TypeStep, PTL DEF Spec

-----------------------------------------------------------------------------
(* Delivery.                                                               *)

(***************************************************************************)
(* NewestDelivered does not say what publish sends, nor that the channel   *)
(* it has emptied is still empty when it sends again: the subscriber can   *)
(* only take from it.                                                      *)
(***************************************************************************)
Publishing ==
  /\ pc \in {"send", "drop", "resend"} => cfg = cur
  /\ pc = "resend" => ch[Head(todo)] = <<>>

DeliveryInv == TypeOK /\ Publishing /\ NewestDelivered

LEMMA DeliveryInit == Init => DeliveryInv
<1> SUFFICES ASSUME Init PROVE DeliveryInv
  OBVIOUS
<1>1. TypeOK
  BY TypeInit
<1>2. \A s \in Subs : ch[s] = <<>> /\ seen[s] = cur
  BY DEF Init
<1>3. Publishing
  BY DEF Init, Publishing
<1> QED
  BY <1>1, <1>2, <1>3 DEF DeliveryInv, NewestDelivered

\* A subscriber that now holds the active configuration has been served.
LEMMA ServedHolds ==
  ASSUME TypeOK, NewestDelivered, todo # <<>>, Served,
         UNCHANGED <<cur, seen>>,
         ch'[Head(todo)] = <<cur>>,
         \A s \in Subs : s # Head(todo) => ch'[s] = ch[s]
  PROVE  NewestDelivered'
<1> SUFFICES ASSUME NEW s \in Subs, s \notin Waiting'
             PROVE  \/ ch'[s] = <<cur'>>
                    \/ ch'[s] = <<>> /\ seen'[s] = cur'
  BY DEF NewestDelivered, Waiting
<1>1. todo \in Seq(Subs) /\ todo' = Tail(todo)
  BY DEF TypeOK, Served
<1>2. CASE s = Head(todo)
  BY <1>2
<1>3. CASE s # Head(todo)
  <2>1. s \notin Waiting
    <3>1. \A t \in Waiting : \/ t = Head(todo)
                            \/ t \in {Tail(todo)[i] : i \in DOMAIN Tail(todo)}
      <4>1. \A t : t \in {todo[i] : i \in DOMAIN todo} =>
                     t = Head(todo) \/ t \in {Tail(todo)[i] : i \in DOMAIN Tail(todo)}
        BY <1>1, ServeFirst
      <4> QED
        BY <4>1 DEF Waiting
    <3>2. Waiting' = {Tail(todo)[i] : i \in DOMAIN Tail(todo)}
      BY <1>1 DEF Waiting
    <3> QED
      BY <1>3, <3>1, <3>2
  <2> QED
    BY <1>3, <2>1 DEF NewestDelivered, Waiting
<1> QED
  BY <1>2, <1>3

LEMMA DeliveryStep == DeliveryInv /\ [Next]_vars => DeliveryInv'
<1> SUFFICES ASSUME TypeOK, Publishing, NewestDelivered, [Next]_vars
             PROVE  Publishing' /\ NewestDelivered'
  BY TypeStep DEF DeliveryInv
<1>0. pc \in {"send", "drop", "resend"} => todo # <<>> /\ Head(todo) \in Subs
  BY ServeFirst DEF TypeOK
<1>00. ASSUME UNCHANGED <<cur, todo, ch, seen>> PROVE NewestDelivered'
  BY <1>00 DEF NewestDelivered
<1>1. ASSUME NEW c \in Contents \cup {Missing}, Edit(c)
      PROVE  Publishing' /\ NewestDelivered'
  BY <1>1, <1>00 DEF Edit, Publishing
<1>2. CASE Hangup
  BY <1>2, <1>00 DEF Hangup, Publishing
<1>3. CASE New
  BY <1>3, <1>00 DEF New, Publishing
<1>4. CASE OnSignal
  BY <1>4, <1>00 DEF OnSignal, Publishing
<1>5. CASE OnTick
  BY <1>5, <1>00 DEF OnTick, Publishing
<1>6. CASE Stat
  BY <1>6, <1>00 DEF Stat, Publishing
<1>7. CASE Load
  BY <1>7, <1>00 DEF Load, Publishing
<1>8. CASE Swap
  <2>1. Publishing'
    BY <1>8 DEF Swap, Publishing
  <2>2. CASE cfg = cur
    <3>1. UNCHANGED <<cur, todo, ch, seen>>
      BY <1>8, <2>2 DEF Swap, TypeOK
    <3> QED
      BY <2>1, <3>1, <1>00
  <2>3. CASE cfg # cur
    <3>1. todo' = SubList
      BY <1>8, <2>3 DEF Swap
    <3>2. {todo[i] : i \in DOMAIN todo}' = Subs
      BY <3>1 DEF Subs
    <3> QED
      BY <2>1, <3>2 DEF NewestDelivered
  <2> QED
    BY <2>1, <2>2, <2>3
<1>9. CASE Send
  <2>1. pc = "send" /\ cfg = cur /\ UNCHANGED <<cfg, cur, seen>>
    BY <1>9 DEF Send, Publishing
  <2>2. CASE ch[Head(todo)] = <<>>
    <3>1. ch' = [ch EXCEPT ![Head(todo)] = <<cfg>>] /\ Served
      BY <1>9, <2>2 DEF Send
    <3>2. /\ ch'[Head(todo)] = <<cur>>
          /\ \A s \in Subs : s # Head(todo) => ch'[s] = ch[s]
      BY <1>0, <2>1, <3>1 DEF TypeOK
    <3>3. NewestDelivered'
      BY <1>0, <2>1, <3>1, <3>2, ServedHolds
    <3>4. pc' \in {"select", "send"}
      BY <3>1 DEF Served
    <3> QED
      BY <2>1, <3>3, <3>4 DEF Publishing
  <2>3. CASE ch[Head(todo)] # <<>>
    <3>1. pc' = "drop" /\ UNCHANGED <<ch, todo>>
      BY <1>9, <2>3 DEF Send
    <3> QED
      BY <2>1, <3>1, <1>00 DEF Publishing
  <2> QED
    BY <2>2, <2>3
<1>10. CASE DropOld
  <2>1. /\ ch' = [ch EXCEPT ![Head(todo)] = <<>>]
        /\ pc' = "resend" /\ UNCHANGED <<cfg, cur, seen, todo>>
    BY <1>10 DEF DropOld
  <2>2. Head(todo) \in Subs /\ Head(todo) \in Waiting /\ cfg = cur
    <3>1. todo \in Seq(Subs) /\ todo # <<>> /\ cfg = cur
      BY <1>0, <1>10 DEF DropOld, TypeOK, Publishing
    <3>2. 1 \in DOMAIN todo /\ Head(todo) = todo[1]
      BY <3>1
    <3> QED
      BY <1>0, <1>10, <3>1, <3>2 DEF Waiting, DropOld
  <2>3. Publishing'
    BY <2>1, <2>2 DEF Publishing, TypeOK
  <2>4. NewestDelivered'
    BY <2>1, <2>2 DEF NewestDelivered, Waiting, TypeOK
  <2> QED
    BY <2>3, <2>4
<1>11. CASE Resend
  <2>1. /\ pc = "resend" /\ cfg = cur /\ UNCHANGED <<cfg, cur, seen>>
        /\ ch[Head(todo)] = <<>> /\ Served
        /\ ch' = [ch EXCEPT ![Head(todo)] =
                    IF ch[Head(todo)] = <<>> THEN <<cfg>> ELSE ch[Head(todo)]]
    BY <1>11 DEF Resend, Publishing
  <2>2. /\ ch'[Head(todo)] = <<cur>>
        /\ \A s \in Subs : s # Head(todo) => ch'[s] = ch[s]
    BY <1>0, <2>1 DEF TypeOK
  <2>3. NewestDelivered'
    BY <1>0, <2>1, <2>2, ServedHolds
  <2>4. pc' \in {"select", "send"}
    BY <2>1 DEF Served
  <2> QED
    BY <2>1, <2>3, <2>4 DEF Publishing
<1>12. ASSUME NEW s \in Subs, Receive(s) PROVE Publishing' /\ NewestDelivered'
  <2>1. /\ ch' = [ch EXCEPT ![s] = <<>>] /\ seen' = [seen EXCEPT ![s] = Head(ch[s])]
        /\ ch[s] # <<>> /\ UNCHANGED <<pc, cfg, cur, todo>>
    BY <1>12 DEF Receive
  <2>2. Publishing'
    BY <1>0, <2>1 DEF Publishing, TypeOK
  <2>3. NewestDelivered'
    <3> SUFFICES ASSUME NEW r \in Subs, r \notin Waiting
                 PROVE  \/ ch'[r] = <<cur>>
                        \/ ch'[r] = <<>> /\ seen'[r] = cur
      BY <2>1 DEF NewestDelivered, Waiting
    <3>1. ch[r] = <<cur>> \/ (ch[r] = <<>> /\ seen[r] = cur)
      BY DEF NewestDelivered, Waiting
    <3>2. CASE r = s
      BY <2>1, <3>1, <3>2 DEF TypeOK
    <3>3. CASE r # s
      BY <2>1, <3>1, <3>3 DEF TypeOK
    <3> QED
      BY <3>2, <3>3
  <2> QED
    BY <2>2, <2>3
<1>13. CASE UNCHANGED vars
  BY <1>13, <1>00 DEF vars, Publishing
<1> QED
  BY <1>1, <1>2, <1>3, <1>4, <1>5, <1>6, <1>7, <1>8, <1>9, <1>10, <1>11, <1>12, <1>13
     DEF Next, RunStep

\* However slow a subscriber is and however publish and the subscriber
\* interleave on its channel, the newest configuration is never dropped.
THEOREM DeliveryCorrect == Spec => []NewestDelivered
<1>1. DeliveryInv => NewestDelivered
  BY DEF DeliveryInv
<1> QED
  BY DeliveryInit, DeliveryStep, <1>1, PTL DEF Spec

-----------------------------------------------------------------------------
(* Stamps.                                                                 *)

(***************************************************************************)
(* A modification time stands for one content, so what was loaded under a  *)
(* stamp that is still the file's is what the file still holds.  Loading   *)
(* comes after the stat: a newer content under an older stamp is loaded    *)
(* again, an older one under a newer stamp cannot be.                      *)
(***************************************************************************)
StampInv ==
  /\ TypeOK
  /\ pc = "start" => cur = Loaded(file.content)
  /\ pc # "start" /\ stamp.mtime = file.mtime => cur = Loaded(file.content)
  /\ pc = "swap" /\ fi.mtime = file.mtime => cfg = Loaded(file.content)

LEMMA StampInit == Init => StampInv
  BY TypeInit DEF Init, StampInv

LEMMA StampStep ==
  ASSUME EarlyEdits = FALSE
  PROVE  StampInv /\ [Next]_vars => StampInv'
<1> SUFFICES ASSUME StampInv, [Next]_vars PROVE StampInv'
  OBVIOUS
<1>0. TypeOK /\ TypeOK'
  BY TypeStep DEF StampInv
<1>1. ASSUME NEW c \in Contents \cup {Missing}, Edit(c) PROVE StampInv'
  <2>1. /\ pc # "start" /\ file'.mtime = file.mtime + 1
        /\ UNCHANGED <<pc, stamp, fi, cur, cfg>>
    BY <1>1 DEF Edit
  <2>2. stamp.mtime < file'.mtime /\ fi.mtime < file'.mtime
    BY <1>0, <2>1 DEF TypeOK
  <2>3. stamp'.mtime # file'.mtime /\ fi'.mtime # file'.mtime
    BY <1>0, <2>1, <2>2 DEF TypeOK
  <2> QED
    BY <1>0, <2>1, <2>3 DEF StampInv
<1>2. CASE Hangup
  BY <1>0, <1>2 DEF Hangup, StampInv
<1>3. CASE New
  BY <1>0, <1>3 DEF New, StampInv
<1>4. CASE OnSignal
  BY <1>0, <1>4 DEF OnSignal, StampInv
<1>5. CASE OnTick
  BY <1>0, <1>5 DEF OnTick, StampInv
<1>6. CASE Stat
  BY <1>0, <1>6 DEF Stat, StampInv
<1>7. CASE Load
  BY <1>0, <1>7 DEF Load, StampInv
<1>8. CASE Swap
  BY <1>0, <1>8 DEF Swap, StampInv
<1>9. CASE Send
  BY <1>0, <1>9 DEF Send, Served, StampInv
<1>10. CASE DropOld
  BY <1>0, <1>10 DEF DropOld, StampInv
<1>11. CASE Resend
  BY <1>0, <1>11 DEF Resend, Served, StampInv
<1>12. ASSUME NEW s \in Subs, Receive(s) PROVE StampInv'
  BY <1>0, <1>12 DEF Receive, StampInv
<1>13. CASE UNCHANGED vars
  BY <1>0, <1>13 DEF vars, StampInv
<1> QED
  BY <1>1, <1>2, <1>3, <1>4, <1>5, <1>6, <1>7, <1>8, <1>9, <1>10, <1>11, <1>12, <1>13
     DEF Next, RunStep

\* With no edit between main's load and NewWatcher, an edit that races with
\* a reload, or comes between its stat and its load, is never taken for
\* one that was loaded.
THEOREM StampCorrect ==
  ASSUME EarlyEdits = FALSE
  PROVE  Spec => []StampMeansLoaded
<1>1. StampInv => StampMeansLoaded
  BY DEF StampInv, StampMeansLoaded, StatOf
<1> QED
  BY StampInit, StampStep, <1>1, PTL DEF Spec

-----------------------------------------------------------------------------
(* Configurations.                                                         *)

LEMMA ConfigValid ==
  ASSUME NEW c \in Configs PROVE Validate(c)
<1>1. PICK f \in Contents : c = Parse(Document[f]) /\ Parse(Document[f]) # Rejected
  BY DEF Configs, Valid, Loaded
<1>2. ASSUME NEW d, Parse(d) # Rejected PROVE Validate(Parse(d))
  BY <1>2 DEF Parse
<1> QED
  BY <1>1, <1>2

LEMMA ConfigCompiles ==
  ASSUME NEW c \in Configs PROVE FilterNew(c) /\ NamerNew(c)
<1>1. FilterValid(c) /\ NamingValid(c)
  BY ConfigValid DEF Validate
<1>2. FilterNew(c)
  BY <1>1 DEF FilterValid, AllCompile, FilterNew
<1>3. NamerNew(c)
  BY <1>1 DEF NamingValid, RuleValid, NamerNew
<1> QED
  BY <1>2, <1>3

\* The settings of the scan are numbers.
LEMMA ConfigNumbers ==
  ASSUME NEW c \in Configs
  PROVE  c.interval \in Int /\ c.batch_size \in Int /\ c.batch_sleep \in Int
<1>1. PICK f \in Contents : c = Parse(Document[f]) /\ Parse(Document[f]) # Rejected
  BY DEF Configs, Valid, Loaded
<1> DEFINE doc == Document[f]
<1>2. doc # Unparsable /\ c = Normalise(Decode(doc))
  BY <1>1 DEF Parse
<1>3. \A g \in Numbers \cap DOMAIN doc : doc[g] \in Int
  BY <1>2, WatcherAssumption DEF Decoded
<1>4. /\ Default["interval"] \in Int /\ Default["batch_size"] \in Int
      /\ Default["batch_sleep"] \in Int
      /\ {"interval", "batch_size", "batch_sleep"} \subseteq Fields
  BY DEF Default, Fields
<1>5. \A g \in {"interval", "batch_size", "batch_sleep"} : Decode(doc)[g] \in Int
  BY <1>3, <1>4 DEF Decode, Numbers
<1>6. \A g \in {"interval", "batch_size", "batch_sleep"} : Normalise(Decode(doc))[g] = Decode(doc)[g]
  BY <1>4 DEF Normalise, Decode
<1> QED
  BY <1>2, <1>5, <1>6

\* No configuration a subscriber can hold fails to build its filter and its
\* namer, whatever files the operator writes.
THEOREM CompilesCorrect == Spec => []PublishedCompiles
<1>1. TypeOK => PublishedCompiles
  <2> SUFFICES ASSUME TypeOK, NEW s \in Subs PROVE FilterNew(seen[s]) /\ NamerNew(seen[s])
    BY DEF PublishedCompiles
  <2>1. seen[s] \in Configs
    BY DEF TypeOK
  <2> QED
    BY <2>1, ConfigCompiles
<1> QED
  BY TypeCorrect, <1>1, PTL

LEMMA Truncation ==
  ASSUME NEW b \in Int, b >= 1, NEW t \in Int, t >= 0
  PROVE  (1999 \div b) * t <= (2000 \div b) * t
<1>1. (1999 \div b) \in Int /\ (2000 \div b) \in Int /\ 1999 \div b <= 2000 \div b
  OBVIOUS
<1>2. ASSUME NEW x \in Int, NEW y \in Int, x <= y PROVE x * t <= y * t
  BY <1>2
<1> QED
  BY <1>1, <1>2

\* The estimate Validate rejects a configuration by is never less than what a
\* scan of 2000 processes sleeps, whatever the batch settings.
THEOREM EstimateCorrect == Spec => []SleepsFit
<1>1. TypeOK => SleepsFit
  <2> SUFFICES ASSUME TypeOK PROVE SleepsFit
    OBVIOUS
  <2>1. cur \in Configs
    BY DEF TypeOK
  <2>2. ScanValid(cur)
    BY <2>1, ConfigValid DEF Validate
  <2>3. cur.interval \in Int /\ cur.batch_size \in Int /\ cur.batch_sleep \in Int
    BY <2>1, ConfigNumbers
  <2>4. /\ cur.batch_size >= 1 /\ cur.batch_sleep >= 0
        /\ (2000 \div cur.batch_size) * cur.batch_sleep <= cur.interval
    BY <2>2 DEF ScanValid, Estimate
  <2>5. (1999 \div cur.batch_size) * cur.batch_sleep
          <= (2000 \div cur.batch_size) * cur.batch_sleep
    BY <2>3, <2>4, Truncation
  <2>6. /\ (1999 \div cur.batch_size) * cur.batch_sleep \in Int
        /\ (2000 \div cur.batch_size) * cur.batch_sleep \in Int
    BY <2>3, <2>4
  <2>7. (1999 \div cur.batch_size) * cur.batch_sleep <= cur.interval
    BY <2>3, <2>4, <2>5, <2>6
  <2>8. 2000 - 1 = 1999
    OBVIOUS
  <2> QED
    BY <2>7, <2>8 DEF SleepsFit, Sleeps
<1> QED
  BY TypeCorrect, <1>1, PTL

\* What a file says of a list, unless it says nothing, is what Parse returns.
LEMMA ParseKeepsLists ==
  ASSUME NEW doc, Parse(doc) # Rejected, NEW f \in Lists \cap DOMAIN doc, doc[f] # Nil
  PROVE  Parse(doc)[f] = doc[f]
<1>1. Parse(doc) = Normalise(Decode(doc))
  BY DEF Parse
<1>2. f \in Fields
  BY DEF Lists, Fields, Default
<1>3. Decode(doc)[f] = doc[f]
  BY <1>2 DEF Decode
<1>4. Lists \subseteq DOMAIN Decode(doc)
  BY DEF Lists, Fields, Default, Decode
<1>5. Normalise(Decode(doc))[f] = Decode(doc)[f]
  BY <1>3, <1>4 DEF Normalise, OrDefault, Lists
<1> QED
  BY <1>1, <1>3, <1>5

\* While the stamp is that of the file, the lists in effect are those of the
\* file, whatever was loaded before it.
THEOREM ListsCorrect ==
  ASSUME EarlyEdits = FALSE
  PROVE  Spec => []ListsAsWritten
<1>1. StampInv => ListsAsWritten
  <2> SUFFICES ASSUME StampInv, pc \in {"select", "stat"}, file.content \in Valid,
                      stamp = StatOf(file),
                      NEW f \in Lists \cap DOMAIN Document[file.content],
                      Document[file.content][f] # Nil
               PROVE  cur[f] = Document[file.content][f]
    BY DEF ListsAsWritten
  <2>1. cur = Parse(Document[file.content])
    BY DEF StampInv, StatOf, Loaded
  <2>2. Parse(Document[file.content]) # Rejected
    BY DEF Valid, Loaded
  <2> QED
    BY <2>1, <2>2, ParseKeepsLists
<1> QED
  BY StampInit, StampStep, <1>1, PTL DEF Spec

=============================================================================
