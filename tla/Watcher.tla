------------------------------- MODULE Watcher -------------------------------
(***************************************************************************)
(* internal/config/watcher.go: the configuration file, the goroutine that  *)
(* follows it, and the subscribers it tells.                               *)
(*                                                                         *)
(* One action is one step another goroutine, or the operator editing the   *)
(* file, can interleave with: a system call, a critical section of w.mu,   *)
(* or one channel operation of publish.  A configuration is its value,     *)
(* which files with different contents may share; two files are told apart *)
(* by modification time and size.                                          *)
(***************************************************************************)
EXTENDS LoadConfig

CONSTANTS
  Contents,     \* texts of the file
  Document,     \* content -> the document it decodes to
  Size,         \* content -> file size
  SubList,      \* subscribers, in the order of their subscription
  MaxEdits,     \* bound: changes of the file
  MaxSignals,   \* bound: SIGHUPs
  EarlyEdits    \* whether the file may change between main's load and New

Missing == "missing"
Subs == {SubList[i] : i \in DOMAIN SubList}

ASSUME WatcherAssumption ==
  /\ Missing \notin Contents
  /\ \A c \in Contents : Decoded(Document[c])
  /\ SubList \in Seq(Subs)
  /\ MaxEdits \in Nat /\ MaxSignals \in Nat

VARIABLES
  file,    \* the file: [content, mtime]; content Missing when there is none
  edits,   \* changes made so far
  hups,    \* SIGHUPs sent so far
  sig,     \* Run's signal channel holds one
  pc,      \* the step of main's start, of Run, or of the reload it runs
  force,   \* reload's argument
  fi,      \* the stat reload took: [mtime, size]
  cfg,     \* the configuration reload loaded, to swap in and publish
  cur,     \* Watcher.cur
  stamp,   \* Watcher.mtime and size
  todo,    \* subscribers publish has still to serve, in order
  ch,      \* subscriber -> its channel, of capacity 1
  seen     \* subscriber -> the configuration it received last

vars == <<file, edits, hups, sig, pc, force, fi, cfg, cur, stamp, todo, ch, seen>>

\* What Load makes of a file, and the files it accepts.
Loaded(c) == Parse(Document[c])

Valid == {c \in Contents : Loaded(c) # Rejected}

Configs == {Loaded(c) : c \in Valid}

NoStamp == [mtime |-> 0, size |-> 0]

StatOf(f) == [mtime |-> f.mtime, size |-> Size[f.content]]

\* The file main was started with is a valid one.
Init ==
  /\ file \in [content : Valid, mtime : {1}]
  /\ edits = 0 /\ hups = 0 /\ sig = FALSE
  /\ pc = "start"
  /\ force = FALSE
  /\ fi = NoStamp
  /\ cfg = Loaded(file.content)
  /\ cur = Loaded(file.content)
  /\ stamp = NoStamp
  /\ todo = <<>>
  /\ ch = [s \in Subs |-> <<>>]
  /\ seen = [s \in Subs |-> Loaded(file.content)]

-----------------------------------------------------------------------------
(* The operator.  Two edits have distinct modification times.              *)

Edit(c) ==
  /\ edits < MaxEdits
  /\ pc = "start" => EarlyEdits
  /\ c # file.content
  /\ edits' = edits + 1
  /\ file' = [content |-> c, mtime |-> file.mtime + 1]
  /\ UNCHANGED <<hups, sig, pc, force, fi, cfg, cur, stamp, todo, ch, seen>>

\* A SIGHUP that finds the channel full is dropped.  None is sent before Run
\* asks for them: it would end the program.
Hangup ==
  /\ pc # "start"
  /\ hups < MaxSignals
  /\ hups' = hups + 1
  /\ sig' = TRUE
  /\ UNCHANGED <<file, edits, pc, force, fi, cfg, cur, stamp, todo, ch, seen>>

-----------------------------------------------------------------------------
(* NewWatcher.  The caller loaded the initial configuration before, so the *)
(* file may have changed since.                                            *)
New ==
  /\ pc = "start"
  /\ pc' = "select"
  /\ stamp' = IF file.content = Missing THEN NoStamp ELSE StatOf(file)
  /\ UNCHANGED <<file, edits, hups, sig, force, fi, cfg, cur, todo, ch, seen>>

\* Run's select: a signal forces the reload, a tick does not.
OnSignal ==
  /\ pc = "select"
  /\ sig
  /\ sig' = FALSE
  /\ force' = TRUE
  /\ pc' = "stat"
  /\ UNCHANGED <<file, edits, hups, fi, cfg, cur, stamp, todo, ch, seen>>

OnTick ==
  /\ pc = "select"
  /\ force' = FALSE
  /\ pc' = "stat"
  /\ UNCHANGED <<file, edits, hups, sig, fi, cfg, cur, stamp, todo, ch, seen>>

-----------------------------------------------------------------------------
(* reload.                                                                 *)

\* Mistake: files are told apart by their size alone.
StatBySize ==
  /\ pc = "stat"
  /\ file.content # Missing
  /\ fi' = StatOf(file)
  /\ pc' = IF fi'.size = stamp.size /\ ~force THEN "select" ELSE "load"
  /\ UNCHANGED <<file, edits, hups, sig, force, cfg, cur, stamp, todo, ch, seen>>

Stat ==
  /\ pc = "stat"
  /\ \/ /\ file.content = Missing
        /\ pc' = "select"
        /\ UNCHANGED fi
     \/ /\ file.content # Missing
        /\ fi' = StatOf(file)
        /\ pc' = IF fi' = stamp /\ ~force THEN "select" ELSE "load"
  /\ UNCHANGED <<file, edits, hups, sig, force, cfg, cur, stamp, todo, ch, seen>>

Load ==
  /\ pc = "load"
  /\ \/ /\ file.content \notin Valid
        /\ pc' = "select"
        /\ UNCHANGED cfg
     \/ /\ file.content \in Valid
        /\ cfg' = Loaded(file.content)
        /\ pc' = "swap"
  /\ UNCHANGED <<file, edits, hups, sig, force, fi, cur, stamp, todo, ch, seen>>

\* Mistake: the stamp is taken after the load.
SwapStampingLate ==
  /\ pc = "swap"
  /\ stamp' = IF file.content = Missing THEN fi ELSE StatOf(file)
  /\ cur' = cfg
  /\ todo' = IF cfg = cur THEN <<>> ELSE SubList
  /\ pc' = IF todo' = <<>> THEN "select" ELSE "send"
  /\ UNCHANGED <<file, edits, hups, sig, force, fi, cfg, ch, seen>>

\* The critical section: the stamp is that of the stat, taken before the load.
Swap ==
  /\ pc = "swap"
  /\ stamp' = fi
  /\ cur' = cfg
  /\ todo' = IF cfg = cur THEN <<>> ELSE SubList
  /\ pc' = IF todo' = <<>> THEN "select" ELSE "send"
  /\ UNCHANGED <<file, edits, hups, sig, force, fi, cfg, ch, seen>>

-----------------------------------------------------------------------------
(* publish: to each subscriber a send, or if its channel is full, drop the  *)
(* value there, which the subscriber may receive first, and send again.    *)

\* Mistake: publish returns after the first subscriber.
ServedOne ==
  /\ todo' = Tail(todo)
  /\ pc' = "select"

Served ==
  /\ todo' = Tail(todo)
  /\ pc' = IF Len(todo) = 1 THEN "select" ELSE "send"

Send ==
  /\ pc = "send"
  /\ LET s == Head(todo)
     IN  \/ /\ ch[s] = <<>>
            /\ ch' = [ch EXCEPT ![s] = <<cfg>>]
            /\ Served
         \/ /\ ch[s] # <<>>
            /\ pc' = "drop"
            /\ UNCHANGED <<ch, todo>>
  /\ UNCHANGED <<file, edits, hups, sig, force, fi, cfg, cur, stamp, seen>>

\* Mistake: the older value stays in a full channel.
DropNothing ==
  /\ pc = "drop"
  /\ pc' = "resend"
  /\ UNCHANGED <<file, edits, hups, sig, force, fi, cfg, cur, stamp, todo, ch, seen>>

DropOld ==
  /\ pc = "drop"
  /\ pc' = "resend"
  /\ ch' = [ch EXCEPT ![Head(todo)] = <<>>]
  /\ UNCHANGED <<file, edits, hups, sig, force, fi, cfg, cur, stamp, todo, seen>>

Resend ==
  /\ pc = "resend"
  /\ ch' = [ch EXCEPT ![Head(todo)] = IF @ = <<>> THEN <<cfg>> ELSE @]
  /\ Served
  /\ UNCHANGED <<file, edits, hups, sig, force, fi, cfg, cur, stamp, seen>>

\* A subscriber receives.
Receive(s) ==
  /\ ch[s] # <<>>
  /\ seen' = [seen EXCEPT ![s] = Head(ch[s])]
  /\ ch' = [ch EXCEPT ![s] = <<>>]
  /\ UNCHANGED <<file, edits, hups, sig, pc, force, fi, cfg, cur, stamp, todo>>

-----------------------------------------------------------------------------

\* One round of Run, from its select to the next.
RunStep ==
  New \/ OnSignal \/ OnTick \/ Stat \/ Load \/ Swap \/ Send \/ DropOld \/ Resend

Next ==
  \/ \E c \in Contents \cup {Missing} : Edit(c)
  \/ Hangup
  \/ RunStep
  \/ \E s \in Subs : Receive(s)

Spec == Init /\ [][Next]_vars

(***************************************************************************)
(* The watcher's goroutine runs: its ticker fires every ten seconds and no *)
(* step of it blocks.  A subscriber keeps receiving.  The operator and the *)
(* signals owe nothing.                                                    *)
(***************************************************************************)
FairSpec ==
  /\ Spec
  /\ WF_vars(RunStep)
  /\ \A s \in Subs : WF_vars(Receive(s))

-----------------------------------------------------------------------------
(* Correctness.                                                            *)

\* The channels hold at most one configuration each, publish is under way
\* exactly while there is a subscriber to serve, and no stamp is newer than
\* the file (Subscribe, publish, reload).
TypeOK ==
  /\ cur \in Configs /\ cfg \in Configs
  /\ seen \in [Subs -> Configs]
  /\ ch \in [Subs -> {<<>>} \cup {<<c>> : c \in Configs}]
  /\ todo \in Seq(Subs)
  /\ file.mtime \in Nat /\ stamp.mtime \in Nat /\ fi.mtime \in Nat
  /\ pc \in {"start", "select", "stat", "load", "swap", "send", "drop", "resend"}
  /\ pc \in {"send", "drop", "resend"} <=> todo # <<>>
  /\ stamp.mtime <= file.mtime /\ fi.mtime <= file.mtime

(***************************************************************************)
(* Intermediate values are dropped, the newest never is: when no publish   *)
(* is under way each subscriber has the active configuration, or will take *)
(* it next from its channel (Subscribe, publish).                          *)
(***************************************************************************)
NewestDelivered ==
  \A s \in Subs :
    s \notin {todo[i] : i \in DOMAIN todo} =>
      \/ ch[s] = <<cur>>
      \/ ch[s] = <<>> /\ seen[s] = cur

(***************************************************************************)
(* An edit is never lost to a reload it raced with: while the stamp is     *)
(* that of the file, the active configuration is what the file holds       *)
(* (reload takes the stamp before it loads).                               *)
(***************************************************************************)
StampMeansLoaded ==
  pc \in {"select", "stat"} /\ file.content # Missing /\ stamp = StatOf(file)
    => cur = Loaded(file.content)

(***************************************************************************)
(* A configuration is published before its filter and its namer are built. *)
(* For no configuration a subscriber can hold does building them fail: no  *)
(* pattern they compile escapes Validate (Validate, filter.New, namer.New).*)
(***************************************************************************)
PublishedCompiles ==
  \A s \in Subs : FilterNew(seen[s]) /\ NamerNew(seen[s])

(***************************************************************************)
(* The estimate, with its truncated division, is no less than what Scan    *)
(* sleeps between batches: a machine of up to 2000 processes is not driven *)
(* into overruns by its batch settings alone (Validate, Scan).             *)
(***************************************************************************)
SleepsFit == Sleeps(2000, cur) <= cur.interval

(***************************************************************************)
(* A list is in effect as the operator wrote it, in particular an empty    *)
(* one, which is how a shipped default is turned off, and however many     *)
(* configurations came before (reload, Parse, normalise).                  *)
(***************************************************************************)
ListsAsWritten ==
  pc \in {"select", "stat"} /\ file.content \in Valid /\ stamp = StatOf(file) =>
    LET doc == Document[file.content]
    IN  \A f \in Lists \cap DOMAIN doc : doc[f] # Nil => cur[f] = doc[f]

\* Once the file stays as it is, and is valid, every subscriber gets it
\* (watcher.go: a Watcher reloads on SIGHUP and on file modification).
Converges ==
  \A c \in Valid :
    <>[](file.content = c) =>
      <>[](cur = Loaded(c) /\ \A s \in Subs : seen[s] = Loaded(c))

=============================================================================
