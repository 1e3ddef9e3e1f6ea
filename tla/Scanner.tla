------------------------------- MODULE Scanner -------------------------------
(***************************************************************************)
(* internal/scan: one scanner walking /proc while the machine runs.        *)
(*                                                                         *)
(* A scan reads up to seven files of each listed process, one system call  *)
(* after another, and the kernel takes steps between any two of them.  One *)
(* action is one read with the code that runs up to the next read: pc      *)
(* names the read that comes next.                                         *)
(*                                                                         *)
(* Readings are abstracted to what the exported figures depend on.  The    *)
(* counters are the three families of StateMap; a descriptor or PSS figure *)
(* is the number of the scan that read it.  Process identity, caching,     *)
(* filtering, naming, scheduling, pruning and every early return are those *)
(* of the code.                                                            *)
(***************************************************************************)
EXTENDS ProcTable, StateMap, Namer

CONSTANTS
  Configs,    \* configurations that may be active
  Accounts,   \* UIDs that resolve to a user name
  Faults,     \* file -> outcomes, besides "ok", a read may have
  ListFaults, \* whether listing /proc may fail
  SmapsRollup, \* System.SmapsRollup, found at the start
  Cancels,    \* whether the exporter may be told to stop
  Resets,     \* whether a naming change may discard the state
  MaxScans    \* bound: scans started

ASSUME ScannerAssumption ==
  /\ MaxScans \in Nat
  /\ SmapsRollup \in BOOLEAN
  /\ Accounts \subseteq UIDS
  /\ \A c \in Configs : c.batch \in Int

VARIABLES
  cfg,       \* the active configuration, Deps.Config()
  m,         \* StateMap.m
  gen,       \* StateMap.gen
  scanNo,    \* Scanner.scanNo
  pc,        \* the read that comes next
  scan,      \* what Scan captured: configuration, list, schedule, what is
             \* left of the list and how much of that the batch has room for
  rd,        \* the process readProcess is assembling
  res,       \* the Result under construction, or the last one returned
  cancelled, \* ctx is done
  late,      \* history: processes read since ctx was done
  emitted,   \* history: instance -> counter -> deltas reported and counted
  base       \* history: instance -> counter -> value first read, or Unread

scannerVars == <<m, gen, scanNo, pc, scan, rd, res>>
historyVars == <<late, emitted, base>>
vars == <<kernelVars, cfg, cancelled, scannerVars, historyVars>>

File == {"stat", "cmdline", "status", "statm", "io", "fd", "smaps"}
Outcomes == {"ok", "vanished", "denied", "failed"}
Steps == {"cmdline", "status", "filter", "statm", "io", "fd", "smaps", "record"}

NoPid == 0
Unread == -1
NoCounter == [c \in Counter |-> 0]
NoUser == <<"none", 0>>

\* scan.uidString and a resolved account name.
UidString(u) == <<"uid", u>>
UserName(c, u) ==
  IF c.resolveUsers /\ u \in Accounts THEN <<"name", u>> ELSE UidString(u)

(***************************************************************************)
(* What a process may be filed under: any name the rules or the fallback   *)
(* give to what can be read of a program, and any user; a status that was  *)
(* never read leaves uid 0.                                                *)
(***************************************************************************)
CmdlineTexts == {NoText} \cup {g.cmd : g \in Programs}

NamerInputs ==
  [ comm    : {g.comm : g \in Programs},
    exe     : {NoText} \cup {g.exe : g \in Programs},
    cmdline : CmdlineTexts ]

GroupNames == {GroupName(c.rules, c.fallback, in) : c \in Configs, in \in NamerInputs}

GroupUsers ==
  {UserName(c, u) : c \in Configs, u \in UIDS} \cup {UidString(u) : u \in UIDS \cup {0}}

NoReading ==
  [ pid |-> NoPid, start |-> 0, comm |-> NoText, havePrev |-> FALSE,
    cmdline |-> NoText, cmdRead |-> FALSE, kernel |-> FALSE, zombie |-> FALSE,
    statusRead |-> FALSE, uid |-> 0, user |-> NoUser, name |-> NoText,
    val |-> NoCounter, have |-> [c \in Counter |-> FALSE],
    haveFDs |-> FALSE, havePSS |-> FALSE ]

NoScan(c) ==
  [cfg |-> c, listed |-> {}, todo |-> {}, room |-> 0, doFDs |-> FALSE, doSmaps |-> FALSE]

NoResult ==
  [ procs |-> [p \in {} |-> NoReading], ignored |-> {}, vanished |-> {},
    denied |-> {}, errs |-> {} ]

ScannerInit ==
  /\ cfg \in Configs
  /\ m = NewStateMap
  /\ gen = 0
  /\ scanNo = 0
  /\ pc = "idle"
  /\ scan = NoScan(cfg)
  /\ rd = NoReading
  /\ res = NoResult
  /\ cancelled = FALSE
  /\ late = 0
  /\ emitted = [i \in Instance |-> NoCounter]
  /\ base = [i \in Instance |-> [c \in Counter |-> Unread]]

Init == KernelInit /\ ScannerInit

-----------------------------------------------------------------------------
(* The schedules of the two expensive reads.                               *)

ShouldScanFDs(c, no) == c.fdEvery <= 1 \/ no % c.fdEvery = 1 \/ no = 1

ShouldScanSmaps(c, no) ==
  /\ c.readSmaps
  /\ c.smapsEvery <= 1 \/ no = 1 \/ no % c.smapsEvery = c.smapsEvery \div 2

(***************************************************************************)
(* What a read of a file of PID p may return.  A process without a memory  *)
(* map has no descriptors to list (io.EOF at once), and its smaps_rollup   *)
(* answers ESRCH where its smaps is an empty file; either may be denied    *)
(* before that.                                                            *)
(***************************************************************************)
WithoutMemory(f) ==
  CASE f = "fd"                    -> {"failed"}
    [] f = "smaps" /\ SmapsRollup  -> {"vanished"}
    [] f = "smaps" /\ ~SmapsRollup -> {"ok"}

Outcome(f, p) ==
  IF p \notin DOMAIN proc THEN {"vanished"}
  ELSE IF NoMemory(p) /\ f \in {"fd", "smaps"}
       THEN WithoutMemory(f) \cup (Faults[f] \cap {"denied"})
  ELSE {"ok"} \cup Faults[f]

\* argv of PID p: empty for kernel threads and zombies.
CmdlineOf(p) == IF NoMemory(p) THEN NoText ELSE proc[p].prog.cmd

\* readlink on /proc/<pid>/exe; its error is dropped and leaves NoText.
ExeOf(p) == IF p \notin DOMAIN proc \/ NoMemory(p) THEN NoText ELSE proc[p].prog.exe

-----------------------------------------------------------------------------
(* Which reads a process needs, and which comes next.                      *)

Cached(c, r) == r.havePrev /\ c.cacheCmdline

NeedCmdline(c, r) ==
  NeedsCmdline(c.filter) \/ ~Cached(c, r) \/ m[r.pid].name = NoText

NeedStatus(c, r) == c.readStatus \/ r.user = NoUser

AfterCmdline(c, r) == IF NeedStatus(c, r) THEN "status" ELSE "filter"
AfterStat(c, r)    == IF NeedCmdline(c, r) THEN "cmdline" ELSE AfterCmdline(c, r)
AfterFDs           == IF scan.doSmaps THEN "smaps" ELSE "record"
AfterIO            == IF scan.doFDs THEN "fd" ELSE AfterFDs
AfterStatm         == IF scan.cfg.readIO THEN "io" ELSE AfterIO

\* readProcess returns nil.
Drop ==
  /\ pc' = "walk"
  /\ rd' = NoReading

\* Mistake: a process that vanishes is not counted.
VanishUncounted(p) == Drop /\ UNCHANGED res

\* Mistake: a read whose process vanished is tried again.
VanishRetrying(p) == UNCHANGED <<pc, rd, res>>

Vanish(p) ==
  /\ Drop
  /\ res' = [res EXCEPT !.vanished = @ \cup {p}]

Note(f, p) == res' = [res EXCEPT !.errs = @ \cup {<<f, p>>}]

\* A permission error on io, fd and smaps is an omission, not an error.
NoteUnlessDenied(f, o) == IF o = "denied" THEN UNCHANGED res ELSE Note(f, rd.pid)

-----------------------------------------------------------------------------
(* Scan: the walk in batches.                                              *)

Batch == IF scan.cfg.batch < 1 THEN 1 ELSE scan.cfg.batch

BeginScan ==
  /\ pc = "idle"
  /\ scanNo < MaxScans
  /\ gen' = NextGeneration(gen)
  /\ scanNo' = scanNo + 1
  /\ res' = NoResult
  /\ \/ /\ ListFaults
        /\ UNCHANGED <<pc, scan>>
     \/ /\ pc' = "walk"
        /\ scan' = [ cfg     |-> cfg,
                     listed  |-> DOMAIN proc,
                     todo    |-> DOMAIN proc,
                     room    |-> 0,
                     doFDs   |-> ShouldScanFDs(cfg, scanNo'),
                     doSmaps |-> ShouldScanSmaps(cfg, scanNo') ]
  /\ UNCHANGED <<kernelVars, cfg, cancelled, m, rd, historyVars>>

AtBatchEnd == pc = "walk" /\ scan.todo # {} /\ scan.room = 0

\* The context is done before a batch, or during the sleep after one.
AbortScan ==
  /\ AtBatchEnd
  /\ cancelled
  /\ pc' = "stopped"
  /\ res' = NoResult
  /\ UNCHANGED <<kernelVars, cfg, cancelled, m, gen, scanNo, scan, rd, historyVars>>

\* Mistake: the context is looked at between scans only.
StartBatchUnchecked ==
  /\ AtBatchEnd
  /\ scan' = [scan EXCEPT !.room = Batch]
  /\ UNCHANGED <<kernelVars, cfg, cancelled, m, gen, scanNo, pc, rd, res, historyVars>>

\* The context is not done: what comes after this look finds a batch to read.
StartBatch ==
  /\ AtBatchEnd
  /\ ~cancelled
  /\ scan' = [scan EXCEPT !.room = Batch]
  /\ UNCHANGED <<kernelVars, cfg, cancelled, m, gen, scanNo, pc, rd, res, historyVars>>

EndScan ==
  /\ pc = "walk"
  /\ scan.todo = {}
  /\ pc' = "idle"
  /\ m' = Prune(m, gen)
  /\ UNCHANGED <<kernelVars, cfg, cancelled, gen, scanNo, scan, rd, res, historyVars>>

-----------------------------------------------------------------------------
(* readProcess.                                                            *)

\* The reading after stat and Lookup, with the cached user if there is one.
StatReading(c, p) ==
  LET start == proc[p].start
      r     == [ NoReading EXCEPT
                   !.pid = p, !.start = start, !.comm = proc[p].prog.comm,
                   !.kernel = proc[p].prog.kernel, !.zombie = proc[p].zombie,
                   !.havePrev = Lookup(m, p, start).found,
                   !.val["cpu"] = work[start], !.have["cpu"] = TRUE ]
  IN  IF Cached(c, r) /\ m[p].user # NoUser
      THEN [r EXCEPT !.uid = m[p].uid, !.user = m[p].user]
      ELSE r

ReadStat(p) ==
  /\ pc = "walk"
  /\ p \in scan.todo
  /\ scan.room > 0
  /\ scan' = [scan EXCEPT !.todo = @ \ {p}, !.room = @ - 1]
  /\ late' = IF cancelled THEN late + 1 ELSE late
  /\ \E o \in Outcome("stat", p) :
       \/ /\ o = "vanished"
          /\ Vanish(p)
          /\ UNCHANGED m
       \/ /\ o = "denied"
          /\ Drop
          /\ res' = [res EXCEPT !.denied = @ \cup {p}]
          /\ UNCHANGED m
       \/ /\ o = "failed"
          /\ Drop
          /\ Note("stat", p)
          /\ UNCHANGED m
       \/ /\ o = "ok"
          /\ m' = Lookup(m, p, proc[p].start).map
          /\ rd' = StatReading(scan.cfg, p)
          /\ pc' = AfterStat(scan.cfg, rd')
          /\ UNCHANGED res
  /\ UNCHANGED <<kernelVars, cfg, cancelled, gen, scanNo, emitted, base>>

ReadCmdline ==
  /\ pc = "cmdline"
  /\ \E o \in Outcome("cmdline", rd.pid) :
       \/ o = "vanished" /\ Vanish(rd.pid)
       \/ /\ o # "vanished"
          /\ rd' = [rd EXCEPT !.cmdRead = TRUE,
                              !.cmdline = IF o = "ok" THEN CmdlineOf(rd.pid) ELSE NoText]
          /\ pc' = AfterCmdline(scan.cfg, rd)
          /\ IF o = "ok" THEN UNCHANGED res ELSE Note("cmdline", rd.pid)
  /\ UNCHANGED <<kernelVars, cfg, cancelled, m, gen, scanNo, scan, historyVars>>

ReadStatus ==
  /\ pc = "status"
  /\ \E o \in Outcome("status", rd.pid) :
       \/ o = "vanished" /\ Vanish(rd.pid)
       \/ /\ o \in {"denied", "failed"}
          /\ rd' = [rd EXCEPT !.statusRead = TRUE]
          /\ pc' = "filter"
          /\ Note("status", rd.pid)
       \/ /\ o = "ok"
          /\ LET u == proc[rd.pid].uid
             IN  rd' = [ rd EXCEPT
                           !.statusRead = TRUE, !.uid = u,
                           !.user = IF @ = NoUser THEN UserName(scan.cfg, u) ELSE @,
                           !.val["ctx"] = work[proc[rd.pid].start],
                           !.have["ctx"] = TRUE ]
          /\ pc' = "filter"
          /\ UNCHANGED res
  /\ UNCHANGED <<kernelVars, cfg, cancelled, m, gen, scanNo, scan, historyVars>>

FilterInput(r) ==
  [ comm |-> r.comm, cmdline |-> r.cmdline, user |-> r.user,
    isKernel |-> r.cmdRead /\ IsKernelThread(r.cmdline, r.kernel) ]

\* The filter, then the name: cached, or derived after one more readlink.
FilterAndName ==
  /\ pc = "filter"
  /\ LET c    == scan.cfg
         in   == [comm |-> rd.comm, exe |-> ExeOf(rd.pid), cmdline |-> rd.cmdline]
         name == IF Cached(c, rd) /\ m[rd.pid].name # NoText
                 THEN m[rd.pid].name
                 ELSE GroupName(c.rules, c.fallback, in)
     IN  \/ /\ ~Keep(c.filter, FilterInput(rd), NoUser)
            /\ m' = Touch(m, gen, rd.pid)
            /\ res' = [res EXCEPT !.ignored = @ \cup {rd.pid}]
            /\ Drop
         \/ /\ Keep(c.filter, FilterInput(rd), NoUser)
            /\ rd' = [rd EXCEPT !.name = name,
                                !.user = IF @ = NoUser THEN UidString(rd.uid) ELSE @]
            /\ pc' = "statm"
            /\ UNCHANGED <<m, res>>
  /\ UNCHANGED <<kernelVars, cfg, cancelled, gen, scanNo, scan, historyVars>>

ReadStatm ==
  /\ pc = "statm"
  /\ \E o \in Outcome("statm", rd.pid) :
       \/ o = "vanished" /\ Vanish(rd.pid)
       \/ /\ o # "vanished"
          /\ pc' = AfterStatm
          /\ UNCHANGED rd
          /\ IF o = "ok" THEN UNCHANGED res ELSE Note("statm", rd.pid)
  /\ UNCHANGED <<kernelVars, cfg, cancelled, m, gen, scanNo, scan, historyVars>>

ReadIO ==
  /\ pc = "io"
  /\ \E o \in Outcome("io", rd.pid) :
       \/ o = "vanished" /\ Vanish(rd.pid)
       \/ /\ o \in {"denied", "failed"}
          /\ pc' = AfterIO
          /\ UNCHANGED rd
          /\ NoteUnlessDenied("io", o)
       \/ /\ o = "ok"
          /\ rd' = [rd EXCEPT !.val["io"] = work[proc[rd.pid].start], !.have["io"] = TRUE]
          /\ pc' = AfterIO
          /\ UNCHANGED res
  /\ UNCHANGED <<kernelVars, cfg, cancelled, m, gen, scanNo, scan, historyVars>>

ReadFDs ==
  /\ pc = "fd"
  /\ \E o \in Outcome("fd", rd.pid) :
       \/ o = "vanished" /\ Vanish(rd.pid)
       \/ /\ o # "vanished"
          /\ rd' = [rd EXCEPT !.haveFDs = (o = "ok")]
          /\ pc' = AfterFDs
          /\ IF o = "ok" THEN UNCHANGED res ELSE NoteUnlessDenied("fd", o)
  /\ UNCHANGED <<kernelVars, cfg, cancelled, m, gen, scanNo, scan, historyVars>>

ReadSmaps ==
  /\ pc = "smaps"
  /\ \E o \in Outcome("smaps", rd.pid) :
       \/ o = "vanished" /\ Vanish(rd.pid)
       \/ /\ o # "vanished"
          /\ rd' = [rd EXCEPT !.havePSS = (o = "ok")]
          /\ pc' = "record"
          /\ IF o = "ok" THEN UNCHANGED res ELSE NoteUnlessDenied("smaps", o)
  /\ UNCHANGED <<kernelVars, cfg, cancelled, m, gen, scanNo, scan, historyVars>>

\* Mistakes: the old figure outlives a refresh that failed.
CarriesAnyFDs == rd.havePrev /\ m[rd.pid].haveFDs
CarriesAnyPSS == scan.cfg.readSmaps /\ rd.havePrev /\ m[rd.pid].havePSS

(***************************************************************************)
(* The end of readProcess.  A family that was not read has the value zero  *)
(* in the new state; a figure that was not due is carried over.            *)
(***************************************************************************)
CarriesFDs == ~scan.doFDs /\ rd.havePrev /\ m[rd.pid].haveFDs

CarriesPSS ==
  scan.cfg.readSmaps /\ ~scan.doSmaps /\ rd.havePrev /\ m[rd.pid].havePSS

\* Mistake: the identity is not stored with the entry.
NewStateUnidentified ==
  [ start |-> 0, gen |-> 0, cnt |-> rd.val,
    name |-> rd.name, user |-> rd.user, uid |-> rd.uid,
    haveFDs |-> rd.haveFDs \/ CarriesFDs, fdAt |-> NeverRead,
    havePSS |-> rd.havePSS \/ CarriesPSS, pssAt |-> NeverRead ]

NewState ==
  [ start |-> rd.start, gen |-> 0, cnt |-> rd.val,
    name |-> rd.name, user |-> rd.user, uid |-> rd.uid,
    haveFDs |-> rd.haveFDs \/ CarriesFDs,
    fdAt |-> IF rd.haveFDs THEN scanNo
             ELSE IF CarriesFDs THEN m[rd.pid].fdAt ELSE NeverRead,
    havePSS |-> rd.havePSS \/ CarriesPSS,
    pssAt |-> IF rd.havePSS THEN scanNo
              ELSE IF CarriesPSS THEN m[rd.pid].pssAt ELSE NeverRead ]

\* Mistake: without a previous entry everything is new.
DeltasFromZero ==
  [c \in Counter |-> Delta(rd.val[c], IF rd.havePrev THEN m[rd.pid].cnt[c] ELSE 0)]

Deltas ==
  [c \in Counter |-> IF rd.havePrev THEN Delta(rd.val[c], m[rd.pid].cnt[c]) ELSE 0]

\* The reading, as far as the aggregator and the properties look at it.
Reading ==
  [ start |-> rd.start, comm |-> rd.comm, name |-> rd.name, user |-> rd.user,
    uid |-> rd.uid, zombie |-> rd.zombie, haveDeltas |-> rd.havePrev,
    d |-> Deltas, have |-> rd.have,
    haveFDs |-> NewState.haveFDs, fdAt |-> NewState.fdAt,
    havePSS |-> NewState.havePSS, pssAt |-> NewState.pssAt ]

Record ==
  /\ pc = "record"
  /\ m' = Put(m, gen, rd.pid, NewState)
  /\ res' = [res EXCEPT !.procs = [p \in DOMAIN @ \cup {rd.pid} |->
                                     IF p = rd.pid THEN Reading ELSE @[p]]]
  /\ emitted' = [emitted EXCEPT ![rd.start] =
                   [c \in Counter |-> @[c] + IF rd.have[c] THEN Deltas[c] ELSE 0]]
  /\ base' = [base EXCEPT ![rd.start] =
                [c \in Counter |-> IF @[c] = Unread /\ rd.have[c]
                                   THEN rd.val[c] ELSE @[c]]]
  /\ Drop
  /\ UNCHANGED <<kernelVars, cfg, cancelled, gen, scanNo, scan, late>>

-----------------------------------------------------------------------------
(* The scanner's surroundings.                                             *)

\* The watcher activated another configuration.
Reload(c) ==
  /\ c # cfg
  /\ cfg' = c
  /\ UNCHANGED <<kernelVars, cancelled, scannerVars, historyVars>>

\* ResetState, between scans: a new map, whose generations start again.
ResetState ==
  /\ Resets
  /\ pc = "idle"
  /\ m # NewStateMap
  /\ m' = NewStateMap
  /\ gen' = 0
  /\ UNCHANGED <<kernelVars, cfg, cancelled, scanNo, pc, scan, rd, res, historyVars>>

Cancel ==
  /\ Cancels
  /\ ~cancelled
  /\ cancelled' = TRUE
  /\ UNCHANGED <<kernelVars, cfg, scannerVars, historyVars>>

\* The scan loop sees the context between two scans.
Stop ==
  /\ pc = "idle"
  /\ cancelled
  /\ pc' = "stopped"
  /\ UNCHANGED <<kernelVars, cfg, cancelled, m, gen, scanNo, scan, rd, res, historyVars>>

\* Not a step of the program: an exporter that stopped, or the bound MaxScans.
Halted ==
  /\ \/ pc = "stopped"
     \/ pc = "idle" /\ scanNo = MaxScans
  /\ UNCHANGED vars

ScanStep ==
  \/ BeginScan \/ StartBatch \/ AbortScan \/ EndScan
  \/ \E p \in PIDS : ReadStat(p)
  \/ ReadCmdline \/ ReadStatus \/ FilterAndName
  \/ ReadStatm \/ ReadIO \/ ReadFDs \/ ReadSmaps \/ Record

KernelStep == KernelNext /\ UNCHANGED <<cfg, cancelled, scannerVars, historyVars>>

Next ==
  \/ KernelStep
  \/ ScanStep
  \/ \E c \in Configs : Reload(c)
  \/ ResetState
  \/ Cancel
  \/ Stop
  \/ Halted

Spec == Init /\ [][Next]_vars

(***************************************************************************)
(* The scanner's goroutine keeps running: a system call on /proc returns,  *)
(* and the loop that calls Scan is never blocked for ever.  Nothing is     *)
(* assumed of the kernel, of reloads or of the operator.                   *)
(***************************************************************************)
FairSpec == Spec /\ WF_vars(ScanStep)

-----------------------------------------------------------------------------
(* Correctness.                                                            *)

KernelTypeOK ==
  /\ DOMAIN proc \subseteq PIDS
  /\ \A p \in DOMAIN proc : proc[p] \in Process /\ proc[p].start <= lastStart
  /\ lastStart \in 0..MaxStart
  /\ work \in [Instance -> 0..MaxWork]

StateMapTypeOK ==
  /\ gen \in Nat
  /\ DOMAIN m \subseteq PIDS
  /\ \A p \in DOMAIN m : /\ DOMAIN m[p] = PIDStateFields
                          /\ m[p].start \in 1..lastStart
                          /\ m[p].gen \in Nat
                          /\ m[p].cnt \in CounterValues

ReadingTypeOK ==
  /\ DOMAIN rd = DOMAIN NoReading
  /\ rd.val \in CounterValues
  /\ rd.have \in [Counter -> BOOLEAN]
  /\ pc \in Steps => /\ rd.pid \in PIDS
                     /\ rd.start \in 1..lastStart
                     /\ rd.havePrev => rd.pid \in DOMAIN m /\ m[rd.pid].start = rd.start

ControlTypeOK ==
  /\ cfg \in Configs
  /\ cancelled \in BOOLEAN
  /\ scanNo \in 0..MaxScans
  /\ pc \in Steps \cup {"idle", "walk", "stopped"}
  /\ late \in Nat

HistoryTypeOK ==
  /\ emitted \in [Instance -> CounterValues]
  /\ base \in [Instance -> [Counter -> Nat \cup {Unread}]]

\* Shape of the state.  An entry that Lookup found is still there, for the
\* same process, when the reading is recorded (readProcess uses prev after
\* every other read).
TypeOK ==
  KernelTypeOK /\ StateMapTypeOK /\ ReadingTypeOK /\ ControlTypeOK /\ HistoryTypeOK

(***************************************************************************)
(* What is counted for a process never includes what it did before the     *)
(* exporter first read the counter: the lifetime total that PIDState is    *)
(* there to subtract (state.go, PIDState; computeDeltas).                  *)
(***************************************************************************)
NoLifetimeTotal(c) ==
  \A i \in Instance :
    emitted[i][c] > 0 => base[i][c] # Unread /\ emitted[i][c] + base[i][c] <= work[i]

\* The same for the counters of stat, through PID reuse, lost entries and
\* every fault (Lookup's identity check, Delta).
NoLifetimeTotalCPU == NoLifetimeTotal("cpu")

\* The same for the bytes of io, a file that is often denied.
NoLifetimeTotalIO == NoLifetimeTotal("io")

(***************************************************************************)
(* The baselines telescope: what was counted plus what was there at first  *)
(* is exactly the last value read, so nothing is lost or counted twice     *)
(* while a process keeps its entry (computeDeltas, Put).                   *)
(***************************************************************************)
Conserved(c) ==
  \A p \in DOMAIN m :
    LET i == m[p].start
    IN  base[i][c] # Unread /\ emitted[i][c] + base[i][c] = m[p].cnt[c]

\* Ticks and faults are conserved, also across PID reuse.
CPUConserved == Conserved("cpu")

\* Context switches and bytes are conserved while their files can be read.
CtxIOConserved == Conserved("ctx") /\ Conserved("io")

(***************************************************************************)
(* Every listed process that the walk has passed is counted once, as       *)
(* scanned, ignored, vanished, denied or a stat error (Result).            *)
(***************************************************************************)
Tallies ==
  << DOMAIN res.procs, res.ignored, res.vanished, res.denied,
     {p \in PIDS : <<"stat", p>> \in res.errs} >>

Passed == scan.listed \ (scan.todo \cup {rd.pid})

Accounting ==
  pc \in Steps \cup {"walk"} =>
    /\ UNION {Tallies[k] : k \in DOMAIN Tallies} = Passed
    /\ \A j, k \in DOMAIN Tallies : j # k => Tallies[j] \cap Tallies[k] = {}

(***************************************************************************)
(* A completed scan leaves an entry for each process it reported and for   *)
(* each ignored process that had one, and no other: this is what bounds    *)
(* the map (Prune, Touch).                                                 *)
(***************************************************************************)
MapTracksScan ==
  [][pc = "walk" /\ pc' = "idle" =>
       DOMAIN m' = DOMAIN res.procs \cup (res.ignored \cap DOMAIN m)]_vars

(***************************************************************************)
(* The entry of a process that still runs is never dropped: entries of an  *)
(* older generation belong to processes that no longer exist (Prune), and  *)
(* an entry whose start time differs to a dead one (Lookup).               *)
(***************************************************************************)
KeepsLive ==
  [][\A p \in DOMAIN m :
       Alive(p, m[p].start) => p \in DOMAIN m' /\ m'[p].start = m[p].start]_vars

(***************************************************************************)
(* The cached identity of a running process is its own: no name or user    *)
(* is inherited from an earlier holder of the PID, or put together from    *)
(* the files of two (Lookup, the caches of readProcess).                   *)
(***************************************************************************)
OwnIdentity ==
  \A p \in DOMAIN m \cap DOMAIN proc :
    LET g == proc[p].prog
    IN  m[p].start = proc[p].start /\ ~proc[p].zombie =>
          /\ m[p].uid = proc[p].uid
          /\ m[p].user = UserName(cfg, proc[p].uid)
          /\ m[p].name = GroupName(cfg.rules, cfg.fallback,
                                   [comm |-> g.comm, exe |-> g.exe, cmdline |-> g.cmd])

(***************************************************************************)
(* A read is skipped only where nothing depends on it: the filter would    *)
(* decide the same over every command line and the name is cached, and a   *)
(* user is missing only if status was tried (Filter.NeedsCmdline and the   *)
(* two conditions of readProcess).  It says nothing of a read that failed: *)
(* the code then decides over an empty text.                               *)
(***************************************************************************)
SkipsUnneeded ==
  pc = "filter" =>
    /\ rd.user = NoUser => rd.statusRead
    /\ ~rd.cmdRead =>
         /\ Cached(scan.cfg, rd) /\ m[rd.pid].name # NoText
         /\ \A t \in CmdlineTexts, k \in BOOLEAN :
              LET in == FilterInput(rd)
              IN  Keep(scan.cfg.filter, [in EXCEPT !.cmdline = t, !.isKernel = k], NoUser)
                    <=> Keep(scan.cfg.filter, in, NoUser)

\* A descriptor count is never older than the fd schedule (shouldScanFDs).
FDFresh ==
  \A p \in DOMAIN res.procs :
    res.procs[p].haveFDs =>
      \/ res.procs[p].fdAt = scanNo
      \/ scanNo - res.procs[p].fdAt < scan.cfg.fdEvery

\* A PSS figure is never older than the smaps schedule (shouldScanSmaps).
PSSFresh ==
  \A p \in DOMAIN res.procs :
    res.procs[p].havePSS =>
      \/ res.procs[p].pssAt = scanNo
      \/ scanNo - res.procs[p].pssAt < scan.cfg.smapsEvery

(***************************************************************************)
(* A stop request is honoured by the end of the batch it came in, which    *)
(* may be one that has only just been let through: of a scan that has      *)
(* begun to read, no more than one of its batches is read after the        *)
(* request, whatever was read of an earlier one (Scan's looks at ctx).     *)
(***************************************************************************)
StopsWithinBatch == scan.todo # scan.listed => late <= Batch

\* A scan that began ends, whatever the machine does meanwhile.
ScanEnds == pc \in Steps \cup {"walk"} ~> pc \in {"idle", "stopped"}

=============================================================================
