------------------------------ MODULE ProcTable ------------------------------
(***************************************************************************)
(* The machine under observation: the process table the kernel shows under *)
(* /proc.  It is not code of the exporter; it is modelled from what the    *)
(* readers of internal/procfs and the scanner assume about it.             *)
(*                                                                         *)
(* A process is an instance, numbered by its start time.  A PID names one  *)
(* instance at a time and is free again after the instance was reaped, so  *)
(* a later instance may hold the same PID.  Start times are distinct: two  *)
(* instances of one PID never start in the same clock tick.                *)
(*                                                                         *)
(* Every unit of work adds one to each of an instance's counters, so the   *)
(* true value of every counter is work[instance].                          *)
(***************************************************************************)
EXTENDS Integers, FiniteSets

CONSTANTS
  PIDS,      \* PIDs the kernel hands out
  Programs,  \* programs: records [comm, exe, cmd, kernel]
  UIDS,      \* user ids
  MaxStart,  \* bound: instances ever started
  MaxWork,   \* bound: work of one instance
  KernelOps  \* which of the kernel's operations occur in an instance

\* There is a greatest PID (pid_max).
ASSUME KernelAssumption ==
  /\ PIDS \subseteq Nat \ {0}
  /\ IsFiniteSet(PIDS)
  /\ UIDS \subseteq Nat
  /\ MaxStart \in Nat
  /\ MaxWork \in Nat

VARIABLES
  proc,       \* PID -> [start, prog, uid, zombie], for the PIDs in use
  lastStart,  \* start time of the newest instance
  work        \* instance -> true value of its counters

kernelVars == <<proc, lastStart, work>>

Instance == 1..MaxStart

Process == [start : Instance, prog : Programs, uid : UIDS, zombie : BOOLEAN]

KernelInit ==
  /\ proc = [p \in {} |-> 0]
  /\ lastStart = 0
  /\ work = [i \in Instance |-> 0]

Alive(p, start) == p \in DOMAIN proc /\ proc[p].start = start

\* Kernel threads and zombies have no memory map and no descriptor table.
NoMemory(p) == proc[p].prog.kernel \/ proc[p].zombie

Fork(p, g, u) ==
  /\ "fork" \in KernelOps
  /\ p \notin DOMAIN proc
  /\ lastStart < MaxStart
  /\ lastStart' = lastStart + 1
  /\ proc' = [q \in DOMAIN proc \cup {p} |->
                IF q = p
                THEN [start |-> lastStart + 1, prog |-> g, uid |-> u, zombie |-> FALSE]
                ELSE proc[q]]
  /\ UNCHANGED work

Run(p) ==
  /\ "run" \in KernelOps
  /\ p \in DOMAIN proc
  /\ ~proc[p].zombie
  /\ work[proc[p].start] < MaxWork
  /\ work' = [work EXCEPT ![proc[p].start] = @ + 1]
  /\ UNCHANGED <<proc, lastStart>>

\* execve: the program changes, the PID, start time and counters do not.
Exec(p, g) ==
  /\ "exec" \in KernelOps
  /\ p \in DOMAIN proc
  /\ ~proc[p].zombie
  /\ g # proc[p].prog
  /\ proc' = [proc EXCEPT ![p].prog = g]
  /\ UNCHANGED <<lastStart, work>>

SetUID(p, u) ==
  /\ "setuid" \in KernelOps
  /\ p \in DOMAIN proc
  /\ ~proc[p].zombie
  /\ u # proc[p].uid
  /\ proc' = [proc EXCEPT ![p].uid = u]
  /\ UNCHANGED <<lastStart, work>>

\* Exit leaves a zombie until the parent reaps it.
Exit(p) ==
  /\ "exit" \in KernelOps
  /\ p \in DOMAIN proc
  /\ ~proc[p].zombie
  /\ proc' = [proc EXCEPT ![p].zombie = TRUE]
  /\ UNCHANGED <<lastStart, work>>

Reap(p) ==
  /\ "reap" \in KernelOps
  /\ p \in DOMAIN proc
  /\ "exit" \in KernelOps => proc[p].zombie
  /\ proc' = [q \in DOMAIN proc \ {p} |-> proc[q]]
  /\ UNCHANGED <<lastStart, work>>

KernelNext ==
  \E p \in PIDS :
    \/ Run(p)
    \/ Exit(p)
    \/ Reap(p)
    \/ \E g \in Programs : Exec(p, g)
    \/ \E u \in UIDS : SetUID(p, u)
    \/ \E g \in Programs, u \in UIDS : Fork(p, g, u)

=============================================================================
