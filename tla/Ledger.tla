------------------------------- MODULE Ledger -------------------------------
(***************************************************************************)
(* What the exporter promises of a group's CPU counter, without scans,     *)
(* files or PIDs: an account of the work of many processes.                *)
(*                                                                         *)
(* A process works; at some time it is opened, which fixes what it had     *)
(* done before and will never be counted; from then on its work is         *)
(* credited, every unit once and to one group.  A group may be closed,     *)
(* which sets its total to zero, when nothing is credited to it.           *)
(***************************************************************************)
EXTENDS Integers, Functions

CONSTANTS
  Process, \* processes, each with a life of its own
  Group    \* groups they may be counted under

VARIABLES
  consumed, \* process -> the work it has done
  opened,   \* process -> its work when it was opened, or Unopened
  credited, \* process -> its work that was counted
  total     \* group -> the exported counter

ledgerVars == <<consumed, opened, credited, total>>

Unopened == -1

Init ==
  /\ consumed = [i \in Process |-> 0]
  /\ opened = [i \in Process |-> Unopened]
  /\ credited = [i \in Process |-> 0]
  /\ total = [g \in Group |-> 0]

Work(i) ==
  /\ consumed' = [consumed EXCEPT ![i] = @ + 1]
  /\ UNCHANGED <<opened, credited, total>>

\* The reading may be older than the entry it makes.
Open(i) ==
  /\ opened[i] = Unopened
  /\ \E n \in 0..consumed[i] : opened' = [opened EXCEPT ![i] = n]
  /\ UNCHANGED <<consumed, credited, total>>

Credit == [i \in Process |-> credited'[i] - credited[i]]

\* No work is taken back, invented, or counted from before the opening.
Honest(i) ==
  \/ credited'[i] = credited[i]
  \/ /\ opened[i] # Unopened
     /\ credited'[i] >= credited[i]
     /\ credited'[i] + opened[i] <= consumed[i]

\* Each total grows by what is credited to it, or is closed.
Count ==
  /\ DOMAIN credited' = Process /\ DOMAIN total' = Group
  /\ \A i \in Process : Honest(i)
  /\ \E to \in [Process -> Group] :
       \A g \in Group :
         LET members == {i \in Process : to[i] = g /\ Credit[i] > 0}
         IN  \/ total'[g] = total[g] + SumFunctionOnSet(Credit, members)
             \/ total'[g] = 0 /\ members = {}
  /\ UNCHANGED <<consumed, opened>>

Next ==
  \/ \E i \in Process : Work(i) \/ Open(i)
  \/ Count

Spec == Init /\ [][Next]_ledgerVars

=============================================================================
