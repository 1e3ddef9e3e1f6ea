----------------------------- MODULE MCExporter -----------------------------
(***************************************************************************)
(* Values of the constants of Exporter for TLC: two processes of up to two *)
(* groups, readable or not, with and without a limit.                      *)
(***************************************************************************)
EXTENDS Exporter

Read   == [c \in Counter |-> TRUE]
Unread == [c \in Counter |-> c = "cpu"]
One    == [c \in Counter |-> 1]

Web == [ name |-> "web", user |-> 1, haveDeltas |-> FALSE, have |-> Read, d |-> One,
         zombie |-> FALSE, haveFDs |-> TRUE, openFDs |-> 1, maxFDs |-> 2, ratio |-> 50,
         havePSS |-> TRUE, pss |-> 4 ]

Denied    == [Web EXCEPT !.have = Unread, !.haveFDs = FALSE, !.havePSS = FALSE]
Db        == [Web EXCEPT !.name = "db", !.openFDs = 9, !.maxFDs = 0, !.ratio = 0]

OneDenied == [procs |-> [p \in {1} |-> Denied], errs |-> 1]
WebAndDb  == [procs |-> [p \in {1, 2} |-> IF p = 1 THEN Web ELSE Db], errs |-> 0]

\* db comes and goes beside web, whose io file may be denied.
ChurnResults == {OneDenied, WebAndDb}

ByFDs == {"fds"}

=============================================================================
