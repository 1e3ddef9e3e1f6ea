----------------------------- MODULE MCPipeline -----------------------------
(***************************************************************************)
(* Values of the constants of Pipeline for TLC: one PID, programs of two   *)
(* groups, and the reads that a counter of CPU time depends on.            *)
(***************************************************************************)
EXTENDS Pipeline

Nginx == [comm |-> "nginx", exe |-> "/sbin/nginx", cmd |-> "nginx -g", kernel |-> FALSE]
Kv    == [comm |-> "kv", exe |-> "/bin/kv", cmd |-> "/bin/kv -x", kernel |-> FALSE]

TwoPrograms == {Nginx, Kv}

MCBase     == [t \in {"nginx -g"} |-> "nginx"]
MCSanitize == [t \in {"nginx", "kv", "unknown"} |-> t]

Bare ==
  [ readIO |-> FALSE, readStatus |-> FALSE, cacheCmdline |-> TRUE,
    resolveUsers |-> TRUE, readSmaps |-> FALSE, fdEvery |-> 9, smapsEvery |-> 9,
    batch |-> 1, rules |-> <<>>, fallback |-> "comm",
    filter |-> [ignoreKernel |-> FALSE, ignoreComm |-> {}, ignoreCmd |-> {},
                ignoreUsers |-> {}, includeOnly |-> {}] ]

\* The same under a rule that names nginx after the other program.
Renamed ==
  [Bare EXCEPT !.rules = <<[comms |-> {"nginx"}, exes |-> {}, from |-> "comm",
                            literal |-> TRUE, name |-> "kv", extract |-> <<>>]>>]

TwoNamings == {Bare, Renamed}
NoFaults == [f \in File |-> {}]
OneUser  == {1}
Churn    == {"fork", "run", "reap"}
OnePID   == {1}

=============================================================================
