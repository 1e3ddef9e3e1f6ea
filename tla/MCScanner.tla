------------------------------ MODULE MCScanner ------------------------------
(***************************************************************************)
(* Values of the constants of Scanner for TLC: small machines, the shape   *)
(* of the default configuration with small periods and batches, and the    *)
(* variants that reach each branch of the code.                            *)
(***************************************************************************)
EXTENDS Scanner, TLC

\* Programs.  A kernel thread is a child of kthreadd and has an empty argv.
Nginx   == [comm |-> "nginx", exe |-> "/sbin/nginx", cmd |-> "nginx -g", kernel |-> FALSE]
Worker  == [comm |-> "kv:1", exe |-> "/bin/kv", cmd |-> "/bin/kv -x", kernel |-> FALSE]
Kthread == [comm |-> "kswapd0", exe |-> NoText, cmd |-> NoText, kernel |-> TRUE]

OneProgram   == {Nginx}
TwoPrograms  == {Nginx, Worker}
WithKthreads == {Nginx, Kthread}

\* filepath.Base and namer.Sanitize on the texts above.
MCBase == [t \in {"/sbin/nginx", "/bin/kv", "nginx -g", "/bin/kv -x"} |->
             CASE t \in {"/sbin/nginx", "nginx -g"} -> "nginx"
               [] OTHER                             -> "kv"]

MCSanitize == [t \in {"nginx", "kv", "kv:1", "kswapd0", "unknown", "web"} |->
                 IF t = "kv:1" THEN "kv_1" ELSE t]

\* Filters and rules.
DefaultFilter ==
  [ignoreKernel |-> TRUE, ignoreComm |-> {}, ignoreCmd |-> {},
   ignoreUsers |-> {}, includeOnly |-> {}]
NoFilter   == [DefaultFilter EXCEPT !.ignoreKernel = FALSE]
CommFilter == [NoFilter EXCEPT !.ignoreComm = {"kv:1"}]
NginxFilter == [NoFilter EXCEPT !.ignoreComm = {"nginx"}]
UserFilter == [NoFilter EXCEPT !.ignoreUsers = {<<"name", 1>>}]

RuleWeb == [comms |-> {"nginx"}, exes |-> {"/sbin/nginx"}, from |-> "comm",
            literal |-> TRUE, name |-> "web", extract |-> <<>>]

Default ==
  [ readIO |-> TRUE, readStatus |-> TRUE, cacheCmdline |-> TRUE,
    resolveUsers |-> TRUE, readSmaps |-> FALSE, fdEvery |-> 4, smapsEvery |-> 4,
    batch |-> 1, filter |-> DefaultFilter, rules |-> <<>>, fallback |-> "comm" ]

Plain      == [Default EXCEPT !.filter = NoFilter]
Named      == [Plain EXCEPT !.rules = <<RuleWeb>>, !.fallback = "exe_basename"]
IgnoresKv  == [Plain EXCEPT !.filter = CommFilter, !.readSmaps = TRUE]
IgnoresOne == [Plain EXCEPT !.filter = UserFilter]
OnlyKv     == [Plain EXCEPT !.filter = [NoFilter EXCEPT !.includeOnly = {"kv:1"}]]
EveryTwo   == [Plain EXCEPT !.fdEvery = 2, !.readSmaps = TRUE, !.smapsEvery = 2]
BatchTwo   == [Plain EXCEPT !.readStatus = FALSE, !.readIO = FALSE, !.batch = 2,
                            !.cacheCmdline = FALSE]

Filters      == {Default, IgnoresKv, IgnoresOne, OnlyKv}
OneNaming    == {Named, [Named EXCEPT !.cacheCmdline = FALSE, !.readStatus = FALSE,
                                      !.filter = NginxFilter]}
OnlyPlain    == {Plain}
OnlyEveryTwo == {EveryTwo}
MixedBatches == {BatchTwo, [BatchTwo EXCEPT !.batch = 1]}

\* Read outcomes, besides "ok".
NoFaults  == [f \in File |-> {}]
AllFaults == [f \in File |-> Outcomes \ {"ok"}]
IODenied  == [NoFaults EXCEPT !["io"] = {"denied"}]

\* Users: 1 has an account, 0 has none.
OneUser  == {1}
TwoUsers == {0, 1}

Churn    == {"fork", "run", "reap"}
Idles    == {"fork", "run"}
ExecsSet == {"fork", "run", "exec", "setuid", "exit"}

OnePID    == {1}
ThreePIDs == {1, 2, 3}

=============================================================================
