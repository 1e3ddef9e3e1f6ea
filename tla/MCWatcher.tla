------------------------------ MODULE MCWatcher ------------------------------
(***************************************************************************)
(* Values of the constants of Watcher and LoadConfig for TLC.              *)
(***************************************************************************)
EXTENDS Watcher

Rule(comm, regex, name) ==
  [ match_comm |-> comm, match_comm_prefix |-> "", match_comm_regex |-> "",
    match_exe_regex |-> "", from |-> "", regex |-> regex, name |-> name ]

(***************************************************************************)
(* Files of one size that load differently and files that load the same;   *)
(* patterns that do not compile, in a list and in a rule; batch settings   *)
(* on both sides of the estimate; a list that is empty; a file the decoder *)
(* rejects.                                                                *)
(***************************************************************************)
MCDocument ==
  [ defaults |-> [batch_size |-> 50],
    spelled  |-> [batch_size |-> 50, ignore_comm |-> Nil],
    tuned    |-> [batch_size |-> 3, batch_sleep |-> 7, ignore_comm |-> <<>>],
    slow     |-> [batch_size |-> 3, batch_sleep |-> 8],
    only     |-> [include_only |-> <<"^j">>, rules |-> <<Rule("java", "jar", "java/$1")>>],
    badOnly  |-> [include_only |-> <<"^j", "(">>],
    badRule  |-> [rules |-> <<Rule("java", "(", "app")>>],
    broken   |-> Unparsable ]

MCContents  == DOMAIN MCDocument
TwoContents == {"tuned", "defaults", "slow"}
MCSize      == [c \in MCContents |-> IF c = "spelled" THEN 2 ELSE 1]
OneSub      == <<"scanner">>
TwoSubs     == <<"scanner", "server">>

MCDirs        == {"/proc"}
MCBadPatterns == {"("}
MCReferring   == {"java/$1"}
MCRooted      == {"/metrics"}

=============================================================================
