------------------------------- MODULE Filter -------------------------------
(***************************************************************************)
(* internal/filter/filter.go: which processes are exported.                *)
(*                                                                         *)
(* A filter is a record of its compiled rules.  A list of patterns is the  *)
(* set of texts it matches, so the exact, prefix and regex forms on comm   *)
(* are one set, ignoreComm: the order among them decides only the reason   *)
(* string, which nothing but a debug log reads.                            *)
(*                                                                         *)
(*   ignoreKernel : BOOLEAN    ignore_kernel_threads                       *)
(*   ignoreComm   : texts      ignore_comm, _prefix and _regex             *)
(*   ignoreCmd    : texts      ignore_cmdline_regex                        *)
(*   ignoreUsers  : users      ignore_users                                *)
(*   includeOnly  : texts      include_only; NoPattern when the list is    *)
(*                             empty                                       *)
(*                                                                         *)
(* A command line is one text, NoText when it is empty or was not read.    *)
(***************************************************************************)

NoText == ""

NoPattern == {}

\* Mistake: an empty argv is a rule too.
NeedsCmdlineForPatterns(f) == f.ignoreCmd # NoPattern \/ f.includeOnly # NoPattern

\* FilterConfig.NeedsCmdline: the rules that cannot decide without argv.
NeedsCmdline(f) ==
  f.ignoreCmd # NoPattern \/ f.ignoreKernel \/ f.includeOnly # NoPattern

\* An empty argv, or a child of kthreadd (PID 2).
IsKernelThread(cmdline, childOfKthreadd) == cmdline = NoText \/ childOfKthreadd

(***************************************************************************)
(* Filter.Keep, on an input with the fields comm, cmdline, user, isKernel. *)
(* The caller passes noUser, the value that stands for an unknown user.    *)
(***************************************************************************)
Included(f, in) ==
  f.includeOnly # NoPattern =>
    in.comm \in f.includeOnly \/ (in.cmdline # NoText /\ in.cmdline \in f.includeOnly)

Keep(f, in, noUser) ==
  /\ Included(f, in)
  /\ ~(f.ignoreKernel /\ in.isKernel)
  /\ in.comm \notin f.ignoreComm
  /\ ~(in.cmdline # NoText /\ in.cmdline \in f.ignoreCmd)
  /\ ~(in.user # noUser /\ in.user \in f.ignoreUsers)

=============================================================================
