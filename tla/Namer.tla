-------------------------------- MODULE Namer --------------------------------
(***************************************************************************)
(* internal/namer/namer.go: the group name of a process.                   *)
(*                                                                         *)
(* A compiled rule is a record:                                            *)
(*   comms   : the comm values its match conditions on comm accept         *)
(*   exes    : the executable paths match_exe_regex accepts, AnyExe when   *)
(*             the rule has none                                           *)
(*   from    : "comm", "exe" or "cmdline"                                  *)
(*   literal : TRUE when the rule has no extraction regex                  *)
(*   name    : the template of a literal rule                              *)
(*   extract : the texts the regex matches with a non-empty expansion,     *)
(*             mapped to that expansion                                    *)
(*                                                                         *)
(* An input has the fields comm, exe and cmdline; NoText is an absent one. *)
(***************************************************************************)
EXTENDS Naturals, Sequences, Filter

CONSTANTS
  AnyExe,    \* stands for "no match_exe_regex"
  Base,      \* filepath.Base, as a function on the texts of the model
  Sanitize   \* namer.Sanitize, as a function from derived names to labels

RuleMatches(r, in) ==
  /\ in.comm \in r.comms
  /\ r.exes # AnyExe => (in.exe # NoText /\ in.exe \in r.exes)

SourceText(from, in) ==
  CASE from = "comm"    -> in.comm
    [] from = "exe"     -> in.exe
    [] from = "cmdline" -> in.cmdline

\* A rule that matches but whose extraction fails does not apply.
RuleApplies(r, in) ==
  /\ RuleMatches(r, in)
  /\ \/ r.literal
     \/ /\ SourceText(r.from, in) # NoText
        /\ SourceText(r.from, in) \in DOMAIN r.extract

RuleName(r, in) == IF r.literal THEN r.name ELSE r.extract[SourceText(r.from, in)]

(***************************************************************************)
(* fallbackName tries its sources in an order that depends on the          *)
(* configured fallback, and takes the first that is present.               *)
(***************************************************************************)
FallbackOrder(fallback) ==
  CASE fallback = "exe_basename"     -> <<"exe", "cmdline", "comm">>
    [] fallback = "cmdline_basename" -> <<"cmdline", "exe", "comm">>
    [] OTHER                         -> <<"comm", "exe", "cmdline">>

FallbackName(fallback, in) ==
  LET order   == FallbackOrder(fallback)
      present == {i \in DOMAIN order : SourceText(order[i], in) # NoText}
  IN  IF present = {} THEN "unknown"
      ELSE LET i == CHOOSE j \in present : \A k \in present : j <= k
               t == SourceText(order[i], in)
           IN  IF order[i] = "comm" THEN t ELSE Base[t]

\* The first rule that matches and extracts wins; otherwise the fallback.
GroupName(rules, fallback, in) ==
  LET hits == {i \in DOMAIN rules : RuleApplies(rules[i], in)}
  IN  Sanitize[IF hits = {}
               THEN FallbackName(fallback, in)
               ELSE RuleName(rules[CHOOSE i \in hits : \A j \in hits : i <= j], in)]

=============================================================================
