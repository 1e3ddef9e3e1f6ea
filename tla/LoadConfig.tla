------------------------------ MODULE LoadConfig ------------------------------
(***************************************************************************)
(* internal/config: from the text of a file to the configuration in effect *)
(* (Load, Parse, Default, normalise, Validate).                            *)
(*                                                                         *)
(* A document is what the decoder takes from a file: a record of the       *)
(* fields the file mentions, or Unparsable.  A configuration has every     *)
(* field.  Durations are milliseconds; a list is a sequence, Nil when it   *)
(* is not mentioned or null; a pattern is its text.  Switches and          *)
(* ignore_users, which nothing validates, are left out.                    *)
(***************************************************************************)
EXTENDS Integers, Sequences

CONSTANTS
  Unparsable,   \* a file the decoder rejects
  Rejected,     \* what Parse answers when it returns an error
  Nil,          \* a list that was not mentioned
  Dirs,         \* proc_path values that are directories
  BadPatterns,  \* patterns that regexp.Compile rejects
  Referring,    \* rule names with a $ in them
  Rooted        \* metrics paths that start with /

\* The empty pattern compiles.
ASSUME LoadConfigAssumption == "" \notin BadPatterns

Text(t) == t # ""

-----------------------------------------------------------------------------
(* Defaults.  One element stands for the elements of each shipped list.    *)

DefaultIgnoreComm == <<"kthreadd">>
DefaultIgnoreCommPrefix == <<"kworker">>
DefaultIgnoreCommRegex == <<"^kworker">>
DefaultNamingRules ==
  << [ match_comm |-> "java", match_comm_prefix |-> "", match_comm_regex |-> "",
       match_exe_regex |-> "", from |-> "cmdline", regex |-> "jar", name |-> "java/$1" ] >>

Default ==
  [ interval |-> 5000, batch_size |-> 50, batch_sleep |-> 4,
    fd_scan_every |-> 12, smaps_scan_every |-> 12,
    group_retention |-> 3600000, proc_path |-> "/proc",
    ignore_comm |-> Nil, ignore_comm_prefix |-> Nil, ignore_comm_regex |-> Nil,
    ignore_cmdline_regex |-> <<>>, include_only |-> <<>>,
    fallback |-> "comm", rules |-> Nil,
    listen |-> "0.0.0.0:9256", metrics_path |-> "/metrics",
    level |-> "info", format |-> "json" ]

Fields == DOMAIN Default

Numbers == { "interval", "batch_size", "batch_sleep", "fd_scan_every", "smaps_scan_every",
             "group_retention" }

\* The decoder takes numbers for the numeric fields only.
Decoded(doc) == doc # Unparsable => \A f \in Numbers \cap DOMAIN doc : doc[f] \in Int

\* Decoding into Default() leaves what the document does not mention.
Decode(doc) == [f \in Fields |-> IF f \in DOMAIN doc THEN doc[f] ELSE Default[f]]

-----------------------------------------------------------------------------
(* normalise.                                                              *)

\* Mistake: an empty list is taken for one that was left unset.
OrDefaultWhenEmpty(list, default) == IF list \in {Nil, <<>>} THEN default ELSE list

\* A list that was left unset gets its default, an empty one stays empty.
OrDefault(list, default) == IF list = Nil THEN default ELSE list

OrText(t, default) == IF Text(t) THEN t ELSE default

WithFrom(r) == [r EXCEPT !.from = OrText(@, "cmdline")]

Normalise(c) ==
  [ c EXCEPT
      !.ignore_comm        = OrDefault(@, DefaultIgnoreComm),
      !.ignore_comm_prefix = OrDefault(@, DefaultIgnoreCommPrefix),
      !.ignore_comm_regex  = OrDefault(@, DefaultIgnoreCommRegex),
      !.rules              = LET rules == OrDefault(@, DefaultNamingRules)
                             IN  [i \in DOMAIN rules |-> WithFrom(rules[i])],
      !.proc_path          = OrText(@, "/proc"),
      !.fallback           = OrText(@, "comm"),
      !.metrics_path       = OrText(@, "/metrics") ]

\* The lists of texts a file may mention.
Lists == { "ignore_comm", "ignore_comm_prefix", "ignore_comm_regex",
           "ignore_cmdline_regex", "include_only" }

-----------------------------------------------------------------------------
(* Validate, as what must hold for it to report no problem.                *)

Compiles(pattern) == pattern \notin BadPatterns

Elements(list) == IF list = Nil THEN {} ELSE {list[i] : i \in DOMAIN list}

AllCompile(list) == \A p \in Elements(list) : Compiles(p)

\* Mistake: the estimate is made for a small machine.
EstimateSmall(c) == (200 \div c.batch_size) * c.batch_sleep

\* How long a scan of 2000 processes would sleep.
Estimate(c) == (2000 \div c.batch_size) * c.batch_sleep

ScanValid(c) ==
  /\ c.interval >= 1000
  /\ c.batch_size >= 1 /\ c.batch_size <= 10000
  /\ c.batch_sleep >= 0 /\ c.batch_sleep <= 1000
  /\ c.fd_scan_every >= 1 /\ c.smaps_scan_every >= 1
  /\ c.group_retention >= 0
  /\ c.proc_path \in Dirs
  /\ Estimate(c) <= c.interval

\* Mistake: the patterns of include_only are not tried.
IgnorePatternsValid(c) == AllCompile(c.ignore_comm_regex) /\ AllCompile(c.ignore_cmdline_regex)

FilterValid(c) ==
  /\ AllCompile(c.ignore_comm_regex)
  /\ AllCompile(c.ignore_cmdline_regex)
  /\ AllCompile(c.include_only)

RuleValid(r) ==
  /\ \/ Text(r.match_comm) \/ Text(r.match_comm_prefix)
     \/ Text(r.match_comm_regex) \/ Text(r.match_exe_regex)
  /\ Text(r.name)
  /\ r.from \in {"comm", "exe", "cmdline", ""}
  /\ Compiles(r.match_comm_regex) /\ Compiles(r.match_exe_regex) /\ Compiles(r.regex)
  /\ Text(r.regex) \/ r.name \notin Referring

NamingValid(c) ==
  /\ c.fallback \in {"comm", "exe_basename", "cmdline_basename"}
  /\ \A i \in DOMAIN c.rules : RuleValid(c.rules[i])

ServerValid(c) == Text(c.listen) /\ c.metrics_path \in Rooted

LogValid(c) == c.level \in {"debug", "info", "warn", "error"} /\ c.format \in {"json", "text"}

Validate(c) == ScanValid(c) /\ FilterValid(c) /\ NamingValid(c) /\ ServerValid(c) /\ LogValid(c)

\* A file that fails validation is not returned.
Parse(doc) ==
  IF doc = Unparsable THEN Rejected
  ELSE LET c == Normalise(Decode(doc)) IN IF Validate(c) THEN c ELSE Rejected

-----------------------------------------------------------------------------
(* What takes the configuration.                                           *)

\* filter.New and namer.New succeed.
FilterNew(c) ==
  \A p \in UNION { Elements(list) : list \in {c.ignore_comm_regex, c.ignore_cmdline_regex,
                                             c.include_only} } : Compiles(p)

NamerNew(c) ==
  \A i \in DOMAIN c.rules :
    \A p \in {c.rules[i].match_comm_regex, c.rules[i].match_exe_regex, c.rules[i].regex} :
      Text(p) => Compiles(p)

\* What a scan of n processes sleeps: after every batch that has another after
\* it.
Sleeps(n, c) == ((n - 1) \div c.batch_size) * c.batch_sleep

=============================================================================
