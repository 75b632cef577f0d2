---------------------------- MODULE ConfigParser ----------------------------
(***************************************************************************)
(* The configuration of one instance (config_parser.cpp): parse reads an   *)
(* INI or a YAML file group by group into an AppConfig and then checks the *)
(* whole.  The file is not known in advance: each step meets another group *)
(* of Groups, so that every file of up to MaxGroups groups is read, in     *)
(* every order.                                                            *)
(*                                                                         *)
(* A group is a record with the kind its name stands for, its name, the    *)
(* values of the keys that precede its first fault, and that fault:        *)
(*   "value" a value that cannot be converted (an error of GKeyFile, an    *)
(*           exception of yaml-cpp, which nobody catches);                 *)
(*   "rule"  a value the parser refuses (a directory that cannot be        *)
(*           written, a colour without four parts, a missing label file);  *)
(*   "key"   a key nobody knows, which most groups only warn of.           *)
(* In a YAML file the group "source" (of kind "source-csv") names a CSV    *)
(* file, whose lines are the groups of kind "source".                      *)
(*                                                                         *)
(* Of the many keys only those are kept that the checks, the counts, and   *)
(* the properties below tell apart.  A configuration that is not accepted  *)
(* is used by nobody: main ends, and its contents are left as they are     *)
(* when the whole is found at fault.                                       *)
(***************************************************************************)
EXTENDS Integers, Sequences, FiniteSets

CONSTANTS Groups,       \* the groups a file may hold
          MaxGroups,    \* bound: groups and lines of sources of a file
          MaxSlots      \* MAX_SOURCE_BINS and the like, by kind of group

SlotKinds == {"source", "secondary-gie", "secondary-pre-process", "sink", "message-consumer"}
SingleKinds == {"application", "source-attr-all", "streammux", "osd", "pre-process",
                "primary-gie", "tracker", "tiled-display", "img-save", "analytics",
                "message-converter", "tests"}
Kinds == SlotKinds \cup SingleKinds \cup {"source-list", "source-csv"}
GpuKinds == {"source", "source-attr-all", "streammux", "osd", "primary-gie", "secondary-gie",
             "tracker", "sink", "tiled-display", "img-save"}
Faults == {"none", "value", "rule", "key"}

ASSUME MaxSlotsAssumption == MaxSlots \in [SlotKinds -> Nat \ {0}]
\* The name of a group that a file has once stands for its kind, [application] is
\* refused for no value that can be converted, and no key says what part of a source
\* a component is.
ASSUME GroupsAssumption ==
  /\ MaxGroups \in Nat
  /\ \A g \in Groups :
       /\ g.kind \in Kinds /\ g.fault \in Faults
       /\ g.kind \in SingleKinds => g.name = g.kind
       /\ g.kind = "application" => g.fault # "rule"
       /\ "enable" \in DOMAIN g.keys => g.keys.enable \in BOOLEAN
       /\ "num_sources" \in DOMAIN g.keys => g.keys.num_sources \in Int
       /\ "part" \notin DOMAIN g.keys

VARIABLES format,   \* m_file_type
          file,     \* the groups met so far
          stage,    \* where parse_ini or parse_yaml is
          config,   \* the AppConfig
          removed,  \* the names of the groups taken out of m_key_file
          parse_err,\* the flag of that name, kept from line to line
          result    \* what parse returns, or "thrown" when it never does

vars == <<format, file, stage, config, removed, parse_err, result>>

NoGpu == -1

Source == [enable |-> FALSE, gpu_id |-> 0, type |-> "none", uri |-> "none", part |-> NoGpu,
           num_sources |-> 0]
Gie == [enable |-> FALSE, gpu_id |-> 0, unique_id |-> 0, config_file |-> FALSE]
Element == [enable |-> FALSE, gpu_id |-> 0]

\* The zeroed members of an AppConfig.
Default ==
  [k \in SlotKinds \cup SingleKinds |->
     CASE k \in {"source", "source-attr-all"} -> Source
       [] k \in {"primary-gie", "secondary-gie"} -> Gie
       [] k = "sink" -> [enable |-> FALSE, gpu_id |-> 0, type |-> "none"]
       [] k = "streammux" -> [gpu_id |-> 0, is_parsed |-> FALSE]
       [] k = "application" -> [global_gpu_id |-> NoGpu, file_loop |-> FALSE]
       [] k = "tests" -> [pipeline_recreate_sec |-> 0]
       [] k \in {"osd", "tracker", "tiled-display", "img-save"} -> Element
       [] OTHER -> [enable |-> FALSE]]

AppConfig ==
  [single |-> [k \in SingleKinds |-> Default[k]],
   slots  |-> [k \in SlotKinds |-> [i \in 1..MaxSlots[k] |-> Default[k]]],
   num    |-> [k \in SlotKinds |-> 0],
   total_num_sources |-> 0,
   source_list_enabled |-> FALSE,
   source_attr_all_parsed |-> FALSE]

Init ==
  /\ format \in {"NONE", "INI", "YAML"}
  /\ file = <<>>
  /\ stage = "start"
  /\ config = AppConfig
  /\ removed = {}
  /\ parse_err = FALSE
  /\ result = "pending"

-----------------------------------------------------------------------------
(* One group.  Each parse function takes a group and the component it is    *)
(* read into and gives the component as it leaves it and how it went.       *)

Enabled(g) == "enable" \in DOMAIN g.keys /\ g.keys.enable
Disabled(g) == "enable" \in DOMAIN g.keys /\ ~g.keys.enable

\* The members of a record over those of another.
Overlaid(keys, c) ==
  [f \in DOMAIN keys \cup DOMAIN c |-> IF f \in DOMAIN keys THEN keys[f] ELSE c[f]]

Put(g, c) == Overlaid(g.keys, c)
Parsed(outcome, c) == [outcome |-> outcome, component |-> c]

\* CHECK_ERROR and the refusals of an INI group.
IniOutcome(g) == IF g.fault \in {"value", "rule"} THEN "failed" ELSE "ok"

\* as<T>() throws on a value it cannot convert.
YamlOutcome(g) ==
  CASE g.fault = "value" -> "thrown"
    [] g.fault = "rule"  -> "failed"
    [] OTHER             -> "ok"

\* A key nobody knows ends the group.
StrictOutcome(g) == IF g.fault = "key" THEN "failed" ELSE YamlOutcome(g)

parse_app(g, c) == Parsed(IniOutcome(g), Put(g, c))

\* It refuses nothing.
parse_app_yaml(g, c) == Parsed(IF g.fault = "value" THEN "thrown" ELSE "ok", Put(g, c))

\* At least one source, whatever num-sources says.
AtLeastOne(c) == IF c.num_sources < 1 THEN [c EXCEPT !.num_sources = 1] ELSE c

\* A disabled [source<n>] is read like any other.
parse_source(g, c) ==
  Parsed(IniOutcome(g),
         IF "num_sources" \in DOMAIN g.keys THEN AtLeastOne(Put(g, c)) ELSE Put(g, c))

\* The number of the group is looked for in "source-attr-all", which has none.
parse_source_all(g, c) == Parsed(IF Enabled(g) THEN "failed" ELSE "ok", c)

\* A line of the CSV file under the names of its first line.
parse_source_yaml(g, c) ==
  Parsed(YamlOutcome(g),
         IF "num_sources" \in DOMAIN g.keys THEN AtLeastOne(Put(g, c)) ELSE Put(g, c))

parse_streammux(g, c) == Parsed(IniOutcome(g), [Put(g, c) EXCEPT !.is_parsed = TRUE])
parse_streammux_yaml(g, c) == Parsed(StrictOutcome(g), [Put(g, c) EXCEPT !.is_parsed = TRUE])

\* An engine that is not enabled, or does not say so, leaves its slot alone.
parse_gie(g, c) ==
  IF ~Enabled(g) THEN Parsed("ok", c)
  ELSE Parsed(IF Put(g, c).config_file THEN IniOutcome(g) ELSE "failed", Put(g, c))

\* One that does not say so is read.
parse_gie_yaml(g, c) ==
  IF Disabled(g) THEN Parsed("ok", c)
  ELSE Parsed(IF Put(g, c).config_file \/ YamlOutcome(g) # "ok"
              THEN YamlOutcome(g) ELSE "failed", Put(g, c))

parse_tracker(g, c) == Parsed(IniOutcome(g), Put(g, c))
parse_tracker_yaml(g, c) == Parsed(YamlOutcome(g), Put(g, c))
parse_preprocess(g, c) == Parsed(IniOutcome(g), Put(g, c))
parse_preprocess_yaml(g, c) == Parsed(YamlOutcome(g), Put(g, c))
parse_analytics(g, c) == Parsed(IniOutcome(g), Put(g, c))
parse_analytics_yaml(g, c) == Parsed(YamlOutcome(g), Put(g, c))
parse_msgconv(g, c) == Parsed(IniOutcome(g), Put(g, c))
parse_msgconv_yaml(g, c) == Parsed(YamlOutcome(g), Put(g, c))
parse_msgconsumer(g, c) == Parsed(IniOutcome(g), Put(g, c))
parse_msgconsumer_yaml(g, c) == Parsed(YamlOutcome(g), Put(g, c))
parse_osd(g, c) == Parsed(IniOutcome(g), Put(g, c))
parse_osd_yaml(g, c) == Parsed(YamlOutcome(g), Put(g, c))

\* A sink that is not enabled, or does not say so, leaves its slot alone.
parse_sink(g, c) == IF Enabled(g) THEN Parsed(IniOutcome(g), Put(g, c)) ELSE Parsed("ok", c)

\* One that does not say so is read.
parse_sink_yaml(g, c) ==
  IF Disabled(g) THEN Parsed("ok", c) ELSE Parsed(YamlOutcome(g), Put(g, c))

parse_tiled_display(g, c) == Parsed(IniOutcome(g), Put(g, c))
parse_tiled_display_yaml(g, c) == Parsed(StrictOutcome(g), Put(g, c))
parse_image_save(g, c) == Parsed(IniOutcome(g), Put(g, c))
parse_image_save_yaml(g, c) == Parsed(YamlOutcome(g), Put(g, c))
parse_tests(g, c) == Parsed(IniOutcome(g), Put(g, c))
parse_tests_yaml(g, c) == Parsed(YamlOutcome(g), Put(g, c))

ParseIni(g, c) ==
  CASE g.kind = "source" -> parse_source(g, c)
    [] g.kind \in {"primary-gie", "secondary-gie"} -> parse_gie(g, c)
    [] g.kind \in {"pre-process", "secondary-pre-process"} -> parse_preprocess(g, c)
    [] g.kind = "sink" -> parse_sink(g, c)
    [] g.kind = "message-consumer" -> parse_msgconsumer(g, c)
    [] g.kind = "streammux" -> parse_streammux(g, c)
    [] g.kind = "osd" -> parse_osd(g, c)
    [] g.kind = "tracker" -> parse_tracker(g, c)
    [] g.kind = "tiled-display" -> parse_tiled_display(g, c)
    [] g.kind = "img-save" -> parse_image_save(g, c)
    [] g.kind = "analytics" -> parse_analytics(g, c)
    [] g.kind = "message-converter" -> parse_msgconv(g, c)
    [] g.kind = "tests" -> parse_tests(g, c)

ParseYaml(g, c) ==
  CASE g.kind = "source" -> parse_source_yaml(g, c)
    [] g.kind \in {"primary-gie", "secondary-gie"} -> parse_gie_yaml(g, c)
    [] g.kind = "pre-process" -> parse_preprocess_yaml(g, c)
    [] g.kind = "sink" -> parse_sink_yaml(g, c)
    [] g.kind = "message-consumer" -> parse_msgconsumer_yaml(g, c)
    [] g.kind = "streammux" -> parse_streammux_yaml(g, c)
    [] g.kind = "osd" -> parse_osd_yaml(g, c)
    [] g.kind = "tracker" -> parse_tracker_yaml(g, c)
    [] g.kind = "tiled-display" -> parse_tiled_display_yaml(g, c)
    [] g.kind = "img-save" -> parse_image_save_yaml(g, c)
    [] g.kind = "analytics" -> parse_analytics_yaml(g, c)
    [] g.kind = "message-converter" -> parse_msgconv_yaml(g, c)
    [] g.kind = "tests" -> parse_tests_yaml(g, c)

-----------------------------------------------------------------------------
(* Where a group is read into, and what it finds there.                     *)

global_gpu_id == config.single["application"].global_gpu_id

\* A group without the key "enable", asked for it, leaves an error behind that
\* the sinks after it take for their own.
StaleError ==
  \E i \in DOMAIN file : file[i].kind = "sink" /\ "enable" \notin DOMAIN file[i].keys

\* Mutant: components that come in numbers do not take the GPU.
TakesGlobalGpu_Single(g) == g.kind \in GpuKinds \ SlotKinds /\ global_gpu_id # NoGpu

\* The GPU of the application is the group's until it names one itself.
TakesGlobalGpu(g) ==
  /\ g.kind \in GpuKinds
  /\ global_gpu_id # NoGpu
  /\ g.kind = "sink" => Enabled(g) /\ (format = "INI" => ~StaleError)

\* The next free slot of the group's kind, or its only component.
Target(g) ==
  IF g.kind \in SlotKinds THEN config.slots[g.kind][config.num[g.kind] + 1]
  ELSE config.single[g.kind]

Before(g) ==
  IF TakesGlobalGpu(g) THEN [Target(g) EXCEPT !.gpu_id = global_gpu_id] ELSE Target(g)

\* Mutant: a slot is left whatever was read into it.
Stored_Always(g, c) ==
  IF g.kind \in SlotKinds
  THEN [config EXCEPT !.slots[g.kind][config.num[g.kind] + 1] = c, !.num[g.kind] = @ + 1]
  ELSE [config EXCEPT !.single[g.kind] = c]

\* A slot is only left when what was read into it is enabled.
Stored(g, c) ==
  IF g.kind \in SlotKinds
  THEN [config EXCEPT !.slots[g.kind][config.num[g.kind] + 1] = c,
                      !.num[g.kind] = IF c.enable THEN @ + 1 ELSE @]
  ELSE [config EXCEPT !.single[g.kind] = c]

Full(g) == g.kind \in SlotKinds /\ config.num[g.kind] = MaxSlots[g.kind]

\* A group name is in a file once.
Unread(kinds) ==
  IF Len(file) = MaxGroups THEN {}
  ELSE {g \in Groups : g.kind \in kinds /\ \A i \in DOMAIN file : file[i].name # g.name}

End(r) == stage' = "done" /\ result' = r

\* The step after a group that was read with this outcome.
Goes(outcome, next) ==
  CASE outcome = "ok"     -> stage' = next /\ UNCHANGED result
    [] outcome = "failed" -> End("rejected")
    [] outcome = "thrown" -> End("thrown")

-----------------------------------------------------------------------------
(* parse and the groups that come first.                                    *)

\* ConfigParser and parse: a file of no known type.
Unrecognized ==
  /\ stage = "start" /\ format = "NONE"
  /\ End("rejected")
  /\ UNCHANGED <<format, file, config, removed, parse_err>>

\* [application] is read before the others, wherever it is.
ReadApp ==
  LET next == IF format = "INI" THEN "attr_all" ELSE "groups"
  IN /\ stage = "start" /\ format # "NONE"
     /\ \/ stage' = next /\ UNCHANGED <<file, config, result>>
        \/ \E g \in Unread({"application"}) :
             LET p == IF format = "INI" THEN parse_app(g, Target(g))
                                        ELSE parse_app_yaml(g, Target(g))
             IN /\ file' = Append(file, g)
                /\ config' = Stored(g, p.component)
                /\ Goes(p.outcome, next)
     /\ UNCHANGED <<format, removed, parse_err>>

\* The first total_num_sources sources, one for each uri: uri_list is still empty.
set_source_all_configs(c) ==
  [c EXCEPT !.slots["source"] =
     [i \in DOMAIN @ |-> IF i <= c.total_num_sources
                         THEN c.single["source-attr-all"] ELSE @[i]]]

\* [source-attr-all] is read before [source-list] and then removed.
ReadSourceAll ==
  /\ stage = "attr_all"
  /\ \/ stage' = "list" /\ UNCHANGED <<file, config, removed, result>>
     \/ \E g \in Unread({"source-attr-all"}) :
          LET p == parse_source_all(g, Before(g))
          IN /\ file' = Append(file, g)
             /\ config' = set_source_all_configs([Stored(g, p.component) EXCEPT
                                                    !.source_attr_all_parsed = TRUE])
             /\ removed' = removed \cup {g.name}
             /\ Goes(p.outcome, "list")
  /\ UNCHANGED <<format, parse_err>>

\* num_strings is the length of the list read last, of uris or of names.
parse_source_list(g, c) ==
  LET mismatch == /\ {"uris", "num_source_bins"} \subseteq DOMAIN g.keys
                  /\ g.keys.num_strings # g.keys.num_source_bins
  IN Parsed(IF mismatch \/ g.keys.num_strings > MaxSlots["source"]
            THEN "failed" ELSE IniOutcome(g),
            [c EXCEPT !.total_num_sources =
               IF "num_source_bins" \in DOMAIN g.keys THEN g.keys.num_source_bins
               ELSE IF "uris" \in DOMAIN g.keys THEN g.keys.num_strings ELSE @])

HasSourceAll ==
  \E i \in DOMAIN file : file[i].kind = "source-attr-all" /\ file[i].name \notin removed

ReadSourceList ==
  /\ stage = "list"
  /\ \/ stage' = "groups" /\ UNCHANGED <<file, config, removed, result>>
     \/ \E g \in Unread({"source-list"}) :
          LET p == parse_source_list(g, config)
          IN /\ file' = Append(file, g)
             /\ config' = [p.component EXCEPT !.num["source"] = p.component.total_num_sources,
                                              !.source_list_enabled = TRUE]
             /\ removed' = removed \cup {g.name}
             /\ Goes(IF p.outcome = "ok" /\ ~HasSourceAll THEN "failed" ELSE p.outcome, "groups")
  /\ UNCHANGED <<format, parse_err>>

-----------------------------------------------------------------------------
(* The groups in the order of the file.                                     *)

IniKinds == Kinds \ {"application", "source-attr-all", "source-list"}

\* The body of parse_ini's loop; a [source] without a number is refused.
ReadIniGroup ==
  /\ stage = "groups" /\ format = "INI"
  /\ \E g \in Unread(IniKinds) :
       /\ file' = Append(file, g)
       /\ IF g.kind = "source-csv" \/ Full(g)
          THEN End("rejected") /\ UNCHANGED config
          ELSE LET p == ParseIni(g, Before(g))
               IN config' = Stored(g, p.component) /\ Goes(p.outcome, "groups")
  /\ UNCHANGED <<format, removed, parse_err>>

YamlKinds == IniKinds \ {"source", "source-csv", "secondary-pre-process"}

\* With a global GPU a sink must say whether it is enabled.
AsksForEnable(g) ==
  g.kind = "sink" /\ global_gpu_id # NoGpu /\ "enable" \notin DOMAIN g.keys

\* The body of parse_yaml's loop.
ReadYamlGroup ==
  /\ stage = "groups" /\ format = "YAML"
  /\ \E g \in Unread(YamlKinds) :
       /\ file' = Append(file, g)
       /\ IF Full(g) \/ AsksForEnable(g)
          THEN End(IF Full(g) THEN "rejected" ELSE "thrown") /\ UNCHANGED config
          ELSE LET p == ParseYaml(g, Before(g))
               IN config' = Stored(g, p.component) /\ Goes(p.outcome, "groups")
  /\ UNCHANGED <<format, removed, parse_err>>

\* Groups parse_yaml has no branch for.
IgnoreYamlGroup ==
  /\ stage = "groups" /\ format = "YAML"
  /\ \E g \in Unread({"secondary-pre-process", "source-list", "source-attr-all"}) :
       file' = Append(file, g)
  /\ UNCHANGED <<format, stage, config, removed, parse_err, result>>

\* The CSV file must be named; one that cannot be opened has no lines.
OpenCsv ==
  /\ stage = "groups" /\ format = "YAML"
  /\ \E g \in Unread({"source-csv"}) :
       /\ file' = Append(file, g)
       /\ Goes(YamlOutcome(g), IF g.keys.opens THEN "rows" ELSE "groups")
  /\ UNCHANGED <<format, config, removed, parse_err>>

\* parse_err is that of the line read last.
ReadRow ==
  /\ stage = "rows"
  /\ \E g \in Unread({"source"}) :
       /\ file' = Append(file, g)
       /\ IF Full(g) THEN End("rejected") /\ UNCHANGED <<config, parse_err>>
          ELSE LET p == ParseYaml(g, Before(g))
               IN /\ config' = Stored(g, p.component)
                  /\ parse_err' = (p.outcome = "failed")
                  /\ IF p.outcome = "thrown" THEN End("thrown") ELSE UNCHANGED <<stage, result>>
  /\ UNCHANGED <<format, removed>>

\* Mutant: the outcome of the lines is not looked at.
EndOfRows_Unchecked ==
  /\ stage = "rows" /\ stage' = "groups"
  /\ UNCHANGED <<format, file, config, removed, parse_err, result>>

EndOfRows ==
  /\ stage = "rows"
  /\ Goes(IF parse_err THEN "failed" ELSE "ok", "groups")
  /\ UNCHANGED <<format, file, config, removed, parse_err>>

EndOfFile ==
  /\ stage = "groups"
  /\ stage' = "checks"
  /\ UNCHANGED <<format, file, config, removed, parse_err, result>>

-----------------------------------------------------------------------------
(* The checks of the whole.                                                 *)

\* No two engines that will run have the same unique-id.
UniqueIds ==
  LET gie == config.slots["secondary-gie"]
      n == config.num["secondary-gie"]
  IN /\ \A i \in 1..n : gie[i].unique_id # config.single["primary-gie"].unique_id
     /\ \A i, j \in 1..n : i # j => gie[i].unique_id # gie[j].unique_id

Max1(n) == IF n < 1 THEN 1 ELSE n

\* Part j of a source that stands for several uris.
Part(source, j) == [source EXCEPT !.type = "uri", !.part = j]

\* Mutant: the test of the limit lets one source more through.
Expand_OneMore(c, i) ==
  LET s == [c.slots["source"][i] EXCEPT !.num_sources = Max1(@)]
      n == c.num["source"]
  IN IF ~c.fits \/ s.type # "multi" THEN c
     ELSE IF n + s.num_sources - 1 > MaxSlots["source"] + 1 THEN [c EXCEPT !.fits = FALSE]
     ELSE [c EXCEPT !.num["source"] = n + s.num_sources - 1,
                    !.slots["source"][i] = Part(s, 0)]

\* Mutant: the parts are stored from the last source on, not after it.
Expand_OverLast(c, i) ==
  LET s == [c.slots["source"][i] EXCEPT !.num_sources = Max1(@)]
      n == c.num["source"]
  IN IF ~c.fits \/ s.type # "multi" THEN c
     ELSE IF n + s.num_sources - 1 > MaxSlots["source"] THEN [c EXCEPT !.fits = FALSE]
     ELSE [c EXCEPT !.num["source"] = n + s.num_sources - 1,
                    !.slots["source"] =
                      [k \in DOMAIN @ |->
                         IF k = i THEN Part(s, 0)
                         ELSE IF k \in n..(n + s.num_sources - 2) THEN Part(s, k - n + 1)
                         ELSE @[k]]]

\* A source of several uris becomes as many sources: the first stays in its slot,
\* the others take the next ones; too many end the parse.
Expand(c, i) ==
  LET s == [c.slots["source"][i] EXCEPT !.num_sources = Max1(@)]
      n == c.num["source"]
  IN IF ~c.fits \/ c.slots["source"][i].type # "multi" THEN c
     ELSE IF n + s.num_sources - 1 > MaxSlots["source"] THEN [c EXCEPT !.fits = FALSE]
     ELSE [c EXCEPT !.num["source"] = n + s.num_sources - 1,
                    !.slots["source"] =
                      [k \in DOMAIN @ |->
                         IF k = i THEN Part(s, 0)
                         ELSE IF k \in (n + 1)..(n + s.num_sources - 1) THEN Part(s, k - n)
                         ELSE @[k]]]

ExpandAll ==
  LET expanded[i \in 0..config.num["source"]] ==
        IF i = 0 THEN Overlaid(config, [fits |-> TRUE]) ELSE Expand(expanded[i - 1], i)
  IN expanded[config.num["source"]]

Check ==
  /\ stage = "checks"
  /\ IF UniqueIds /\ ExpandAll.fits
     THEN /\ End("accepted")
          /\ config' = [f \in DOMAIN config |-> ExpandAll[f]]
     ELSE End("rejected") /\ UNCHANGED config
  /\ UNCHANGED <<format, file, removed, parse_err>>

Next ==
  \/ Unrecognized
  \/ ReadApp
  \/ ReadSourceAll
  \/ ReadSourceList
  \/ ReadIniGroup
  \/ ReadYamlGroup
  \/ IgnoreYamlGroup
  \/ OpenCsv
  \/ ReadRow
  \/ EndOfRows
  \/ EndOfFile
  \/ Check

Spec == Init /\ [][Next]_vars

-----------------------------------------------------------------------------
(* What an accepted configuration is.                                       *)

Accepted == result = "accepted"

TypeOK ==
  /\ format \in {"NONE", "INI", "YAML"}
  /\ file \in Seq(Groups) /\ Len(file) <= MaxGroups
  /\ stage \in {"start", "attr_all", "list", "groups", "rows", "checks", "done"}
  /\ result # "rejected" => \A k \in SlotKinds : config.num[k] \in 0..MaxSlots[k]
  /\ \A k \in SlotKinds : DOMAIN config.slots[k] = 1..MaxSlots[k]
  /\ parse_err \in BOOLEAN
  /\ result \in {"pending", "accepted", "rejected", "thrown"}
  /\ (stage = "done") <=> (result # "pending")

EnabledOf(k) == {i \in DOMAIN file : file[i].kind = k /\ Enabled(file[i])}

\* The slot the i-th group of the file is to have: those before it count.
SlotOf(k, i) == config.slots[k][Cardinality({j \in EnabledOf(k) : j <= i})]

Says(kinds) == \A i \in DOMAIN file : file[i].kind \in kinds => "enable" \in DOMAIN file[i].keys

\* Engines and sinks: an accepted file has as many as it enables, each with
\* exactly what its own group says over the defaults, in the order of the file,
\* whatever groups that are not enabled stand between them (each of these is
\* read into a slot the next one is read into).  A YAML group that does not say
\* whether it is enabled is read all the same, so those files are left out.
SlotsMatchGroups ==
  Accepted =>
    \A k \in {"secondary-gie", "sink"} :
      (format = "INI" \/ Says({k})) =>
        /\ config.num[k] = Cardinality(EnabledOf(k))
        /\ \A i \in EnabledOf(k) :
             [SlotOf(k, i) EXCEPT !.gpu_id = 0] =
               [Put(file[i], Default[k]) EXCEPT !.gpu_id = 0]

\* The GPU a group asks for: its own, or else the application's.
Wanted(g) == IF "gpu_id" \in DOMAIN g.keys THEN g.keys.gpu_id ELSE global_gpu_id

GpuOfSource(g) ==
  \A i \in 1..config.num["source"] :
    config.slots["source"][i].uri = g.keys.uri => config.slots["source"][i].gpu_id = Wanted(g)

\* An earlier sink that does not say whether it is enabled.
MutedBefore(i) ==
  \E j \in 1..(i - 1) : file[j].kind = "sink" /\ "enable" \notin DOMAIN file[j].keys

\* Each enabled source names a uri of its own, by which it can be told.
UrisDiffer ==
  \A i \in EnabledOf("source") :
    /\ "uri" \in DOMAIN file[i].keys
    /\ \A j \in EnabledOf("source") : file[j].keys.uri = file[i].keys.uri => j = i

\* "if gpu_id for ... component is present, it will override the value set using
\* global_gpu_id": each enabled component has its own GPU, or else the one of
\* [application], wherever [application] stands and whatever was read before
\* into the same slot.  Left out: a sink of an INI file after one without the key
\* "enable", which the error of that one keeps from the global GPU, and YAML
\* engines and sinks beside one that does not say whether it is enabled.  A source is
\* told by its uri.
GpuPrecedence ==
  Accepted =>
    \A i \in DOMAIN file :
      LET g == file[i]
      IN (g.kind \in GpuKinds /\ Wanted(g) # NoGpu) =>
           CASE g.kind = "source" -> Enabled(g) /\ UrisDiffer => GpuOfSource(g)
             [] g.kind \in {"secondary-gie", "sink"} ->
                  (/\ Enabled(g)
                   /\ format = "YAML" => Says({g.kind})
                   /\ g.kind = "sink" => ~MutedBefore(i))
                    => SlotOf(g.kind, i).gpu_id = Wanted(g)
             [] g.kind \in {"source-attr-all", "primary-gie"} ->
                  (Enabled(g) /\ g.kind = "primary-gie")
                    => config.single[g.kind].gpu_id = Wanted(g)
             [] OTHER -> config.single[g.kind].gpu_id = Wanted(g)

Parts(g) == IF g.keys.type = "multi" THEN 0..(Max1(g.keys.num_sources) - 1) ELSE {NoGpu}

\* And says what it is, of several uris how many.
SourcesSaid ==
  \A i \in EnabledOf("source") :
    LET keys == file[i].keys
    IN "type" \in DOMAIN keys /\ (keys.type = "multi" => "num_sources" \in DOMAIN keys)

\* The uris an accepted file stands for are exactly its sources, each once: a
\* source of several uris is expanded in full, no other is lost, repeated or
\* overwritten by the expansion, and none is left that a bin cannot open.  None
\* comes of a [source-list]: [source-attr-all], which it needs, has been removed
\* when it is looked for, and an enabled one is refused before, so that no
\* pipeline is ever built on nvmultiurisrcbin.  A file that says less of a source leaves
\* it what a disabled one has left in its slot.
SourcesExpanded ==
  Accepted /\ UrisDiffer /\ SourcesSaid =>
    LET wanted == UNION {{<<file[i].keys.uri, j>> : j \in Parts(file[i])} :
                           i \in EnabledOf("source")}
        n == config.num["source"]
        slot == config.slots["source"]
    IN /\ {<<slot[i].uri, slot[i].part>> : i \in 1..n} = wanted
       /\ Cardinality(wanted) = n
       /\ \A i \in 1..n : slot[i].enable /\ slot[i].type # "multi"
       /\ ~config.source_list_enabled /\ config.total_num_sources = 0

\* A group that is looked at beyond its key "enable".
IsRead(i) ==
  LET g == file[i]
  IN CASE g.kind \in {"secondary-gie", "primary-gie", "sink", "source-attr-all"} ->
            IF format = "INI" THEN Enabled(g) ELSE ~Disabled(g)
       [] g.kind = "secondary-pre-process" -> format = "INI"
       [] g.kind = "source-list" -> format = "INI"
       [] OTHER -> TRUE

\* A line of the CSV file after which another one is read.
NotLastRow(i) ==
  /\ format = "YAML" /\ file[i].kind = "source"
  /\ \E j \in DOMAIN file : j > i /\ file[j].kind = "source"

\* "return true if parsed successfully": no group with a value that cannot be
\* read or that is refused is in an accepted file.  Left out: a refused line of
\* the CSV file whose parse_err the next line overwrites.
AcceptedIsReadable ==
  Accepted =>
    \A i \in DOMAIN file :
      (file[i].kind # "source-attr-all" /\ IsRead(i) /\ ~NotLastRow(i)) =>
        file[i].fault \notin {"value", "rule"}
=============================================================================
