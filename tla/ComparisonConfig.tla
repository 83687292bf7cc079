-------------------------- MODULE ComparisonConfig --------------------------
(***************************************************************************)
(* The thresholds nvbench-compare-robust decides with: built-in presets,   *)
(* a TOML file that is accepted as a whole or refused, the precedence      *)
(* between the two and the command line, and the file --dump-config        *)
(* prints.  A threshold is a number of 1/Scale.  A TOML table is a         *)
(* function from its keys.                                                 *)
(***************************************************************************)
EXTENDS Integers, FiniteSets

CONSTANTS
  None,         \* Python's None: absent
  NonFinite,    \* nan, inf
  NotANumber,   \* a TOML string, boolean, array or table where a number is due
  NotATable,    \* a TOML value that is no table, where a table is due
  Refused       \* ValueError

Scale == 10000

Present(v) == v # None

Preset(gap, center, overlap, noise, sample, support, rare, removed) ==
  [clear_gap_relative |-> gap, same_center_relative |-> center,
   same_overlap_fraction |-> overlap, same_relative_dispersion_ceiling |-> noise,
   bulk_same_sample_coverage |-> sample, bulk_same_support_coverage |-> support,
   bulk_support_rare_sample_fraction |-> rare,
   bulk_support_max_removed_sample_fraction |-> removed]

\* Mutant: permissive demands as much overlap as strict does.
PermissiveOverlaps ==
  [default    |-> Preset( 50,  50, 5000, 200, 9700, 8000, 10, 100),
   strict     |-> Preset(100,  25, 7500, 100, 9950, 9000, 10,  50),
   permissive |-> Preset( 25, 100, 7500, 500, 9000, 6000, 10, 200)]

COMPARISON_THRESHOLD_PRESETS ==
  [default    |-> Preset( 50,  50, 5000, 200, 9700, 8000, 10, 100),
   strict     |-> Preset(100,  25, 7500, 100, 9950, 9000, 10,  50),
   permissive |-> Preset( 25, 100, 2500, 500, 9000, 6000, 10, 200)]

COMPARISON_CONFIG_KEYS ==
  [clear_gap    |-> [relative |-> "clear_gap_relative"],
   same         |-> [center_relative             |-> "same_center_relative",
                     overlap_fraction            |-> "same_overlap_fraction",
                     relative_dispersion_ceiling |-> "same_relative_dispersion_ceiling"],
   bulk         |-> [sample_coverage  |-> "bulk_same_sample_coverage",
                     support_coverage |-> "bulk_same_support_coverage"],
   rare_support |-> [sample_fraction |-> "bulk_support_rare_sample_fraction",
                     max_removed_sample_fraction |->
                       "bulk_support_max_removed_sample_fraction"]]

Fields == DOMAIN Preset(0, 0, 0, 0, 0, 0, 0, 0)

Unbounded ==
  {"clear_gap_relative", "same_center_relative", "same_relative_dispersion_ceiling"}

InRange(field, v) == v >= 0 /\ (field \in Unbounded \/ v <= Scale)

validate_config_float(field, v) ==
  v \notin {NotANumber, NonFinite} /\ InRange(field, v)

parse_config_section(table, section) ==
  LET known == COMPARISON_CONFIG_KEYS[section] IN
    IF \/ table = NotATable
       \/ ~ DOMAIN table \subseteq DOMAIN known
       \/ \E k \in DOMAIN table : ~ validate_config_float(known[k], table[k])
    THEN Refused
    ELSE [f \in {known[k] : k \in DOMAIN table} |->
            table[CHOOSE k \in DOMAIN table : known[k] = f]]

ParsePreset(table) ==
  IF \/ table = NotATable
     \/ ~ DOMAIN table \subseteq {"name"}
     \/ \E k \in DOMAIN table : table[k] \notin DOMAIN COMPARISON_THRESHOLD_PRESETS
  THEN Refused
  ELSE IF DOMAIN table = {} THEN None ELSE table["name"]

\* The tables a configuration gives overrides in, by section.
SectionTables(config) ==
  LET bulk == IF "bulk" \in DOMAIN config THEN config["bulk"] ELSE NotATable
      nested == bulk # NotATable /\ "rare_support" \in DOMAIN bulk
  IN [s \in (DOMAIN config \cap {"clear_gap", "same", "bulk"})
            \cup (IF nested THEN {"rare_support"} ELSE {}) |->
        CASE s = "rare_support"  -> bulk["rare_support"]
          [] s = "bulk" /\ nested -> [k \in DOMAIN bulk \ {"rare_support"} |-> bulk[k]]
          [] OTHER               -> config[s]]

parse_comparison_config_data(config) ==
  LET preset == IF "preset" \in DOMAIN config THEN ParsePreset(config["preset"]) ELSE None
      tables == SectionTables(config)
      parsed == [s \in DOMAIN tables |-> parse_config_section(tables[s], s)]
  IN IF \/ ~ DOMAIN config \subseteq {"version", "preset", "clear_gap", "same", "bulk"}
        \/ "version" \notin DOMAIN config
        \/ config["version"] # 1
        \/ preset = Refused
        \/ \E s \in DOMAIN parsed : parsed[s] = Refused
     THEN Refused
     ELSE [preset |-> preset,
           overrides |->
             [f \in UNION {DOMAIN parsed[s] : s \in DOMAIN parsed} |->
                parsed[CHOOSE s \in DOMAIN parsed : f \in DOMAIN parsed[s]][f]]]

\* What a file may give: a preset, and values of some of the fields
Parsed(fields) ==
  [preset : DOMAIN COMPARISON_THRESHOLD_PRESETS \cup {None}, overrides : [fields -> Int]]

\* replace(thresholds, **overrides)
Replace(thresholds, overrides) ==
  [f \in Fields |-> IF f \in DOMAIN overrides THEN overrides[f] ELSE thresholds[f]]

FirstPresent(a, b, c) == IF Present(a) THEN a ELSE IF Present(b) THEN b ELSE c

NoConfig == [preset |-> None, overrides |-> <<>>]

WithOverrides(name, overrides) ==
  [preset |-> name, thresholds |-> Replace(COMPARISON_THRESHOLD_PRESETS[name], overrides)]

\* Mutant: the file's preset is preferred to the command line's.
SelectsFileFirst(cli_preset, parsed) ==
  IF parsed = Refused THEN Refused
  ELSE WithOverrides(FirstPresent(parsed.preset, cli_preset, "default"), parsed.overrides)

SelectThresholds(cli_preset, parsed) ==
  IF parsed = Refused THEN Refused
  ELSE WithOverrides(FirstPresent(cli_preset, parsed.preset, "default"), parsed.overrides)

resolve_comparison_thresholds(cli_preset, config) ==
  SelectThresholds(cli_preset,
                   IF config = None THEN NoConfig ELSE parse_comparison_config_data(config))

\* dump_comparison_config, as the TOML reader returns it
DumpedSection(thresholds, section) ==
  [k \in DOMAIN COMPARISON_CONFIG_KEYS[section] |->
     thresholds[COMPARISON_CONFIG_KEYS[section][k]]]

\* Mutant: the nested table is left out.
DumpsWithoutRareSupport(preset, thresholds) ==
  [version   |-> 1,
   preset    |-> [name |-> preset],
   clear_gap |-> DumpedSection(thresholds, "clear_gap"),
   same      |-> DumpedSection(thresholds, "same"),
   bulk      |-> DumpedSection(thresholds, "bulk")]

dump_comparison_config(preset, thresholds) ==
  [version   |-> 1,
   preset    |-> [name |-> preset],
   clear_gap |-> DumpedSection(thresholds, "clear_gap"),
   same      |-> DumpedSection(thresholds, "same"),
   bulk      |-> [k \in DOMAIN COMPARISON_CONFIG_KEYS["bulk"] \cup {"rare_support"} |->
                    IF k = "rare_support" THEN DumpedSection(thresholds, k)
                    ELSE thresholds[COMPARISON_CONFIG_KEYS["bulk"][k]]]]

\* The tables of such a file
Sections ==
  LET Of(section) == [DOMAIN COMPARISON_CONFIG_KEYS[section] -> Int] IN
    [name : DOMAIN COMPARISON_THRESHOLD_PRESETS] \cup Of("clear_gap") \cup Of("same") \cup Of("bulk")
      \cup Of("rare_support")
      \cup [sample_coverage : Int, support_coverage : Int,
            rare_support : Of("rare_support")]

Dumps ==
  [version : Int, preset : Sections, clear_gap : Sections, same : Sections,
   bulk : Sections]

\* What is absent, refused or of another type is no value and no table.
ASSUME ConfigAssumption ==
  /\ \A c \in {None, NonFinite, NotANumber, NotATable, Refused} :
       /\ c \notin Int /\ c \notin Sections
       /\ c \notin DOMAIN COMPARISON_THRESHOLD_PRESETS
  /\ None \notin Dumps
  /\ Refused # None
  /\ \A fields \in SUBSET Fields :
       Refused \notin [fields -> Int] /\ Refused \notin Parsed(fields)
=============================================================================
