------------------------ MODULE RobustComparisonProofs ------------------------
(***************************************************************************)
(* What holds of every comparison nvbench-compare-robust may make, for     *)
(* every configuration file and all timings (TimingVerdict): the           *)
(* thresholds in force are those that were written, and the verdict favors *)
(* neither side.  And of every invocation of the tool, on all files and    *)
(* with every command line (CompareTools): states are compared with their  *)
(* counterparts, and nothing it writes hides something else it wrote.      *)
(***************************************************************************)
EXTENDS TimingVerdict, CompareTools, FiniteSetTheorems, TLAPS

Presets == DOMAIN COMPARISON_THRESHOLD_PRESETS

-----------------------------------------------------------------------------
(* The configuration *)

\* The fields and the keys they have in a file
LEMMA TheFields ==
  /\ Fields = {"clear_gap_relative", "same_center_relative", "same_overlap_fraction",
               "same_relative_dispersion_ceiling", "bulk_same_sample_coverage",
               "bulk_same_support_coverage", "bulk_support_rare_sample_fraction",
               "bulk_support_max_removed_sample_fraction"}
  /\ Presets = {"default", "strict", "permissive"}
  /\ DOMAIN COMPARISON_CONFIG_KEYS = {"clear_gap", "same", "bulk", "rare_support"}
  BY DEF Fields, Preset, Presets, COMPARISON_THRESHOLD_PRESETS, COMPARISON_CONFIG_KEYS

LEMMA TheKeys ==
  /\ DOMAIN COMPARISON_CONFIG_KEYS["clear_gap"] = {"relative"}
  /\ DOMAIN COMPARISON_CONFIG_KEYS["same"] =
       {"center_relative", "overlap_fraction", "relative_dispersion_ceiling"}
  /\ DOMAIN COMPARISON_CONFIG_KEYS["bulk"] = {"sample_coverage", "support_coverage"}
  /\ DOMAIN COMPARISON_CONFIG_KEYS["rare_support"] =
       {"sample_fraction", "max_removed_sample_fraction"}
  BY DEF COMPARISON_CONFIG_KEYS

\* Every field has one key, in one table.
LEMMA EveryFieldHasItsKey ==
  /\ \A s \in DOMAIN COMPARISON_CONFIG_KEYS : \A k \in DOMAIN COMPARISON_CONFIG_KEYS[s] :
       COMPARISON_CONFIG_KEYS[s][k] \in Fields
  /\ \A f \in Fields : \E s \in DOMAIN COMPARISON_CONFIG_KEYS :
       \E k \in DOMAIN COMPARISON_CONFIG_KEYS[s] : COMPARISON_CONFIG_KEYS[s][k] = f
  /\ \A s \in DOMAIN COMPARISON_CONFIG_KEYS :
       \A k, l \in DOMAIN COMPARISON_CONFIG_KEYS[s] :
         COMPARISON_CONFIG_KEYS[s][k] = COMPARISON_CONFIG_KEYS[s][l] => k = l
  BY TheFields DEF COMPARISON_CONFIG_KEYS

\* A threshold the program accepts
Valid(field, v) == v \in Int /\ InRange(field, v)

ValidThresholds == {t \in [Fields -> Int] : \A f \in Fields : Valid(f, t[f])}

\* The presets are valid.
LEMMA PresetsAreValid ==
  \A name \in Presets : COMPARISON_THRESHOLD_PRESETS[name] \in ValidThresholds
  BY TheFields
  DEF ValidThresholds, Valid, InRange, Scale, Unbounded, COMPARISON_THRESHOLD_PRESETS,
      Presets, Preset

\* What the assumption says of the numbers of a file
WellTyped(config) ==
  LET toml == SectionTables(config) IN
    \A s \in DOMAIN toml : toml[s] # NotATable =>
      \A k \in DOMAIN toml[s] : toml[s][k] \in Int \cup {NonFinite, NotANumber}

\* A section that is accepted gives each of its keys' fields the key's value.
LEMMA ParsedSection ==
  ASSUME NEW s \in DOMAIN COMPARISON_CONFIG_KEYS, NEW table,
         table # NotATable =>
           \A k \in DOMAIN table : table[k] \in Int \cup {NonFinite, NotANumber},
         parse_config_section(table, s) # Refused
  PROVE  /\ table # NotATable
         /\ DOMAIN table \subseteq DOMAIN COMPARISON_CONFIG_KEYS[s]
         /\ DOMAIN parse_config_section(table, s) =
              {COMPARISON_CONFIG_KEYS[s][k] : k \in DOMAIN table}
         /\ \A k \in DOMAIN table :
              /\ parse_config_section(table, s)[COMPARISON_CONFIG_KEYS[s][k]] = table[k]
              /\ Valid(COMPARISON_CONFIG_KEYS[s][k], table[k])
  <1> DEFINE known == COMPARISON_CONFIG_KEYS[s]
             p == [f \in {known[k] : k \in DOMAIN table} |->
                     table[CHOOSE k \in DOMAIN table : known[k] = f]]
  <1>1. /\ table # NotATable /\ DOMAIN table \subseteq DOMAIN known
        /\ \A k \in DOMAIN table : validate_config_float(known[k], table[k])
        /\ parse_config_section(table, s) = p
    BY DEF parse_config_section
  <1>2. \A k, l \in DOMAIN table : known[k] = known[l] => k = l
    BY <1>1, EveryFieldHasItsKey
  <1>3. ASSUME NEW k \in DOMAIN table
        PROVE  p[known[k]] = table[k] /\ Valid(known[k], table[k])
    <2>1. (CHOOSE l \in DOMAIN table : known[l] = known[k]) = k
      BY <1>2
    <2>2. p[known[k]] = table[k]
      BY <2>1
    <2>3. Valid(known[k], table[k])
      BY <1>1 DEF Valid, validate_config_float
    <2> QED
      BY <2>2, <2>3
  <1> QED
    BY <1>1, <1>3

\* A file that is accepted has accepted sections only, and its overrides are
\* what they give.
LEMMA ParsedConfig ==
  ASSUME NEW config, WellTyped(config), parse_comparison_config_data(config) # Refused
  PROVE  LET toml == SectionTables(config)
             parsed == parse_comparison_config_data(config)
         IN /\ DOMAIN toml \subseteq DOMAIN COMPARISON_CONFIG_KEYS
            /\ parsed.preset \in Presets \cup {None}
            /\ \A s \in DOMAIN toml : \A k \in DOMAIN toml[s] :
                 /\ k \in DOMAIN COMPARISON_CONFIG_KEYS[s]
                 /\ COMPARISON_CONFIG_KEYS[s][k] \in DOMAIN parsed.overrides
            /\ \A s \in DOMAIN toml : toml[s] # NotATable
            /\ DOMAIN parsed.overrides \subseteq Fields
            /\ \A f \in DOMAIN parsed.overrides :
                 /\ Valid(f, parsed.overrides[f])
                 /\ \E s \in DOMAIN toml : \E k \in DOMAIN toml[s] :
                      /\ COMPARISON_CONFIG_KEYS[s][k] = f
                      /\ parsed.overrides[f] = toml[s][k]
  <1> DEFINE toml == SectionTables(config)
             preset == IF "preset" \in DOMAIN config THEN ParsePreset(config["preset"])
                       ELSE None
             sections == [s \in DOMAIN toml |-> parse_config_section(toml[s], s)]
             overrides == [f \in UNION {DOMAIN sections[s] : s \in DOMAIN sections} |->
                             sections[CHOOSE s \in DOMAIN sections : f \in DOMAIN sections[s]][f]]
  <1>1. /\ preset # Refused
        /\ \A s \in DOMAIN toml : parse_config_section(toml[s], s) # Refused
        /\ parse_comparison_config_data(config).preset = preset
        /\ parse_comparison_config_data(config).overrides = overrides
    BY DEF parse_comparison_config_data
  <1>2. DOMAIN toml \subseteq DOMAIN COMPARISON_CONFIG_KEYS
    BY TheFields DEF SectionTables
  <1>3. preset \in Presets \cup {None}
    BY <1>1 DEF ParsePreset, Presets
  <1>4. \A s \in DOMAIN toml : toml[s] # NotATable =>
          \A k \in DOMAIN toml[s] : toml[s][k] \in Int \cup {NonFinite, NotANumber}
    BY DEF WellTyped
  <1>5. /\ DOMAIN sections = DOMAIN toml
        /\ \A s \in DOMAIN toml : sections[s] = parse_config_section(toml[s], s)
    OBVIOUS
  <1> HIDE DEF toml, preset
  <1>6. ASSUME NEW s \in DOMAIN toml
        PROVE  /\ toml[s] # NotATable
               /\ DOMAIN toml[s] \subseteq DOMAIN COMPARISON_CONFIG_KEYS[s]
               /\ DOMAIN sections[s] = {COMPARISON_CONFIG_KEYS[s][k] : k \in DOMAIN toml[s]}
               /\ \A k \in DOMAIN toml[s] :
                    /\ sections[s][COMPARISON_CONFIG_KEYS[s][k]] = toml[s][k]
                    /\ Valid(COMPARISON_CONFIG_KEYS[s][k], toml[s][k])
    <2>1. s \in DOMAIN COMPARISON_CONFIG_KEYS
      BY <1>2
    <2>2. parse_config_section(toml[s], s) # Refused
      BY <1>1
    <2>3. PICK t : t = toml[s]
      OBVIOUS
    <2>4. t # NotATable => \A k \in DOMAIN t : t[k] \in Int \cup {NonFinite, NotANumber}
      BY <1>4, <2>3
    <2>5. parse_config_section(t, s) # Refused
      BY <2>2, <2>3
    <2>6. /\ t # NotATable
          /\ DOMAIN t \subseteq DOMAIN COMPARISON_CONFIG_KEYS[s]
          /\ DOMAIN parse_config_section(t, s) =
               {COMPARISON_CONFIG_KEYS[s][k] : k \in DOMAIN t}
          /\ \A k \in DOMAIN t :
               /\ parse_config_section(t, s)[COMPARISON_CONFIG_KEYS[s][k]] = t[k]
               /\ Valid(COMPARISON_CONFIG_KEYS[s][k], t[k])
      BY <2>1, <2>4, <2>5, ParsedSection
    <2>7. sections[s] = parse_config_section(t, s)
      BY <1>5, <2>3
    <2> QED
      BY <2>3, <2>6, <2>7
  <1> HIDE DEF sections
  <1>7. /\ DOMAIN overrides = UNION {DOMAIN sections[s] : s \in DOMAIN sections}
        /\ \A f \in DOMAIN overrides :
             overrides[f] = sections[CHOOSE s \in DOMAIN sections : f \in DOMAIN sections[s]][f]
    OBVIOUS
  <1> HIDE DEF overrides
  <1>8. ASSUME NEW f \in DOMAIN overrides
        PROVE  \E s \in DOMAIN toml : \E k \in DOMAIN toml[s] :
                 /\ COMPARISON_CONFIG_KEYS[s][k] = f /\ overrides[f] = toml[s][k]
                 /\ Valid(f, overrides[f]) /\ f \in Fields
    <2> DEFINE s == CHOOSE t \in DOMAIN sections : f \in DOMAIN sections[t]
    <2>1. s \in DOMAIN sections /\ f \in DOMAIN sections[s]
      BY <1>7
    <2>2. overrides[f] = sections[s][f]
      BY <1>7
    <2> HIDE DEF s
    <2>3. s \in DOMAIN toml
      BY <1>5, <2>1
    <2>4. PICK k \in DOMAIN toml[s] : COMPARISON_CONFIG_KEYS[s][k] = f
      BY <1>6, <2>1, <2>3
    <2>5. /\ sections[s][f] = toml[s][k] /\ Valid(f, toml[s][k])
          /\ k \in DOMAIN COMPARISON_CONFIG_KEYS[s]
      BY <1>6, <2>3, <2>4
    <2>6. f \in Fields
      BY <1>2, <2>3, <2>4, <2>5, EveryFieldHasItsKey
    <2> QED
      BY <2>2, <2>3, <2>4, <2>5, <2>6
  <1>9. ASSUME NEW s \in DOMAIN toml, NEW k \in DOMAIN toml[s]
        PROVE  /\ k \in DOMAIN COMPARISON_CONFIG_KEYS[s]
               /\ COMPARISON_CONFIG_KEYS[s][k] \in DOMAIN overrides
    <2>1. COMPARISON_CONFIG_KEYS[s][k] \in DOMAIN sections[s]
      BY <1>6
    <2> QED
      BY <1>5, <1>6, <1>7, <2>1
  <1>10. DOMAIN overrides \subseteq Fields /\ \A s \in DOMAIN toml : toml[s] # NotATable
    BY <1>6, <1>8
  <1>11. \A f \in DOMAIN overrides :
           /\ Valid(f, overrides[f])
           /\ \E s \in DOMAIN toml : \E k \in DOMAIN toml[s] :
                COMPARISON_CONFIG_KEYS[s][k] = f /\ overrides[f] = toml[s][k]
    BY <1>8
  <1> QED
    BY <1>1, <1>2, <1>3, <1>9, <1>10, <1>11 DEF toml

\* What a comparison may be given for a preset and a configuration
Given(cli_preset, config) ==
  cli_preset \in Presets \cup {None} /\ (config # None => WellTyped(config))

\* What the file gives
FromFile(config) == IF config = None THEN NoConfig ELSE parse_comparison_config_data(config)

\* The preset in force, and each threshold of the file or else of the preset
LEMMA Resolution ==
  ASSUME NEW cli_preset, NEW config, Given(cli_preset, config),
         resolve_comparison_thresholds(cli_preset, config) # Refused
  PROVE  LET file == FromFile(config)
             resolved0 == resolve_comparison_thresholds(cli_preset, config)
             name == FirstPresent(cli_preset, file.preset, "default")
         IN /\ file # Refused
            /\ resolved0 = [preset     |-> name,
                            thresholds |-> Replace(COMPARISON_THRESHOLD_PRESETS[name],
                                                   file.overrides)]
            /\ name \in Presets
            /\ resolved0.thresholds \in ValidThresholds
            /\ config # None => parse_comparison_config_data(config) # Refused
  <1> DEFINE file == FromFile(config)
             resolved0 == resolve_comparison_thresholds(cli_preset, config)
             name == FirstPresent(cli_preset, file.preset, "default")
  <1>1. /\ file # Refused
        /\ resolved0 = [preset     |-> name,
                        thresholds |-> Replace(COMPARISON_THRESHOLD_PRESETS[name],
                                               file.overrides)]
    BY DEF FromFile, resolve_comparison_thresholds, SelectThresholds, WithOverrides
  <1>2. CASE config = None
    <2>1. file.preset = None /\ DOMAIN file.overrides = {}
      BY <1>2 DEF FromFile, NoConfig
    <2>2. name \in Presets
      BY <2>1, TheFields DEF FirstPresent, Present, Given
    <2>3. Replace(COMPARISON_THRESHOLD_PRESETS[name], file.overrides) \in ValidThresholds
      BY <2>1, <2>2, PresetsAreValid DEF Replace, ValidThresholds
    <2> QED
      BY <1>1, <1>2, <2>2, <2>3
  <1>3. CASE config # None
    <2>1. file = parse_comparison_config_data(config)
      BY <1>3 DEF FromFile
    <2>2. /\ file.preset \in Presets \cup {None}
          /\ \A f \in DOMAIN file.overrides : Valid(f, file.overrides[f])
      BY <1>1, <1>3, <2>1, ParsedConfig DEF Given
    <2>3. name \in Presets
      BY <2>2, TheFields DEF FirstPresent, Present, Given
    <2>4. Replace(COMPARISON_THRESHOLD_PRESETS[name], file.overrides) \in ValidThresholds
      BY <2>2, <2>3, PresetsAreValid DEF Replace, ValidThresholds, Valid
    <2> QED
      BY <1>1, <1>3, <2>1, <2>3, <2>4
  <1> QED
    BY <1>2, <1>3

-----------------------------------------------------------------------------
(* Every threshold as written *)

\* The tables of a file are what it says of the thresholds.
LEMMA TablesSay ==
  ASSUME NEW config, WellTyped(config), parse_comparison_config_data(config) # Refused,
         NEW s \in DOMAIN COMPARISON_CONFIG_KEYS, NEW k \in DOMAIN COMPARISON_CONFIG_KEYS[s],
         NEW v
  PROVE  (s \in DOMAIN SectionTables(config) /\ k \in DOMAIN SectionTables(config)[s]
            /\ SectionTables(config)[s][k] = v)
         <=> IF s = "rare_support"
             THEN /\ "bulk" \in DOMAIN config /\ "rare_support" \in DOMAIN config["bulk"]
                  /\ k \in DOMAIN config["bulk"]["rare_support"]
                  /\ config["bulk"]["rare_support"][k] = v
             ELSE s \in DOMAIN config /\ k \in DOMAIN config[s] /\ config[s][k] = v
  <1> DEFINE toml == SectionTables(config)
             bulk == IF "bulk" \in DOMAIN config THEN config["bulk"] ELSE NotATable
             nested == bulk # NotATable /\ "rare_support" \in DOMAIN bulk
  <1>1. /\ DOMAIN toml = (DOMAIN config \cap {"clear_gap", "same", "bulk"})
                              \cup (IF nested THEN {"rare_support"} ELSE {})
        /\ nested => toml["rare_support"] = bulk["rare_support"]
        /\ nested => toml["bulk"] = [l \in DOMAIN bulk \ {"rare_support"} |-> bulk[l]]
        /\ \A t \in DOMAIN config \cap {"clear_gap", "same", "bulk"} :
             (t = "bulk" => ~ nested) => toml[t] = config[t]
    BY DEF SectionTables
  <1>2. \A t \in DOMAIN toml : toml[t] # NotATable
    BY ParsedConfig
  <1>3. s \in {"clear_gap", "same", "bulk", "rare_support"}
    BY TheFields
  <1> HIDE DEF toml
  <1>4. "bulk" \in DOMAIN config => bulk # NotATable
    <2>1. ASSUME "bulk" \in DOMAIN config, bulk = NotATable
          PROVE  FALSE
      BY <1>1, <1>2, <2>1
    <2> QED
      BY <2>1
  <1>5. nested <=> "bulk" \in DOMAIN config /\ "rare_support" \in DOMAIN config["bulk"]
    BY <1>4
  <1>6. CASE s = "rare_support"
    BY <1>1, <1>5, <1>6 DEF toml
  <1>7. CASE s = "bulk"
    <2>1. k # "rare_support"
      BY <1>7, TheKeys
    <2>2. CASE nested
      <3>1. "bulk" \in DOMAIN config /\ bulk = config["bulk"] /\ s \in DOMAIN toml
        BY <1>1, <1>5, <1>7, <2>2
      <3>2. /\ k \in DOMAIN toml["bulk"] <=> k \in DOMAIN bulk
            /\ k \in DOMAIN bulk => toml["bulk"][k] = bulk[k]
        BY <1>1, <2>1, <2>2
      <3> QED
        BY <1>7, <3>1, <3>2 DEF toml
    <2>3. CASE ~ nested
      <3>1. s \in DOMAIN toml <=> s \in DOMAIN config
        BY <1>1, <1>7, <2>3
      <3>2. s \in DOMAIN config => toml[s] = config[s]
        BY <1>1, <1>7, <2>3
      <3> QED
        BY <1>7, <3>1, <3>2 DEF toml
    <2> QED
      BY <2>2, <2>3
  <1>8. CASE s \in {"clear_gap", "same"}
    <2>1. s \in DOMAIN toml <=> s \in DOMAIN config
      BY <1>1, <1>8
    <2>2. s \in DOMAIN config => toml[s] = config[s]
      BY <1>1, <1>8
    <2> QED
      BY <1>8, <2>1, <2>2 DEF toml
  <1> QED
    BY <1>3, <1>6, <1>7, <1>8 DEF toml

\* EveryThresholdAsWritten, of any file that is accepted
LEMMA WrittenThresholds ==
  ASSUME NEW cli_preset, NEW config, Given(cli_preset, config), config # None,
         resolve_comparison_thresholds(cli_preset, config) # Refused, NEW field \in Fields
  PROVE  LET resolved0 == resolve_comparison_thresholds(cli_preset, config)
             v == resolved0.thresholds[field]
         IN /\ v >= 0 /\ (field \in Unbounded \/ v <= Scale)
            /\ \/ Says(config, field, v)
               \/ /\ ~ \E u \in Mentioned(config) : Says(config, field, u)
                  /\ v = COMPARISON_THRESHOLD_PRESETS[resolved0.preset][field]
            /\ Present(cli_preset) => resolved0.preset = cli_preset
  <1> DEFINE file == parse_comparison_config_data(config)
             toml == SectionTables(config)
             resolved0 == resolve_comparison_thresholds(cli_preset, config)
             v == resolved0.thresholds[field]
  <1>1. /\ file # Refused
        /\ resolved0.preset = FirstPresent(cli_preset, file.preset, "default")
        /\ resolved0.thresholds = Replace(COMPARISON_THRESHOLD_PRESETS[resolved0.preset],
                                          file.overrides)
        /\ resolved0.thresholds \in ValidThresholds
    BY Resolution DEF FromFile
  <1>2. WellTyped(config)
    BY DEF Given
  <1>3. v >= 0 /\ (field \in Unbounded \/ v <= Scale)
    BY <1>1 DEF ValidThresholds, Valid, InRange
  <1>4. Present(cli_preset) => resolved0.preset = cli_preset
    BY <1>1 DEF FirstPresent
  <1>5. CASE field \in DOMAIN file.overrides
    <2>1. v = file.overrides[field]
      BY <1>1, <1>5 DEF Replace
    <2>2. PICK s \in DOMAIN toml : \E k \in DOMAIN toml[s] :
            COMPARISON_CONFIG_KEYS[s][k] = field /\ file.overrides[field] = toml[s][k]
      BY <1>1, <1>2, <1>5, ParsedConfig
    <2>3. PICK k \in DOMAIN toml[s] :
            COMPARISON_CONFIG_KEYS[s][k] = field /\ file.overrides[field] = toml[s][k]
      BY <2>2
    <2>4. s \in DOMAIN COMPARISON_CONFIG_KEYS /\ k \in DOMAIN COMPARISON_CONFIG_KEYS[s]
      BY <1>1, <1>2, ParsedConfig
    <2>5. Says(config, field, v)
      BY <1>1, <1>2, <2>1, <2>3, <2>4, TablesSay DEF Says
    <2> QED
      BY <1>3, <1>4, <2>5
  <1>6. CASE field \notin DOMAIN file.overrides
    <2>1. v = COMPARISON_THRESHOLD_PRESETS[resolved0.preset][field]
      BY <1>1, <1>6 DEF Replace
    <2>2. ASSUME NEW u, Says(config, field, u)
          PROVE  FALSE
      <3>1. PICK s \in DOMAIN COMPARISON_CONFIG_KEYS :
              \E k \in DOMAIN COMPARISON_CONFIG_KEYS[s] :
                /\ COMPARISON_CONFIG_KEYS[s][k] = field
                /\ s \in DOMAIN toml /\ k \in DOMAIN toml[s]
        BY <1>1, <1>2, <2>2, TablesSay DEF Says
      <3>2. field \in DOMAIN file.overrides
        BY <1>1, <1>2, <3>1, ParsedConfig
      <3> QED
        BY <1>6, <3>2
    <2> QED
      BY <1>3, <1>4, <2>1, <2>2
  <1> QED
    BY <1>5, <1>6

-----------------------------------------------------------------------------
(* The dumped configuration *)

\* The thresholds of a section
SectionFields(s) == {COMPARISON_CONFIG_KEYS[s][k] : k \in DOMAIN COMPARISON_CONFIG_KEYS[s]}

LEMMA SectionsCoverTheFields ==
  /\ \A s \in DOMAIN COMPARISON_CONFIG_KEYS : SectionFields(s) \subseteq Fields
  /\ \A f \in Fields : \E s \in DOMAIN COMPARISON_CONFIG_KEYS : f \in SectionFields(s)
  BY EveryFieldHasItsKey DEF SectionFields

\* A dumped section is a table that is accepted, and gives its thresholds.
LEMMA DumpedSectionIsRead ==
  ASSUME NEW th \in ValidThresholds, NEW s \in DOMAIN COMPARISON_CONFIG_KEYS
  PROVE  /\ DumpedSection(th, s) \in [DOMAIN COMPARISON_CONFIG_KEYS[s] -> Int]
         /\ parse_config_section(DumpedSection(th, s), s) = [f \in SectionFields(s) |-> th[f]]
         /\ parse_config_section(DumpedSection(th, s), s) # Refused
  <1> DEFINE known == COMPARISON_CONFIG_KEYS[s]
             table == DumpedSection(th, s)
  <1>1. /\ DOMAIN table = DOMAIN known
        /\ \A k \in DOMAIN known : table[k] = th[known[k]] /\ known[k] \in Fields
        /\ table = [k \in DOMAIN known |-> th[known[k]]]
    BY EveryFieldHasItsKey DEF DumpedSection
  <1>2. \A f \in Fields : th[f] \in Int /\ Valid(f, th[f])
    BY DEF ValidThresholds
  <1>3. table \in [DOMAIN known -> Int]
    BY <1>1, <1>2
  <1>4. table \in Sections
    BY <1>3, TheFields DEF Sections
  <1>5. table # NotATable /\ \A f \in Fields : th[f] \notin {NotANumber, NonFinite}
    BY <1>2, <1>4, ConfigAssumption
  <1>6. \A k \in DOMAIN table : validate_config_float(known[k], table[k])
    BY <1>1, <1>2, <1>5 DEF validate_config_float, Valid
  <1> HIDE DEF table
  <1>7. parse_config_section(table, s) =
          [f \in {known[k] : k \in DOMAIN table} |->
             table[CHOOSE k \in DOMAIN table : known[k] = f]]
    BY <1>1, <1>5, <1>6 DEF parse_config_section
  <1>8. ASSUME NEW f \in SectionFields(s)
        PROVE  table[CHOOSE k \in DOMAIN table : known[k] = f] = th[f]
    <2>1. PICK k \in DOMAIN known : known[k] = f
      BY DEF SectionFields
    <2>2. (CHOOSE l \in DOMAIN table : known[l] = f) \in DOMAIN known
          /\ known[CHOOSE l \in DOMAIN table : known[l] = f] = f
      BY <1>1, <2>1
    <2> QED
      BY <1>1, <2>2
  <1>9. parse_config_section(table, s) = [f \in SectionFields(s) |-> th[f]]
    BY <1>1, <1>7, <1>8 DEF SectionFields
  <1>10. parse_config_section(table, s) \in [SectionFields(s) -> Int]
    BY <1>2, <1>9, SectionsCoverTheFields
  <1>11. parse_config_section(table, s) # Refused
    BY <1>10, SectionsCoverTheFields, ConfigAssumption
  <1> QED
    BY <1>3, <1>9, <1>11 DEF table

\* The file that is dumped, table by table
LEMMA DumpedTables ==
  ASSUME NEW preset \in Presets, NEW th \in ValidThresholds
  PROVE  LET d == dump_comparison_config(preset, th)
             toml == SectionTables(d)
         IN /\ d \in Dumps
            /\ DOMAIN toml = DOMAIN COMPARISON_CONFIG_KEYS
            /\ \A s \in DOMAIN toml : toml[s] = DumpedSection(th, s)
            /\ ParsePreset(d.preset) = preset /\ preset # Refused
            /\ d.preset \in Sections
  <1> DEFINE d == dump_comparison_config(preset, th)
             toml == SectionTables(d)
             bulk == d.bulk
  <1>1. /\ DumpedSection(th, "clear_gap") \in [DOMAIN COMPARISON_CONFIG_KEYS["clear_gap"] -> Int]
        /\ DumpedSection(th, "same") \in [DOMAIN COMPARISON_CONFIG_KEYS["same"] -> Int]
        /\ DumpedSection(th, "rare_support")
             \in [DOMAIN COMPARISON_CONFIG_KEYS["rare_support"] -> Int]
    BY DumpedSectionIsRead, TheFields
  <1>2. bulk = [sample_coverage  |-> th["bulk_same_sample_coverage"],
                support_coverage |-> th["bulk_same_support_coverage"],
                rare_support     |-> DumpedSection(th, "rare_support")]
    BY DEF dump_comparison_config, COMPARISON_CONFIG_KEYS
  <1>3. th["bulk_same_sample_coverage"] \in Int /\ th["bulk_same_support_coverage"] \in Int
    BY TheFields DEF ValidThresholds
  <1>4. bulk \in [sample_coverage : Int, support_coverage : Int,
                  rare_support : [DOMAIN COMPARISON_CONFIG_KEYS["rare_support"] -> Int]]
    BY <1>1, <1>2, <1>3
  <1>5. bulk \in Sections
    BY <1>4 DEF Sections
  <1>6. preset \in DOMAIN COMPARISON_THRESHOLD_PRESETS
    BY DEF Presets
  <1>7. [name |-> preset] \in Sections
    BY <1>6 DEF Sections
  <1>8. DumpedSection(th, "clear_gap") \in Sections /\ DumpedSection(th, "same") \in Sections
    BY <1>1 DEF Sections
  <1>9. /\ d = [version |-> 1, preset |-> [name |-> preset],
                clear_gap |-> DumpedSection(th, "clear_gap"),
                same |-> DumpedSection(th, "same"), bulk |-> bulk]
    BY DEF dump_comparison_config
  <1> HIDE DEF d, bulk
  <1>10. d \in Dumps
    BY <1>5, <1>7, <1>8, <1>9 DEF Dumps
  <1>11. /\ DOMAIN d = {"version", "preset", "clear_gap", "same", "bulk"}
         /\ d["clear_gap"] = DumpedSection(th, "clear_gap")
         /\ d["same"] = DumpedSection(th, "same") /\ d["bulk"] = bulk
         /\ d.preset = [name |-> preset]
    BY <1>9
  <1>12. bulk # NotATable /\ "rare_support" \in DOMAIN bulk
    BY <1>2, <1>5, ConfigAssumption
  <1>13. /\ DOMAIN toml = {"clear_gap", "same", "bulk", "rare_support"}
         /\ toml["clear_gap"] = DumpedSection(th, "clear_gap")
         /\ toml["same"] = DumpedSection(th, "same")
         /\ toml["rare_support"] = bulk["rare_support"]
         /\ toml["bulk"] = [k \in DOMAIN bulk \ {"rare_support"} |-> bulk[k]]
    <2>1. "bulk" \in DOMAIN d /\ d["bulk"] = bulk
      BY <1>11
    <2>2. toml = [s \in {"clear_gap", "same", "bulk", "rare_support"} |->
                      CASE s = "rare_support" -> bulk["rare_support"]
                        [] s = "bulk" -> [k \in DOMAIN bulk \ {"rare_support"} |-> bulk[k]]
                        [] OTHER -> d[s]]
      BY <1>11, <1>12, <2>1 DEF SectionTables
    <2> HIDE DEF toml
    <2> QED
      BY <1>11, <2>2
  <1>14. toml["rare_support"] = DumpedSection(th, "rare_support")
    BY <1>2, <1>13
  <1>15. [k \in DOMAIN bulk \ {"rare_support"} |-> bulk[k]] = DumpedSection(th, "bulk")
    BY <1>2 DEF DumpedSection, COMPARISON_CONFIG_KEYS
  <1> HIDE DEF toml
  <1>16. /\ DOMAIN toml = DOMAIN COMPARISON_CONFIG_KEYS
         /\ \A s \in DOMAIN toml : toml[s] = DumpedSection(th, s)
    BY <1>13, <1>14, <1>15, TheFields
  <1>17. d.preset \in Sections /\ preset # Refused
    BY <1>6, <1>7, <1>11, ConfigAssumption
  <1>18. d.preset # NotATable
    BY <1>17, ConfigAssumption
  <1>19. ParsePreset(d.preset) = preset
    BY <1>11, <1>18 DEF ParsePreset, Presets
  <1> QED
    BY <1>10, <1>16, <1>17, <1>19 DEF d, toml

\* The dumped file gives all the thresholds, and the preset they came from.
LEMMA DumpedFileIsRead ==
  ASSUME NEW preset \in Presets, NEW th \in ValidThresholds
  PROVE  LET d == dump_comparison_config(preset, th) IN
         /\ d # None
         /\ parse_comparison_config_data(d) = [preset |-> preset, overrides |-> th]
         /\ parse_comparison_config_data(d) # Refused
  <1> DEFINE d == dump_comparison_config(preset, th)
             toml == SectionTables(d)
             sections == [s \in DOMAIN toml |-> parse_config_section(toml[s], s)]
             overrides == [f \in UNION {DOMAIN sections[s] : s \in DOMAIN sections} |->
                             sections[CHOOSE s \in DOMAIN sections : f \in DOMAIN sections[s]][f]]
  <1>1. /\ d \in Dumps /\ ParsePreset(d["preset"]) = preset /\ preset # Refused
        /\ DOMAIN toml = DOMAIN COMPARISON_CONFIG_KEYS
        /\ \A s \in DOMAIN toml : toml[s] = DumpedSection(th, s)
    BY DumpedTables
  <1>2. DOMAIN d = {"version", "preset", "clear_gap", "same", "bulk"} /\ d["version"] = 1
    BY DEF dump_comparison_config
  <1>3. /\ DOMAIN sections = DOMAIN COMPARISON_CONFIG_KEYS
        /\ \A s \in DOMAIN sections : sections[s] = [f \in SectionFields(s) |-> th[f]]
        /\ \A s \in DOMAIN sections : sections[s] # Refused
    BY <1>1, DumpedSectionIsRead
  <1>4. /\ DOMAIN overrides = UNION {DOMAIN sections[s] : s \in DOMAIN sections}
        /\ \A f \in DOMAIN overrides :
             overrides[f] = sections[CHOOSE s \in DOMAIN sections : f \in DOMAIN sections[s]][f]
        /\ overrides = [f \in DOMAIN overrides |-> overrides[f]]
    OBVIOUS
  <1>5. parse_comparison_config_data(d) =
          IF preset = Refused \/ \E s \in DOMAIN sections : sections[s] = Refused
          THEN Refused ELSE [preset |-> preset, overrides |-> overrides]
    <2> HIDE DEF d
    <2>1. "preset" \in DOMAIN d /\ "version" \in DOMAIN d
      BY <1>2
    <2> QED
      BY <1>1, <1>2, <2>1 DEF parse_comparison_config_data
  <1> HIDE DEF d, toml, sections, overrides
  <1>6. DOMAIN overrides = Fields
    BY <1>3, <1>4, SectionsCoverTheFields
  <1>7. ASSUME NEW f \in Fields
        PROVE  overrides[f] = th[f]
    <2>1. PICK s \in DOMAIN sections : s = CHOOSE t \in DOMAIN sections : f \in DOMAIN sections[t]
      BY <1>4, <1>6
    <2>2. f \in DOMAIN sections[s]
      BY <1>4, <1>6, <2>1
    <2> QED
      BY <1>3, <1>4, <1>6, <2>1, <2>2
  <1>8. overrides = th
    BY <1>4, <1>6, <1>7 DEF ValidThresholds
  <1>9. parse_comparison_config_data(d) = [preset |-> preset, overrides |-> th]
    BY <1>1, <1>3, <1>5, <1>8
  <1>10. [preset |-> preset, overrides |-> th] \in Parsed(Fields)
    BY DEF Parsed, ValidThresholds, Presets
  <1>11. parse_comparison_config_data(d) # Refused /\ d # None
    BY <1>1, <1>9, <1>10, ConfigAssumption
  <1> QED
    BY <1>9, <1>11 DEF d

\* DumpReproduces, of any thresholds a program may have resolved
LEMMA DumpedThresholds ==
  ASSUME NEW preset \in Presets, NEW th \in ValidThresholds,
         NEW cli_preset \in Presets \cup {None}
  PROVE  resolve_comparison_thresholds(cli_preset, dump_comparison_config(preset, th)) =
           [preset |-> IF cli_preset = None THEN preset ELSE cli_preset, thresholds |-> th]
  <1> DEFINE d == dump_comparison_config(preset, th)
             name == IF cli_preset = None THEN preset ELSE cli_preset
  <1>1. /\ d # None /\ parse_comparison_config_data(d) = [preset |-> preset, overrides |-> th]
        /\ parse_comparison_config_data(d) # Refused
    BY DumpedFileIsRead
  <1>2. preset # None
    BY ConfigAssumption DEF Presets
  <1>3. resolve_comparison_thresholds(cli_preset, d) =
          WithOverrides(FirstPresent(cli_preset, preset, "default"), th)
    BY <1>1 DEF resolve_comparison_thresholds, SelectThresholds
  <1>4. FirstPresent(cli_preset, preset, "default") = name
    BY <1>2 DEF FirstPresent, Present
  <1>5. Replace(COMPARISON_THRESHOLD_PRESETS[name], th) = th
    BY DEF Replace, ValidThresholds
  <1> QED
    BY <1>3, <1>4, <1>5 DEF WithOverrides

-----------------------------------------------------------------------------
(* Every comparison *)

\* What is decided is what the functions return for the arguments.
DecidedByTheFunctions ==
  /\ args \in Comparisons
  /\ stage \in {"resolve", "compare", "done", "refused"}
  /\ stage \in {"compare", "done"} =>
       /\ resolved = resolve_comparison_thresholds(args.preset, args.config)
       /\ resolved # Refused
  /\ stage = "done" => decision = compare_gpu_timings(args.ref, args.cmp, resolved.thresholds)

LEMMA AlwaysDecidedByTheFunctions ==
  VerdictSpec => []DecidedByTheFunctions
  <1>1. VerdictInit => DecidedByTheFunctions
    BY DEF VerdictInit, DecidedByTheFunctions
  <1>2. DecidedByTheFunctions /\ [VerdictNext]_verdict_vars => DecidedByTheFunctions'
    <2> SUFFICES ASSUME DecidedByTheFunctions, [VerdictNext]_verdict_vars
                 PROVE  DecidedByTheFunctions'
      OBVIOUS
    <2> USE DEF DecidedByTheFunctions
    <2>1. CASE ResolveThresholds
      BY <2>1 DEF ResolveThresholds
    <2>2. CASE CompareGpuTimings
      BY <2>2 DEF CompareGpuTimings
    <2>3. CASE VerdictReached \/ UNCHANGED verdict_vars
      BY <2>3 DEF VerdictReached, verdict_vars
    <2> QED
      BY <2>1, <2>2, <2>3 DEF VerdictNext
  <1> QED
    BY <1>1, <1>2, PTL DEF VerdictSpec

\* What the proofs use of a timing
WellFormed(t) ==
  /\ t \in Timings
  /\ None \notin {SampleTimes(t), Frequencies(t)} => CutAlike(SampleTimes(t), Frequencies(t))

LEMMA ComparisonsAreGiven ==
  ASSUME NEW c \in Comparisons
  PROVE  Given(c.preset, c.config) /\ WellFormed(c.ref) /\ WellFormed(c.cmp)
  BY VerdictAssumption DEF Given, WellTyped, WellFormed, Presets

\* Every threshold in force lies in its range and is what the file says of it,
\* or else what the preset says, which the command line selects before the
\* file: SelectThresholds and parse_comparison_config_data, for every file.
THEOREM ThresholdsAreAlwaysAsWritten ==
  VerdictSpec => []EveryThresholdAsWritten
  <1>1. DecidedByTheFunctions => EveryThresholdAsWritten
    <2> SUFFICES ASSUME DecidedByTheFunctions, stage \in {"compare", "done"}, args.config # None,
                        NEW field \in Fields
                 PROVE  LET v == resolved.thresholds[field] IN
                        /\ v >= 0 /\ (field \in Unbounded \/ v <= Scale)
                        /\ \/ Says(args.config, field, v)
                           \/ /\ ~ \E u \in Mentioned(args.config) : Says(args.config, field, u)
                              /\ v = COMPARISON_THRESHOLD_PRESETS[resolved.preset][field]
                        /\ Present(args.preset) => resolved.preset = args.preset
      BY DEF EveryThresholdAsWritten
    <2>1. PICK cli_preset, config : cli_preset = args.preset /\ config = args.config
      OBVIOUS
    <2>2. /\ Given(cli_preset, config) /\ config # None
          /\ resolved = resolve_comparison_thresholds(cli_preset, config)
          /\ resolved # Refused
      BY <2>1, ComparisonsAreGiven DEF DecidedByTheFunctions
    <2> QED
      BY <2>1, <2>2, WrittenThresholds
  <1> QED
    BY <1>1, AlwaysDecidedByTheFunctions, PTL

\* The file --dump-config prints gives the thresholds it was printed with,
\* whatever preset the command line selects next to it:
\* dump_comparison_config and parse_comparison_config_data, for every file.
THEOREM DumpAlwaysReproduces ==
  VerdictSpec => []DumpReproduces
  <1>1. DecidedByTheFunctions => DumpReproduces
    <2> SUFFICES ASSUME DecidedByTheFunctions, stage \in {"compare", "done"}
                 PROVE  DumpReproduces
      BY DEF DumpReproduces
    <2>1. PICK cli_preset, config : cli_preset = args.preset /\ config = args.config
      OBVIOUS
    <2>2. /\ Given(cli_preset, config)
          /\ resolved = resolve_comparison_thresholds(cli_preset, config)
          /\ resolved # Refused
      BY <2>1, ComparisonsAreGiven DEF DecidedByTheFunctions
    <2>3. PICK preset, th : /\ resolved = [preset |-> preset, thresholds |-> th]
                            /\ preset \in Presets /\ th \in ValidThresholds
      BY <2>2, Resolution
    <2>4. \A name \in Presets \cup {None} :
            resolve_comparison_thresholds(name, dump_comparison_config(preset, th)) =
              [preset |-> IF name = None THEN preset ELSE name, thresholds |-> th]
      BY <2>3, DumpedThresholds
    <2>5. resolved.preset = preset /\ resolved.thresholds = th
      BY <2>3
    <2>6. \A name \in Presets : name # None
      BY ConfigAssumption DEF Presets
    <2>7. resolve_comparison_thresholds(None, dump_comparison_config(preset, th)) = resolved
      BY <2>3, <2>4
    <2>8. \A name \in Presets :
            resolve_comparison_thresholds(name, dump_comparison_config(preset, th)).thresholds
              = resolved.thresholds
      BY <2>4, <2>5
    <2> QED
      BY <2>5, <2>7, <2>8 DEF DumpReproduces, Presets
  <1> QED
    BY <1>1, AlwaysDecidedByTheFunctions, PTL

-----------------------------------------------------------------------------
(* Finite sets of numbers, and counting samples *)

LEMMA PairMinMax ==
  ASSUME NEW a \in Int, NEW b \in Int
  PROVE  /\ Min({a, b}) = IF a <= b THEN a ELSE b
         /\ Max({a, b}) = IF a >= b THEN a ELSE b
  BY DEF Min, Max

\* A finite set of numbers that is not empty has a least and a greatest one.
LEMMA LeastAndGreatest ==
  ASSUME NEW S \in SUBSET Int, IsFiniteSet(S), S # {}
  PROVE  /\ Min(S) \in S /\ \A y \in S : Min(S) <= y
         /\ \E g \in S : \A y \in S : y <= g
  <1>1. IsWellFoundedOn(StrictSubsetOrdering(S), SUBSET S)
    BY FS_StrictSubsetOrderingWellFounded, FS_FiniteSubsetsOfFinite
  <1>2. \E least \in S : \A y \in S : least <= y
    <2> DEFINE Below(v) == {u \in S : u < v}
               below == {Below(v) : v \in S}
    <2>1. below \subseteq SUBSET S /\ below # {}
      OBVIOUS
    <2> HIDE DEF below
    <2>2. PICK b \in below : \A y \in below : ~ (<<y, b>> \in StrictSubsetOrdering(S))
      BY <1>1, <2>1, WFMin
    <2>3. PICK v \in S : b = Below(v)
      BY <2>2 DEF below
    <2>4. ASSUME NEW y \in S, y < v
          PROVE  FALSE
      <3>1. Below(y) \in below
        BY DEF below
      <3>2. \A u \in S : u < y => u < v
        BY <2>4
      <3>3. Below(y) \subseteq Below(v) /\ y \in Below(v) /\ y \notin Below(y)
        <4>1. Below(y) \subseteq Below(v)
          BY <3>2
        <4>2. y \in Below(v)
          BY <2>4
        <4>3. y \in Int /\ ~ (y < y)
          OBVIOUS
        <4> QED
          BY <4>1, <4>2, <4>3
      <3>4. <<Below(y), b>> \in StrictSubsetOrdering(S)
        BY <2>3, <3>3 DEF StrictSubsetOrdering
      <3> QED
        BY <2>2, <3>1, <3>4
    <2> QED
      BY <2>4
  <1>3. \E greatest \in S : \A y \in S : y <= greatest
    <2> DEFINE Above(v) == {u \in S : u > v}
               above == {Above(v) : v \in S}
    <2>1. above \subseteq SUBSET S /\ above # {}
      OBVIOUS
    <2> HIDE DEF above
    <2>2. PICK b \in above : \A y \in above : ~ (<<y, b>> \in StrictSubsetOrdering(S))
      BY <1>1, <2>1, WFMin
    <2>3. PICK v \in S : b = Above(v)
      BY <2>2 DEF above
    <2>4. ASSUME NEW y \in S, y > v
          PROVE  FALSE
      <3>1. Above(y) \in above
        BY DEF above
      <3>2. \A u \in S : u > y => u > v
        BY <2>4
      <3>3. Above(y) \subseteq Above(v) /\ y \in Above(v) /\ y \notin Above(y)
        <4>1. Above(y) \subseteq Above(v)
          BY <3>2
        <4>2. y \in Above(v)
          BY <2>4
        <4>3. y \in Int /\ ~ (y > y)
          OBVIOUS
        <4> QED
          BY <4>1, <4>2, <4>3
      <3>4. <<Above(y), b>> \in StrictSubsetOrdering(S)
        BY <2>3, <3>3 DEF StrictSubsetOrdering
      <3> QED
        BY <2>2, <3>1, <3>4
    <2> QED
      BY <2>4
  <1>4. Min(S) \in S /\ \A y \in S : Min(S) <= y
    BY <1>2 DEF Min
  <1> QED
    BY <1>3, <1>4

\* Of two sets of numbers, the larger one has the lesser least number.
LEMMA LeastOfMore ==
  ASSUME NEW S \in SUBSET Int, IsFiniteSet(S), NEW T \in SUBSET S, T # {}
  PROVE  Min(S) <= Min(T) /\ Min(T) \in S
  <1>1. IsFiniteSet(T) /\ S # {} /\ T \in SUBSET Int
    BY FS_Subset
  <1>2. Min(T) \in T
    BY <1>1, LeastAndGreatest
  <1>3. \A y \in S : Min(S) <= y
    BY <1>1, LeastAndGreatest
  <1> QED
    BY <1>2, <1>3

LEMMA RunsAreRecords ==
  ASSUME NEW runs \in Runs, NEW i \in DOMAIN runs
  PROVE  runs[i] \in [value : Int \cup {NonFinite}, count : Nat]
  <1> DEFINE R == [value : Int \cup {NonFinite}, count : Nat]
  <1>1. runs \in Seq(R)
    BY DEF Runs
  <1> HIDE DEF R
  <1>2. runs[i] \in R
    BY <1>1
  <1> QED
    BY <1>2 DEF R

\* Samples whose runs are finite in number
LEMMA SamplesAreFinite ==
  ASSUME NEW runs \in Runs
  PROVE  /\ IsFiniteSet(SamplesIn(runs)) /\ Total(runs) \in Nat
         /\ IsFiniteSet(Values(runs))
         /\ \A in : Weight(runs, in) \in Nat /\ Weight(runs, in) <= Total(runs)
         /\ \A in, more : in \cap Values(runs) \subseteq more
                            => Weight(runs, in) <= Weight(runs, more)
  <1>1. PICK n \in Nat : DOMAIN runs = 1..n
    BY DEF Runs
  <1>2. IsFiniteSet(DOMAIN runs)
    BY <1>1, FS_Interval
  <1> DEFINE samples == [i \in DOMAIN runs |-> {i} \X (1..runs[i].count)]
             values == [i \in DOMAIN runs |-> runs[i].value]
  <1>3. samples \in Surjection(DOMAIN runs, {{i} \X (1..runs[i].count) : i \in DOMAIN runs})
    BY DEF Surjection
  <1>4. IsFiniteSet({{i} \X (1..runs[i].count) : i \in DOMAIN runs})
    <2> HIDE DEF samples
    <2> QED
      BY <1>2, <1>3, FS_Surjection
  <1>5. ASSUME NEW i \in DOMAIN runs
        PROVE  IsFiniteSet({i} \X (1..runs[i].count))
    <2>1. runs[i] \in [value : Int \cup {NonFinite}, count : Nat]
      BY <1>1, RunsAreRecords
    <2>2. runs[i].count \in Nat
      BY <2>1
    <2>3. IsFiniteSet(1..runs[i].count)
      BY <2>2, FS_Interval
    <2> QED
      BY <2>3, FS_Singleton, FS_Product
  <1>6. IsFiniteSet(SamplesIn(runs))
    BY <1>4, <1>5, FS_UNION DEF SamplesIn
  <1>7. Total(runs) \in Nat
    BY <1>6, FS_CardinalityType DEF Total
  <1>8. values \in Surjection(DOMAIN runs, Values(runs))
    BY DEF Surjection, Values
  <1>9. IsFiniteSet(Values(runs))
    <2> HIDE DEF values
    <2> QED
      BY <1>2, <1>8, FS_Surjection
  <1>10. ASSUME NEW in
         PROVE  Weight(runs, in) \in Nat /\ Weight(runs, in) <= Total(runs)
    BY <1>6, FS_Subset, FS_CardinalityType DEF Weight, Total
  <1>11. ASSUME NEW in, NEW more, in \cap Values(runs) \subseteq more
         PROVE  Weight(runs, in) <= Weight(runs, more)
    <2> DEFINE A == {s \in SamplesIn(runs) : runs[s[1]].value \in in}
               B == {s \in SamplesIn(runs) : runs[s[1]].value \in more}
    <2>1. \A s \in SamplesIn(runs) : runs[s[1]].value \in Values(runs)
      BY DEF SamplesIn, Values
    <2>2. A \subseteq B
      BY <1>11, <2>1
    <2>3. IsFiniteSet(B)
      BY <1>6, FS_Subset
    <2> HIDE DEF A, B
    <2>4. Cardinality(A) <= Cardinality(B)
      BY <2>2, <2>3, FS_Subset
    <2> QED
      BY <2>4 DEF Weight, A, B
  <1> QED
    BY <1>6, <1>7, <1>9, <1>10, <1>11

-----------------------------------------------------------------------------
(* Intervals *)

Sound(interval) ==
  /\ interval \in Intervals
  /\ interval.lower > 0 /\ interval.lower <= interval.center
  /\ interval.center <= interval.upper

\* Samples that are numbers above zero, and not none
Measured(runs) ==
  runs \in Runs /\ Total(runs) > 0 /\ \A v \in Values(runs) : v \in Int /\ v > 0

LEMMA PositiveIsNumber ==
  ASSUME NEW v \in Numbers, is_positive_finite(v)
  PROVE  v \in Int /\ v > 0
  BY DEF Numbers, is_positive_finite

\* make_timing_interval returns an interval in order or none.
LEMMA MadeIntervalIsSound ==
  ASSUME NEW lower \in Numbers, NEW center \in Numbers, NEW upper \in Numbers
  PROVE  LET interval == make_timing_interval(lower, center, upper) IN
           interval # None => Sound(interval) /\ interval.center = center
  <1> SUFFICES ASSUME make_timing_interval(lower, center, upper) # None
               PROVE  LET interval == make_timing_interval(lower, center, upper) IN
                        Sound(interval) /\ interval.center = center
    OBVIOUS
  <1>1. /\ is_positive_finite(lower) /\ is_positive_finite(center)
        /\ is_positive_finite(upper) /\ lower <= center /\ center <= upper
        /\ make_timing_interval(lower, center, upper)
             = [lower |-> lower, center |-> center, upper |-> upper]
    BY DEF make_timing_interval
  <1>2. lower \in Int /\ center \in Int /\ upper \in Int /\ lower > 0
    BY <1>1, PositiveIsNumber
  <1> QED
    BY <1>1, <1>2 DEF Sound, Intervals

\* A sound interval is made of its ends.
LEMMA OrderedIntervalIsMade ==
  ASSUME NEW lower \in Int, NEW center \in Int, NEW upper \in Int,
         0 < lower, lower <= center, center <= upper
  PROVE  /\ make_timing_interval(lower, center, upper)
              = [lower |-> lower, center |-> center, upper |-> upper]
         /\ Sound(make_timing_interval(lower, center, upper))
         /\ make_timing_interval(lower, center, upper) # None
  <1>1. \A v \in {lower, center, upper} : is_positive_finite(v)
    BY AbsenceAssumption DEF is_positive_finite
  <1>2. make_timing_interval(lower, center, upper)
          = [lower |-> lower, center |-> center, upper |-> upper]
    BY <1>1 DEF make_timing_interval
  <1> QED
    BY <1>2, AbsenceAssumption DEF Sound, Intervals

\* A rank below the number of samples has a value, and a higher rank no lesser.
LEMMA ValueAtRank ==
  ASSUME NEW runs, Measured(runs), NEW rank \in Nat, rank < Total(runs)
  PROVE  /\ AtRank(runs, rank) \in Values(runs)
         /\ \A below \in Nat : below <= rank => AtRank(runs, below) <= AtRank(runs, rank)
         /\ Min(Values(runs)) <= AtRank(runs, rank)
         /\ Min(Values(runs)) \in Values(runs)
  <1> DEFINE Reach(r) == {v \in Values(runs) : Weight(runs, {u \in Values(runs) : u <= v}) > r}
  <1>1. /\ runs \in Runs /\ Values(runs) \in SUBSET Int /\ IsFiniteSet(Values(runs))
    BY SamplesAreFinite DEF Measured
  <1>2. Weight(runs, Values(runs)) = Total(runs)
    BY DEF Weight, Total, SamplesIn, Values
  <1>3. Values(runs) # {}
    <2>1. SamplesIn(runs) # {}
      BY <1>1, FS_EmptySet DEF Measured, Total
    <2> QED
      BY <2>1 DEF SamplesIn, Values
  <1>4. PICK g \in Values(runs) : \A y \in Values(runs) : y <= g
    BY <1>1, <1>3, LeastAndGreatest
  <1>5. {u \in Values(runs) : u <= g} = Values(runs)
    BY <1>4
  <1>6. g \in Reach(rank)
    BY <1>2, <1>4, <1>5
  <1>7. Reach(rank) \subseteq Values(runs) /\ Reach(rank) # {}
    BY <1>6
  <1>8. ASSUME NEW below \in Nat, below <= rank
        PROVE  Reach(rank) \subseteq Reach(below)
    BY <1>1, <1>8, SamplesAreFinite
  <1>9. \A r : AtRank(runs, r) = Min(Reach(r))
    BY DEF AtRank
  <1> HIDE DEF Reach
  <1>10. Min(Values(runs)) <= Min(Reach(rank)) /\ Min(Reach(rank)) \in Values(runs)
    BY <1>1, <1>7, LeastOfMore
  <1>11. ASSUME NEW below \in Nat, below <= rank
         PROVE  Min(Reach(below)) <= Min(Reach(rank))
    <2>1. Reach(below) \subseteq Values(runs)
      BY DEF Reach
    <2>2. Reach(below) \in SUBSET Int /\ IsFiniteSet(Reach(below))
      BY <1>1, <2>1, FS_Subset
    <2> QED
      BY <1>7, <1>8, <1>11, <2>2, LeastOfMore
  <1>12. Min(Values(runs)) \in Values(runs)
    BY <1>1, <1>3, LeastAndGreatest
  <1> QED
    BY <1>9, <1>10, <1>11, <1>12

\* The quartiles are samples, in order.
LEMMA PercentilesAreValues ==
  ASSUME NEW runs, Measured(runs)
  PROVE  /\ Percentile(runs, 25) \in Values(runs) /\ Percentile(runs, 50) \in Values(runs)
         /\ Percentile(runs, 75) \in Values(runs)
         /\ Min(Values(runs)) \in Values(runs)
         /\ Min(Values(runs)) <= Percentile(runs, 50)
         /\ Percentile(runs, 50) <= Percentile(runs, 75)
  <1>1. PICK n : n = Total(runs)
    OBVIOUS
  <1>2. n \in Nat /\ n > 0
    BY <1>1, SamplesAreFinite DEF Measured
  <1>3. \A p \in {25, 50, 75} : percentile_rank(p, n) \in Nat /\ percentile_rank(p, n) < n
    BY <1>2 DEF percentile_rank
  <1>4. percentile_rank(50, n) <= percentile_rank(75, n)
    BY <1>2 DEF percentile_rank
  <1> QED
    BY <1>1, <1>3, <1>4, ValueAtRank DEF Percentile

\* Samples always have an interval.
LEMMA SamplesHaveAnInterval ==
  ASSUME NEW runs, Measured(runs)
  PROVE  LET input == InputFromSamples(runs) IN
         /\ Sound(input.interval) /\ input.interval # None
         /\ input.center = input.interval.center /\ input.center \in Int /\ runs # None
  <1> DEFINE At(p) == Percentile(runs, p)
  <1>1. runs \in Runs
    BY DEF Measured
  <1>2. /\ At(50) \in Values(runs) /\ At(75) \in Values(runs) /\ At(50) <= At(75)
        /\ Min(Values(runs)) <= At(50) /\ Min(Values(runs)) \in Values(runs)
    BY PercentilesAreValues
  <1>3. /\ At(50) \in Int /\ At(75) \in Int /\ Min(Values(runs)) \in Int
        /\ Min(Values(runs)) > 0
    BY <1>2 DEF Measured
  <1>4. runs # None
    BY <1>1, AbsenceAssumption
  <1>5. /\ InputFromSamples(runs).interval = make_timing_interval(Min(Values(runs)), At(50), At(75))
        /\ InputFromSamples(runs).center = At(50)
    BY <1>4 DEF InputFromSamples, InputFromQuartiles, Input
  <1> HIDE DEF At
  <1>6. LET interval == make_timing_interval(Min(Values(runs)), At(50), At(75)) IN
        Sound(interval) /\ interval # None /\ interval.center = At(50)
    BY <1>2, <1>3, OrderedIntervalIsMade
  <1> QED
    BY <1>3, <1>4, <1>5, <1>6

-----------------------------------------------------------------------------
(* What the timings are summarized by *)

LEMMA TimingFields ==
  ASSUME NEW t \in Timings
  PROVE  /\ t.minimum \in Numbers /\ t.maximum \in Numbers /\ t.mean \in Numbers
         /\ t.stdev \in Numbers /\ t.first_quartile \in Numbers /\ t.median \in Numbers
         /\ t.third_quartile \in Numbers /\ t.clock \in Numbers
         /\ t.sample_source \in Sources /\ t.frequency_source \in Sources
  BY DEF Timings

\* The summaries' intervals are in order or missing, around the summary's center.
LEMMA SummaryIntervalsAreSound ==
  ASSUME NEW t \in Timings
  PROVE  LET robust == compute_robust_summary_interval(t)
             mean == compute_mean_summary_interval(t)
         IN /\ robust # None => Sound(robust) /\ robust.center = t.median
            /\ mean # None => Sound(mean) /\ mean.center = t.mean
  <1>1. ASSUME compute_robust_summary_interval(t) # None
        PROVE  /\ Sound(compute_robust_summary_interval(t))
               /\ compute_robust_summary_interval(t).center = t.median
    <2>1. compute_robust_summary_interval(t)
            = make_timing_interval(t.minimum, t.median, t.third_quartile)
      BY <1>1 DEF compute_robust_summary_interval
    <2> QED
      BY <1>1, <2>1, TimingFields, MadeIntervalIsSound
  <1>2. ASSUME compute_mean_summary_interval(t) # None
        PROVE  /\ Sound(compute_mean_summary_interval(t))
               /\ compute_mean_summary_interval(t).center = t.mean
    <2> DEFINE lower == Max({t.mean - t.stdev, t.mean \div 1000})
               upper == t.mean + t.stdev
               lowest == IF is_positive_finite(t.minimum) THEN Max({lower, t.minimum}) ELSE lower
               highest == IF is_positive_finite(t.maximum) THEN Min({upper, t.maximum}) ELSE upper
    <2>1. /\ is_positive_finite(t.mean) /\ is_nonnegative_finite(t.stdev)
          /\ compute_mean_summary_interval(t) = make_timing_interval(lowest, t.mean, highest)
      BY <1>2 DEF compute_mean_summary_interval
    <2>2. t.mean \in Int /\ t.mean > 0 /\ t.stdev \in Int
      BY <2>1, TimingFields, PositiveIsNumber DEF is_nonnegative_finite, Numbers
    <2>3. t.mean - t.stdev \in Int /\ t.mean \div 1000 \in Int /\ upper \in Int
      BY <2>2
    <2>4. lower \in Int
      <3>1. PICK a \in Int, b \in Int : a = t.mean - t.stdev /\ b = t.mean \div 1000
        BY <2>3
      <3>2. lower = Max({a, b})
        BY <3>1
      <3>3. Max({a, b}) \in {a, b}
        BY PairMinMax
      <3> QED
        BY <3>2, <3>3
    <2> HIDE DEF lower, upper
    <2>5. lowest \in Int
      BY <2>4, TimingFields, PositiveIsNumber, PairMinMax
    <2>6. highest \in Int
      BY <2>3, TimingFields, PositiveIsNumber, PairMinMax
    <2> HIDE DEF lowest, highest
    <2>7. lowest \in Numbers /\ highest \in Numbers /\ t.mean \in Numbers
      BY <2>2, <2>5, <2>6 DEF Numbers
    <2> QED
      BY <1>2, <2>1, <2>7, MadeIntervalIsSound
  <1> QED
    BY <1>1, <1>2

\* A source that can be read and used holds measured samples.
LEMMA UsableSourceIsMeasured ==
  ASSUME NEW source \in Sources, positive_finite_array(SourceValues(source)) # None
  PROVE  /\ Measured(positive_finite_array(SourceValues(source)))
         /\ positive_finite_array(SourceValues(source)) = source.file
         /\ has_material_bulk_source(source)
  <1>1. /\ source # None /\ source.file # None /\ source.count = Total(source.file)
        /\ SourceValues(source) = source.file
    BY DEF positive_finite_array, SourceValues
  <1>2. source.file \in Runs
    BY <1>1 DEF Sources
  <1>3. /\ positive_finite_array(SourceValues(source)) = source.file
        /\ Total(source.file) # 0 /\ \A v \in Values(source.file) : is_positive_finite(v)
    BY <1>1 DEF positive_finite_array
  <1>4. Total(source.file) > 0
    BY <1>2, <1>3, SamplesAreFinite
  <1>5. ASSUME NEW v \in Values(source.file)
        PROVE  v \in Int /\ v > 0
    <2>1. PICK i \in DOMAIN source.file : v = source.file[i].value
      BY DEF Values
    <2>2. v \in Int \cup {NonFinite}
      BY <1>2, <2>1, RunsAreRecords
    <2> QED
      BY <1>3, <2>2 DEF is_positive_finite
  <1>6. Measured(source.file)
    BY <1>2, <1>4, <1>5 DEF Measured
  <1>7. has_material_bulk_source(source)
    BY <1>1, <1>4 DEF has_material_bulk_source
  <1> QED
    BY <1>3, <1>6, <1>7

LEMMA PositiveProduct ==
  ASSUME NEW a \in Int, NEW b \in Int, a > 0, b > 0
  PROVE  a * b \in Int /\ a * b > 0
  OBVIOUS

\* Cycles are measured where times and frequencies are.
LEMMA CyclesAreMeasured ==
  ASSUME NEW times, NEW frequencies, Measured(times), Measured(frequencies),
         Total(times) = Total(frequencies), CutAlike(times, frequencies)
  PROVE  Measured(Cycles(times, frequencies))
  <1> DEFINE cycles == Cycles(times, frequencies)
             R == [value : Int \cup {NonFinite}, count : Nat]
  <1>1. /\ DOMAIN times = DOMAIN frequencies
        /\ times \in Runs /\ frequencies \in Runs
    BY DEF CutAlike, Measured
  <1>2. PICK n \in Nat : DOMAIN times = 1..n
    BY <1>1 DEF Runs
  <1>3. /\ DOMAIN cycles = DOMAIN times
        /\ \A i \in DOMAIN times :
             cycles[i] = [value |-> times[i].value * frequencies[i].value,
                          count |-> times[i].count]
        /\ cycles = [i \in DOMAIN times |-> cycles[i]]
    BY DEF Cycles
  <1> HIDE DEF cycles
  <1>4. ASSUME NEW i \in DOMAIN times
        PROVE  /\ times[i].value * frequencies[i].value \in Int
               /\ times[i].value * frequencies[i].value > 0
               /\ times[i].count \in Nat
    <2>1. times[i].value \in Values(times) /\ frequencies[i].value \in Values(frequencies)
      BY <1>1 DEF Values
    <2>2. /\ times[i].value \in Int /\ times[i].value > 0
          /\ frequencies[i].value \in Int /\ frequencies[i].value > 0
      BY <2>1 DEF Measured
    <2>3. times[i].count \in Nat
      BY <1>1, RunsAreRecords
    <2> QED
      BY <2>2, <2>3, PositiveProduct
  <1>5. \A i \in 1..n : cycles[i] \in R
    BY <1>2, <1>3, <1>4
  <1>6. cycles \in Runs
    <2> HIDE DEF R
    <2>1. cycles = [i \in 1..n |-> cycles[i]]
      BY <1>2, <1>3
    <2>2. cycles \in [1..n -> R]
      BY <1>5, <2>1
    <2>3. cycles \in Seq(R)
      BY <2>2
    <2> QED
      BY <2>3 DEF Runs, R
  <1>7. SamplesIn(cycles) = SamplesIn(times)
    <2>1. \A i \in DOMAIN times : cycles[i].count = times[i].count
      BY <1>3
    <2> QED
      BY <1>3, <2>1 DEF SamplesIn
  <1>8. Total(cycles) > 0
    BY <1>7 DEF Total, Measured
  <1>9. \A v \in Values(cycles) : v \in Int /\ v > 0
    BY <1>3, <1>4 DEF Values
  <1> QED
    BY <1>6, <1>8, <1>9 DEF Measured, cycles

\* Bulk data are measured or unusable, and usable only where they are material.
LEMMA BulkIsMeasured ==
  ASSUME NEW t, WellFormed(t)
  PROVE  /\ SampleTimes(t) # None => Measured(SampleTimes(t))
         /\ get_bulk_cycles(t) # None =>
              Measured(get_bulk_cycles(t)) /\ has_material_bulk_cycle_sources(t)
  <1>1. t.sample_source \in Sources /\ t.frequency_source \in Sources
    BY TimingFields DEF WellFormed
  <1>2. /\ SampleTimes(t) # None =>
             Measured(SampleTimes(t)) /\ has_material_bulk_source(t.sample_source)
        /\ Frequencies(t) # None =>
             Measured(Frequencies(t)) /\ has_material_bulk_source(t.frequency_source)
    BY <1>1, UsableSourceIsMeasured DEF SampleTimes, Frequencies
  <1>3. ASSUME get_bulk_cycles(t) # None
        PROVE  Measured(get_bulk_cycles(t)) /\ has_material_bulk_cycle_sources(t)
    <2>1. /\ SampleTimes(t) # None /\ Frequencies(t) # None
          /\ Total(SampleTimes(t)) = Total(Frequencies(t))
          /\ get_bulk_cycles(t) = Cycles(SampleTimes(t), Frequencies(t))
      BY <1>3 DEF get_bulk_cycles, PairedCycles
    <2>2. CutAlike(SampleTimes(t), Frequencies(t))
      BY <2>1 DEF WellFormed
    <2> QED
      BY <1>2, <2>1, <2>2, CyclesAreMeasured DEF has_material_bulk_cycle_sources
  <1> QED
    BY <1>2, <1>3

-----------------------------------------------------------------------------
(* Both sides' inputs *)

\* What one side is estimated by, next to the other
SideEstimate(this, other) ==
  IF None \notin {compute_robust_summary_estimate(this), compute_robust_summary_estimate(other)}
  THEN compute_robust_summary_estimate(this)
  ELSE IF None \notin {compute_mean_summary_estimate(this), compute_mean_summary_estimate(other)}
  THEN compute_mean_summary_estimate(this)
  ELSE [center |-> this.mean, noise |-> compute_relative_dispersion(this.stdev, this.mean)]

\* What one side is summarized by, next to the other
SideInput(this, other) ==
  IF None \notin {compute_robust_timing_input(this), compute_robust_timing_input(other)}
  THEN compute_robust_timing_input(this)
  ELSE IF None \notin {compute_mean_summary_timing_input(this),
                       compute_mean_summary_timing_input(other)}
  THEN compute_mean_summary_timing_input(this)
  ELSE Input(SideEstimate(this, other).center, SideEstimate(this, other).noise, None)

LEMMA FirstCommonPair ==
  ASSUME NEW a, NEW b, NEW other
  PROVE  FirstCommon(<<a, b>>, other) = IF None \notin {a, b} THEN <<a, b>> ELSE other
  <1>1. Range(<<a, b>>) = {a, b}
    BY DEF Range
  <1> QED
    BY <1>1 DEF FirstCommon

\* Neither side is summarized otherwise for being the reference.
LEMMA InputsBySide ==
  ASSUME NEW ref, NEW cmp
  PROVE  /\ compute_timing_comparison_inputs(ref, cmp)[1] = SideInput(ref, cmp)
         /\ compute_timing_comparison_inputs(ref, cmp)[2] = SideInput(cmp, ref)
  <1>1. PICK a, b : /\ a = compute_robust_timing_input(ref)
                    /\ b = compute_robust_timing_input(cmp)
    OBVIOUS
  <1>2. PICK c, d : /\ c = compute_mean_summary_timing_input(ref)
                    /\ d = compute_mean_summary_timing_input(cmp)
    OBVIOUS
  <1>3. PICK estimates : estimates = compute_common_time_estimates(ref, cmp)
    OBVIOUS
  <1>4. estimates[1] = SideEstimate(ref, cmp) /\ estimates[2] = SideEstimate(cmp, ref)
    <2>1. PICK e, f : /\ e = compute_robust_summary_estimate(ref)
                      /\ f = compute_robust_summary_estimate(cmp)
      OBVIOUS
    <2>2. PICK g, h : /\ g = compute_mean_summary_estimate(ref)
                      /\ h = compute_mean_summary_estimate(cmp)
      OBVIOUS
    <2>3. PICK p, q : /\ p = [center |-> ref.mean,
                              noise |-> compute_relative_dispersion(ref.stdev, ref.mean)]
                      /\ q = [center |-> cmp.mean,
                              noise |-> compute_relative_dispersion(cmp.stdev, cmp.mean)]
      OBVIOUS
    <2>4. estimates = FirstCommon(<<e, f>>, FirstCommon(<<g, h>>, <<p, q>>))
      BY <1>3, <2>1, <2>2, <2>3 DEF compute_common_time_estimates
    <2>5. estimates = IF None \notin {e, f} THEN <<e, f>>
                      ELSE IF None \notin {g, h} THEN <<g, h>> ELSE <<p, q>>
      BY <2>4, FirstCommonPair
    <2>6. /\ SideEstimate(ref, cmp) = IF None \notin {e, f} THEN e
                                      ELSE IF None \notin {g, h} THEN g ELSE p
          /\ SideEstimate(cmp, ref) = IF None \notin {f, e} THEN f
                                      ELSE IF None \notin {h, g} THEN h ELSE q
      BY <2>1, <2>2, <2>3 DEF SideEstimate
    <2> QED
      BY <2>5, <2>6
  <1>5. PICK bare : bare = WithoutIntervals(estimates)
    OBVIOUS
  <1>6. /\ bare[1] = Input(estimates[1].center, estimates[1].noise, None)
        /\ bare[2] = Input(estimates[2].center, estimates[2].noise, None)
    BY <1>5 DEF WithoutIntervals
  <1>7. compute_timing_comparison_inputs(ref, cmp)
          = FirstCommon(<<a, b>>, FirstCommon(<<c, d>>, bare))
    BY <1>1, <1>2, <1>3, <1>5 DEF compute_timing_comparison_inputs
  <1>8. compute_timing_comparison_inputs(ref, cmp)
          = IF None \notin {a, b} THEN <<a, b>> ELSE IF None \notin {c, d} THEN <<c, d>> ELSE bare
    BY <1>7, FirstCommonPair
  <1>9. /\ SideInput(ref, cmp) = IF None \notin {a, b} THEN a
                                 ELSE IF None \notin {c, d} THEN c ELSE bare[1]
        /\ SideInput(cmp, ref) = IF None \notin {b, a} THEN b
                                 ELSE IF None \notin {d, c} THEN d ELSE bare[2]
    BY <1>1, <1>2, <1>4, <1>6 DEF SideInput
  <1> QED
    BY <1>8, <1>9

\* A side's interval is in order around its center, or missing.
LEMMA SideInputIsSound ==
  ASSUME NEW this, NEW other, WellFormed(this), SideInput(this, other).interval # None
  PROVE  /\ Sound(SideInput(this, other).interval)
         /\ SideInput(this, other).center = SideInput(this, other).interval.center
  <1> DEFINE summary == WithInterval(compute_robust_summary_estimate(this),
                                     compute_robust_summary_interval(this))
             mean == compute_mean_summary_timing_input(this)
  <1>1. this \in Timings
    BY DEF WellFormed
  <1>2. ASSUME summary # None
        PROVE  Sound(summary.interval) /\ summary.center = summary.interval.center
    <2>1. /\ compute_robust_summary_estimate(this) # None
          /\ compute_robust_summary_interval(this) # None
          /\ summary.center = compute_robust_summary_estimate(this).center
          /\ summary.interval = compute_robust_summary_interval(this)
      BY <1>2 DEF WithInterval, Input
    <2>2. compute_robust_summary_estimate(this).center = this.median
      BY <2>1 DEF compute_robust_summary_estimate
    <2> QED
      BY <1>1, <2>1, <2>2, SummaryIntervalsAreSound
  <1>3. ASSUME mean # None
        PROVE  Sound(mean.interval) /\ mean.center = mean.interval.center
    <2>1. /\ compute_mean_summary_estimate(this) # None
          /\ compute_mean_summary_interval(this) # None
          /\ mean.center = compute_mean_summary_estimate(this).center
          /\ mean.interval = compute_mean_summary_interval(this)
      BY <1>3 DEF compute_mean_summary_timing_input, WithInterval, Input
    <2>2. compute_mean_summary_estimate(this).center = this.mean
      BY <2>1 DEF compute_mean_summary_estimate
    <2> QED
      BY <1>1, <2>1, <2>2, SummaryIntervalsAreSound
  <1>4. ASSUME compute_robust_timing_input(this) # None
        PROVE  /\ Sound(compute_robust_timing_input(this).interval)
               /\ compute_robust_timing_input(this).center
                    = compute_robust_timing_input(this).interval.center
    <2>1. CASE summary # None
      <3>1. compute_robust_timing_input(this) = summary
        BY <2>1 DEF compute_robust_timing_input, OrElse, Present
      <3> QED
        BY <1>2, <2>1, <3>1
    <2>2. CASE summary = None
      <3>1. compute_robust_timing_input(this) = InputFromSamples(SampleTimes(this))
        BY <2>2 DEF compute_robust_timing_input, OrElse, Present
      <3>2. SampleTimes(this) # None
        BY <1>4, <3>1 DEF InputFromSamples
      <3>3. Measured(SampleTimes(this))
        BY <3>2, BulkIsMeasured
      <3> QED
        BY <3>1, <3>3, SamplesHaveAnInterval
    <2> QED
      BY <2>1, <2>2
  <1>5. Input(SideEstimate(this, other).center, SideEstimate(this, other).noise, None).interval
          = None
    BY DEF Input
  <1> HIDE DEF mean
  <1> QED
    BY <1>3, <1>4, <1>5 DEF SideInput, mean

-----------------------------------------------------------------------------
(* Neither side is favored. *)

Mirrored(d) == Decision(Mirror(d.status), d.reason)

Gaps == {"FAST", "SLOW"}

\* A decision is one, and not none.
LEMMA DecisionsAreMade ==
  ASSUME NEW status \in Statuses, NEW reason \in Reasons
  PROVE  /\ Decision(status, reason) # None
         /\ Decision(status, reason).status = status
         /\ Decision(status, reason).reason = reason
  <1>1. Decision(status, reason) \in Decisions
    BY DEF Decision, Decisions
  <1> QED
    BY <1>1, AbsenceAssumption DEF Decision

\* The gap between two intervals is that of the swapped intervals, mirrored.
LEMMA GapIsMirrored ==
  ASSUME NEW r, NEW c, NEW th, Sound(r), Sound(c)
  PROVE  LET gap == compare_intervals_for_clear_gap(r, c, th)
             swapped == compare_intervals_for_clear_gap(c, r, th)
         IN /\ gap \in Gaps \cup {None}
            /\ gap = None => swapped = None
            /\ gap # None => swapped = Mirror(gap)
  <1>1. /\ r.lower \in Int /\ r.center \in Int /\ r.upper \in Int
        /\ c.lower \in Int /\ c.center \in Int /\ c.upper \in Int
        /\ r.lower <= r.upper /\ c.lower <= c.upper
    BY DEF Sound, Intervals
  <1>2. None \notin Gaps
    BY AbsenceAssumption DEF Gaps, Statuses
  <1> DEFINE left == c.upper < r.lower /\ ApartBy(r.lower, c.upper, th.clear_gap_relative)
             right == c.lower > r.upper /\ ApartBy(c.lower, r.upper, th.clear_gap_relative)
  <1>3. compare_intervals_for_clear_gap(r, c, th)
          = IF left THEN "FAST" ELSE IF right THEN "SLOW" ELSE None
    BY DEF compare_intervals_for_clear_gap
  <1>4. compare_intervals_for_clear_gap(c, r, th)
          = IF right THEN "FAST" ELSE IF left THEN "SLOW" ELSE None
    BY <1>1 DEF compare_intervals_for_clear_gap
  <1>5. ~ (left /\ right)
    BY <1>1
  <1> HIDE DEF left, right
  <1> QED
    BY <1>2, <1>3, <1>4, <1>5 DEF Gaps, Mirror

LEMMA MirrorIsInjective ==
  /\ \A s \in Gaps : Mirror(s) \in Gaps /\ s \in Statuses /\ s # None
  /\ \A s, u \in Gaps : s = u <=> Mirror(s) = Mirror(u)
  BY AbsenceAssumption DEF Gaps, Mirror, Statuses

\* A gap in an interval is confirmed by swapped intervals where it is by these.
LEMMA ConfirmationIsMirrored ==
  ASSUME NEW r, NEW c, NEW th, Sound(r), Sound(c), NEW status \in Gaps
  PROVE  compare_intervals_for_clear_gap(r, c, th) = status
           <=> compare_intervals_for_clear_gap(c, r, th) = Mirror(status)
  <1>1. PICK gap, swapped : /\ gap = compare_intervals_for_clear_gap(r, c, th)
                            /\ swapped = compare_intervals_for_clear_gap(c, r, th)
    OBVIOUS
  <1>2. /\ gap \in Gaps \cup {None}
        /\ gap = None => swapped = None
        /\ gap # None => swapped = Mirror(gap)
    BY <1>1, GapIsMirrored
  <1>3. gap = status <=> swapped = Mirror(status)
    BY <1>2, MirrorIsInjective
  <1> QED
    BY <1>1, <1>3

\* Cycles are in the order of the times.
LEMMA ScaledIntervalIsSound ==
  ASSUME NEW interval, NEW rate \in Numbers, Sound(interval),
         scale_interval(interval, rate) # None
  PROVE  /\ Sound(scale_interval(interval, rate)) /\ is_positive_finite(rate)
         /\ scale_interval(interval, rate).center = interval.center * rate
  <1>1. /\ is_positive_finite(rate)
        /\ scale_interval(interval, rate)
             = make_timing_interval(interval.lower * rate, interval.center * rate,
                                    interval.upper * rate)
    BY DEF scale_interval
  <1>2. rate \in Int
    BY <1>1, PositiveIsNumber
  <1>3. /\ interval.lower * rate \in Numbers /\ interval.center * rate \in Numbers
        /\ interval.upper * rate \in Numbers
    BY <1>2 DEF Sound, Intervals, Numbers
  <1> QED
    BY <1>1, <1>3, MadeIntervalIsSound

\* confirm_clear_gap_with_clock_rate
LEMMA ClockConfirmationIsMirrored ==
  ASSUME NEW ref, NEW cmp, WellFormed(ref), WellFormed(cmp), NEW r, NEW c, Sound(r), Sound(c),
         NEW th, NEW status \in Gaps
  PROVE  confirm_clear_gap_with_clock_rate(Mirror(status), cmp, ref, c, r, th)
           = Mirrored(confirm_clear_gap_with_clock_rate(status, ref, cmp, r, c, th))
  <1>1. PICK x, y : x = scale_interval(r, ref.clock) /\ y = scale_interval(c, cmp.clock)
    OBVIOUS
  <1>2. /\ x # None => Sound(x)
        /\ y # None => Sound(y)
    BY <1>1, ScaledIntervalIsSound, TimingFields DEF WellFormed
  <1>3. (x # None /\ y # None) =>
          (compare_intervals_for_clear_gap(x, y, th) = status
             <=> compare_intervals_for_clear_gap(y, x, th) = Mirror(status))
    BY <1>2, ConfirmationIsMirrored
  <1>4. confirm_clear_gap_with_clock_rate(status, ref, cmp, r, c, th)
          = IF None \in {ref.clock, cmp.clock} THEN Ambiguous("missing_clock_rate")
            ELSE IF None \in {x, y} THEN Ambiguous("invalid_clock_rate")
            ELSE IF compare_intervals_for_clear_gap(x, y, th) = status
            THEN Decision(status, "clear_gap_confirmed_by_summary_cycles")
            ELSE Ambiguous("summary_cycle_gap_not_confirmed")
    BY <1>1 DEF confirm_clear_gap_with_clock_rate
  <1>5. confirm_clear_gap_with_clock_rate(Mirror(status), cmp, ref, c, r, th)
          = IF None \in {cmp.clock, ref.clock} THEN Ambiguous("missing_clock_rate")
            ELSE IF None \in {y, x} THEN Ambiguous("invalid_clock_rate")
            ELSE IF compare_intervals_for_clear_gap(y, x, th) = Mirror(status)
            THEN Decision(Mirror(status), "clear_gap_confirmed_by_summary_cycles")
            ELSE Ambiguous("summary_cycle_gap_not_confirmed")
    BY <1>1 DEF confirm_clear_gap_with_clock_rate
  <1>6. \A reason : /\ Mirrored(Ambiguous(reason)) = Ambiguous(reason)
                    /\ Mirrored(Decision(status, reason)) = Decision(Mirror(status), reason)
    BY DEF Mirrored, Mirror, Ambiguous, Decision
  <1> QED
    BY <1>3, <1>4, <1>5, <1>6

\* confirm_clear_gap_with_bulk_cycles
LEMMA BulkConfirmationIsMirrored ==
  ASSUME NEW ref, NEW cmp, WellFormed(ref), WellFormed(cmp), NEW th, NEW status \in Gaps
  PROVE  LET d == confirm_clear_gap_with_bulk_cycles(status, ref, cmp, th)
             swapped == confirm_clear_gap_with_bulk_cycles(Mirror(status), cmp, ref, th)
         IN /\ d = None => swapped = None
            /\ d # None => swapped # None /\ swapped = Mirrored(d)
  <1>1. PICK x, y : x = get_bulk_cycles(ref) /\ y = get_bulk_cycles(cmp)
    OBVIOUS
  <1>2. PICK p, q : p = InputFromSamples(x).interval /\ q = InputFromSamples(y).interval
    OBVIOUS
  <1>3. (x # None /\ y # None) => Sound(p) /\ Sound(q)
    BY <1>1, <1>2, BulkIsMeasured, SamplesHaveAnInterval
  <1>4. (x # None /\ y # None) =>
          (compare_intervals_for_clear_gap(p, q, th) = status
             <=> compare_intervals_for_clear_gap(q, p, th) = Mirror(status))
    BY <1>3, ConfirmationIsMirrored
  <1>5. PICK both : both = (has_material_bulk_cycle_sources(ref)
                              /\ has_material_bulk_cycle_sources(cmp))
    OBVIOUS
  <1>6. confirm_clear_gap_with_bulk_cycles(status, ref, cmp, th)
          = IF ~ both THEN None
            ELSE IF None \in {x, y} THEN Ambiguous("bulk_cycle_data_unusable")
            ELSE IF compare_intervals_for_clear_gap(p, q, th) = status
            THEN Decision(status, "clear_gap_confirmed_by_bulk_cycles")
            ELSE Ambiguous("bulk_cycle_gap_not_confirmed")
    BY <1>1, <1>2, <1>5 DEF confirm_clear_gap_with_bulk_cycles, BulkCyclesConfirm
  <1>7. confirm_clear_gap_with_bulk_cycles(Mirror(status), cmp, ref, th)
          = IF ~ both THEN None
            ELSE IF None \in {y, x} THEN Ambiguous("bulk_cycle_data_unusable")
            ELSE IF compare_intervals_for_clear_gap(q, p, th) = Mirror(status)
            THEN Decision(Mirror(status), "clear_gap_confirmed_by_bulk_cycles")
            ELSE Ambiguous("bulk_cycle_gap_not_confirmed")
    BY <1>1, <1>2, <1>5 DEF confirm_clear_gap_with_bulk_cycles, BulkCyclesConfirm
  <1>8. \A reason : /\ Mirrored(Ambiguous(reason)) = Ambiguous(reason)
                    /\ Mirrored(Decision(status, reason)) = Decision(Mirror(status), reason)
    BY DEF Mirrored, Mirror, Ambiguous, Decision
  <1>9. \A reason \in Reasons : \A s \in Gaps \cup {"AMBG"} : Decision(s, reason) # None
    BY DecisionsAreMade, MirrorIsInjective DEF Statuses
  <1>10. Mirror(status) \in Gaps
    BY MirrorIsInjective
  <1>11. /\ \A s \in Gaps : Decision(s, "clear_gap_confirmed_by_bulk_cycles") # None
         /\ Ambiguous("bulk_cycle_data_unusable") # None
         /\ Ambiguous("bulk_cycle_gap_not_confirmed") # None
    BY <1>9 DEF Reasons, Ambiguous
  <1>12. CASE both /\ None \notin {x, y}
    BY <1>4, <1>6, <1>7, <1>8, <1>10, <1>11, <1>12
  <1>13. CASE ~ both
    <2>1. /\ confirm_clear_gap_with_bulk_cycles(status, ref, cmp, th) = None
          /\ confirm_clear_gap_with_bulk_cycles(Mirror(status), cmp, ref, th) = None
      BY <1>6, <1>7, <1>13
    <2> QED
      BY <2>1
  <1>14. CASE both /\ None \in {x, y}
    <2>1. /\ confirm_clear_gap_with_bulk_cycles(status, ref, cmp, th)
               = Ambiguous("bulk_cycle_data_unusable")
          /\ confirm_clear_gap_with_bulk_cycles(Mirror(status), cmp, ref, th)
               = Ambiguous("bulk_cycle_data_unusable")
      BY <1>6, <1>7, <1>14
    <2> QED
      BY <1>8, <1>11, <2>1
  <1> QED
    BY <1>12, <1>13, <1>14

\* compare_timings_for_clear_gap
LEMMA GapDecisionIsMirrored ==
  ASSUME NEW ref, NEW cmp, WellFormed(ref), WellFormed(cmp), NEW th, NEW r, NEW c,
         r # None => Sound(r), c # None => Sound(c)
  PROVE  compare_timings_for_clear_gap(cmp, ref, c, r, th)
           = Mirrored(compare_timings_for_clear_gap(ref, cmp, r, c, th))
  <1>1. \A reason : Mirrored(Ambiguous(reason)) = Ambiguous(reason)
    BY DEF Mirrored, Mirror, Ambiguous, Decision
  <1>2. CASE None \in {r, c}
    BY <1>1, <1>2 DEF compare_timings_for_clear_gap
  <1>3. CASE None \notin {r, c}
    <2>1. PICK gap, swapped : /\ gap = compare_intervals_for_clear_gap(r, c, th)
                              /\ swapped = compare_intervals_for_clear_gap(c, r, th)
      OBVIOUS
    <2>2. /\ gap \in Gaps \cup {None}
          /\ gap = None => swapped = None
          /\ gap # None => swapped = Mirror(gap)
      BY <1>3, <2>1, GapIsMirrored
    <2>3. /\ compare_timings_for_clear_gap(ref, cmp, r, c, th)
               = ConfirmClearGap(gap, ref, cmp, r, c, th)
          /\ compare_timings_for_clear_gap(cmp, ref, c, r, th)
               = ConfirmClearGap(swapped, cmp, ref, c, r, th)
      BY <1>3, <2>1 DEF compare_timings_for_clear_gap
    <2>4. CASE gap = None
      BY <1>1, <2>2, <2>3, <2>4 DEF ConfirmClearGap
    <2>5. CASE gap # None
      <3>1. gap \in Gaps /\ swapped = Mirror(gap) /\ swapped # None
        BY <2>2, <2>5, MirrorIsInjective
      <3>2. PICK b, d : /\ b = confirm_clear_gap_with_bulk_cycles(gap, ref, cmp, th)
                        /\ d = confirm_clear_gap_with_bulk_cycles(swapped, cmp, ref, th)
        OBVIOUS
      <3>3. /\ b = None => d = None
            /\ b # None => d # None /\ d = Mirrored(b)
        BY <3>1, <3>2, BulkConfirmationIsMirrored
      <3>4. confirm_clear_gap_with_clock_rate(swapped, cmp, ref, c, r, th)
              = Mirrored(confirm_clear_gap_with_clock_rate(gap, ref, cmp, r, c, th))
        BY <1>3, <3>1, ClockConfirmationIsMirrored
      <3> QED
        BY <2>3, <2>5, <3>1, <3>2, <3>3, <3>4 DEF ConfirmClearGap, OrElse, Present
    <2> QED
      BY <2>4, <2>5
  <1> QED
    BY <1>2, <1>3

-----------------------------------------------------------------------------
(* "Same" is said of both sides alike. *)

LEMMA DistanceIsSymmetric ==
  ASSUME NEW a \in Int, NEW b \in Int
  PROVE  \A relative : Closer(a, b, relative) = Closer(b, a, relative)
  <1>1. Distance(a, b) = Distance(b, a)
    BY DEF Distance
  <1>2. {a, b} = {b, a}
    OBVIOUS
  <1> QED
    BY <1>1, <1>2 DEF Closer

\* compare_intervals_for_same
LEMMA OverlapIsSymmetric ==
  ASSUME NEW r, NEW c, NEW th, Sound(r), Sound(c)
  PROVE  compare_intervals_for_same(r, c, th) = compare_intervals_for_same(c, r, th)
  <1>1. \A relative : Closer(r.center, c.center, relative) = Closer(c.center, r.center, relative)
    BY DistanceIsSymmetric DEF Sound, Intervals
  <1>2. /\ {r.lower, c.lower} = {c.lower, r.lower}
        /\ {r.upper, c.upper} = {c.upper, r.upper}
        /\ {r.upper - r.lower, c.upper - c.lower} = {c.upper - c.lower, r.upper - r.lower}
    OBVIOUS
  <1>3. interval_overlap_fraction(r, c) = interval_overlap_fraction(c, r)
    BY <1>2 DEF interval_overlap_fraction
  <1> QED
    BY <1>1, <1>3 DEF compare_intervals_for_same

\* confirm_same_with_clock_rate
LEMMA SameClocksAreSymmetric ==
  ASSUME NEW ref, NEW cmp, WellFormed(ref), WellFormed(cmp), NEW r, NEW c, Sound(r), Sound(c),
         NEW th
  PROVE  confirm_same_with_clock_rate(ref, cmp, r, c, th)
           = confirm_same_with_clock_rate(cmp, ref, c, r, th)
  <1>1. PICK x, y : x = scale_interval(r, ref.clock) /\ y = scale_interval(c, cmp.clock)
    OBVIOUS
  <1>2. (x # None /\ y # None) =>
          compare_intervals_for_same(x, y, th) = compare_intervals_for_same(y, x, th)
    BY <1>1, ScaledIntervalIsSound, OverlapIsSymmetric, TimingFields DEF WellFormed
  <1>3. confirm_same_with_clock_rate(ref, cmp, r, c, th)
          = IF None \in {ref.clock, cmp.clock} THEN Decision("SAME", "same_without_clock_rate")
            ELSE IF None \in {x, y} THEN Ambiguous("invalid_clock_rate")
            ELSE IF compare_intervals_for_same(x, y, th).status = "SAME"
            THEN Decision("SAME", "same_confirmed_by_cycles")
            ELSE Ambiguous("cycle_same_not_confirmed")
    BY <1>1 DEF confirm_same_with_clock_rate
  <1>4. confirm_same_with_clock_rate(cmp, ref, c, r, th)
          = IF None \in {cmp.clock, ref.clock} THEN Decision("SAME", "same_without_clock_rate")
            ELSE IF None \in {y, x} THEN Ambiguous("invalid_clock_rate")
            ELSE IF compare_intervals_for_same(y, x, th).status = "SAME"
            THEN Decision("SAME", "same_confirmed_by_cycles")
            ELSE Ambiguous("cycle_same_not_confirmed")
    BY <1>1 DEF confirm_same_with_clock_rate
  <1> QED
    BY <1>2, <1>3, <1>4

\* compare_timings_for_bulk_same
LEMMA BulkSameIsSymmetric ==
  ASSUME NEW ref, NEW cmp, NEW th
  PROVE  compare_timings_for_bulk_same(ref, cmp, th) = compare_timings_for_bulk_same(cmp, ref, th)
  <1>1. \A a, b, label : compare_values_for_bulk_same(a, b, label, th)
                           = compare_values_for_bulk_same(b, a, label, th)
    BY DEF compare_values_for_bulk_same
  <1>2. PICK time, swapped :
          /\ time = compare_values_for_bulk_same(SampleTimes(ref), SampleTimes(cmp),
                                                 "bulk_time_support_mismatch", th)
          /\ swapped = compare_values_for_bulk_same(SampleTimes(cmp), SampleTimes(ref),
                                                    "bulk_time_support_mismatch", th)
    OBVIOUS
  <1>3. time = swapped
    BY <1>1, <1>2
  <1>4. BulkCyclesSame(time, ref, cmp, th) = BulkCyclesSame(time, cmp, ref, th)
    <2>1. PICK x, y : x = get_bulk_cycles(ref) /\ y = get_bulk_cycles(cmp)
      OBVIOUS
    <2>2. BulkCyclesSame(time, ref, cmp, th)
            = IF time.status # "SAME" THEN time
              ELSE IF None \in {ref.frequency_source, cmp.frequency_source}
              THEN Decision("SAME", "bulk_time_same_without_cycles")
              ELSE IF None \in {x, y} THEN Ambiguous("bulk_cycle_data_unusable")
              ELSE compare_values_for_bulk_same(x, y, "bulk_cycle_support_mismatch", th)
      BY <2>1 DEF BulkCyclesSame
    <2>3. BulkCyclesSame(time, cmp, ref, th)
            = IF time.status # "SAME" THEN time
              ELSE IF None \in {cmp.frequency_source, ref.frequency_source}
              THEN Decision("SAME", "bulk_time_same_without_cycles")
              ELSE IF None \in {y, x} THEN Ambiguous("bulk_cycle_data_unusable")
              ELSE compare_values_for_bulk_same(y, x, "bulk_cycle_support_mismatch", th)
      BY <2>1 DEF BulkCyclesSame
    <2> QED
      BY <1>1, <2>2, <2>3
  <1>5. PICK s, t : s = SampleTimes(ref) /\ t = SampleTimes(cmp)
    OBVIOUS
  <1>6. compare_timings_for_bulk_same(ref, cmp, th)
          = IF None \in {s, t}
            THEN IF None \in {ref.sample_source, cmp.sample_source}
                 THEN Ambiguous("bulk_data_unavailable") ELSE Ambiguous("bulk_time_data_unusable")
            ELSE BulkCyclesSame(time, ref, cmp, th)
    BY <1>2, <1>5 DEF compare_timings_for_bulk_same
  <1>7. compare_timings_for_bulk_same(cmp, ref, th)
          = IF None \in {t, s}
            THEN IF None \in {cmp.sample_source, ref.sample_source}
                 THEN Ambiguous("bulk_data_unavailable") ELSE Ambiguous("bulk_time_data_unusable")
            ELSE BulkCyclesSame(time, cmp, ref, th)
    BY <1>2, <1>3, <1>5 DEF compare_timings_for_bulk_same
  <1> QED
    BY <1>4, <1>6, <1>7

\* compare_timings_for_same, with the inputs of both sides
LEMMA SameIsSymmetric ==
  ASSUME NEW ref, NEW cmp, WellFormed(ref), WellFormed(cmp), NEW th, NEW i, NEW j,
         i[1].interval # None => Sound(i[1].interval),
         i[2].interval # None => Sound(i[2].interval),
         j[1] = i[2], j[2] = i[1]
  PROVE  compare_timings_for_same(ref, cmp, i, th) = compare_timings_for_same(cmp, ref, j, th)
  <1>1. PICK a, b : a = i[1] /\ b = i[2]
    OBVIOUS
  <1>2. PICK r, c : r = a.interval /\ c = b.interval
    OBVIOUS
  <1>3. PICK bulk : bulk = compare_timings_for_bulk_same(ref, cmp, th)
    OBVIOUS
  <1>4. PICK summary : summary = confirm_same_with_clock_rate(ref, cmp, r, c, th)
    OBVIOUS
  <1>5. compare_timings_for_same(ref, cmp, i, th)
          = IF ~ is_usable_noise(a.noise) \/ ~ is_usable_noise(b.noise)
            THEN Ambiguous("noise_unavailable")
            ELSE IF None \in {r, c} THEN Ambiguous("missing_interval")
            ELSE IF compare_intervals_for_same(r, c, th).status # "SAME"
            THEN compare_intervals_for_same(r, c, th)
            ELSE ConfirmSame(bulk, summary, {a.noise, b.noise}, th)
    BY <1>1, <1>2, <1>3, <1>4 DEF compare_timings_for_same
  <1>6. compare_timings_for_same(cmp, ref, j, th)
          = IF ~ is_usable_noise(b.noise) \/ ~ is_usable_noise(a.noise)
            THEN Ambiguous("noise_unavailable")
            ELSE IF None \in {c, r} THEN Ambiguous("missing_interval")
            ELSE IF compare_intervals_for_same(c, r, th).status # "SAME"
            THEN compare_intervals_for_same(c, r, th)
            ELSE ConfirmSame(compare_timings_for_bulk_same(cmp, ref, th),
                             confirm_same_with_clock_rate(cmp, ref, c, r, th),
                             {b.noise, a.noise}, th)
    BY <1>1, <1>2 DEF compare_timings_for_same
  <1>7. compare_timings_for_bulk_same(cmp, ref, th) = bulk
    BY <1>3, BulkSameIsSymmetric
  <1>8. {b.noise, a.noise} = {a.noise, b.noise}
    OBVIOUS
  <1>9. CASE None \in {r, c}
    BY <1>5, <1>6, <1>9
  <1>10. CASE None \notin {r, c}
    <2>1. Sound(r) /\ Sound(c)
      BY <1>1, <1>2, <1>10
    <2>2. /\ compare_intervals_for_same(r, c, th) = compare_intervals_for_same(c, r, th)
          /\ confirm_same_with_clock_rate(cmp, ref, c, r, th) = summary
      BY <1>4, <2>1, OverlapIsSymmetric, SameClocksAreSymmetric
    <2> QED
      BY <1>5, <1>6, <1>7, <1>8, <1>10, <2>2
  <1> QED
    BY <1>9, <1>10

\* A decision on "same" is one, or an ambiguous one.
SameOrAmbiguous(d) == \E s \in {"SAME", "AMBG"} : \E reason \in Reasons : d = Decision(s, reason)

LEMMA PartsAreSameOrAmbiguous ==
  ASSUME NEW ref, NEW cmp, NEW th
  PROVE  /\ \A reason \in Reasons : /\ SameOrAmbiguous(Ambiguous(reason))
                                    /\ SameOrAmbiguous(Decision("SAME", reason))
         /\ \A r, c : SameOrAmbiguous(compare_intervals_for_same(r, c, th))
         /\ \A r, c : SameOrAmbiguous(confirm_same_with_clock_rate(ref, cmp, r, c, th))
         /\ SameOrAmbiguous(compare_timings_for_bulk_same(ref, cmp, th))
  <1>1. \A reason \in Reasons : /\ SameOrAmbiguous(Ambiguous(reason))
                                /\ SameOrAmbiguous(Decision("SAME", reason))
    BY DEF SameOrAmbiguous, Ambiguous
  <1>2. \A r, c : SameOrAmbiguous(compare_intervals_for_same(r, c, th))
    BY <1>1 DEF compare_intervals_for_same, Reasons
  <1>3. \A r, c : SameOrAmbiguous(confirm_same_with_clock_rate(ref, cmp, r, c, th))
    BY <1>1 DEF confirm_same_with_clock_rate, Reasons
  <1>4. \A a, b : \A label \in Reasons :
          SameOrAmbiguous(compare_values_for_bulk_same(a, b, label, th))
    BY <1>1 DEF compare_values_for_bulk_same, Reasons
  <1>5. {"bulk_time_support_mismatch", "bulk_cycle_support_mismatch"} \subseteq Reasons
    BY DEF Reasons
  <1>6. \A time : SameOrAmbiguous(time) => SameOrAmbiguous(BulkCyclesSame(time, ref, cmp, th))
    BY <1>1, <1>4, <1>5 DEF BulkCyclesSame, Reasons
  <1>7. SameOrAmbiguous(compare_timings_for_bulk_same(ref, cmp, th))
    BY <1>1, <1>4, <1>5, <1>6 DEF compare_timings_for_bulk_same, Reasons
  <1> QED
    BY <1>1, <1>2, <1>3, <1>7

LEMMA SameDecidesNoGap ==
  ASSUME NEW ref, NEW cmp, NEW i, NEW th
  PROVE  SameOrAmbiguous(compare_timings_for_same(ref, cmp, i, th))
  <1>1. \A reason \in Reasons : /\ SameOrAmbiguous(Ambiguous(reason))
                                /\ SameOrAmbiguous(Decision("SAME", reason))
    BY PartsAreSameOrAmbiguous
  <1>2. \A bulk, summary, noises :
          SameOrAmbiguous(bulk) /\ SameOrAmbiguous(summary)
            => SameOrAmbiguous(ConfirmSame(bulk, summary, noises, th))
    BY <1>1 DEF ConfirmSame, BulkSame, SummarySame, OrElse, Present, Reasons
  <1> QED
    BY <1>1, <1>2, PartsAreSameOrAmbiguous DEF compare_timings_for_same, Reasons

-----------------------------------------------------------------------------
(* The verdict of swapped sides *)

\* SwappingSwapsTheVerdict, of any two timings and any thresholds
LEMMA ComparisonIsMirrored ==
  ASSUME NEW ref, NEW cmp, WellFormed(ref), WellFormed(cmp), NEW th
  PROVE  compare_gpu_timings(cmp, ref, th) = Mirrored(compare_gpu_timings(ref, cmp, th))
  <1>1. PICK i, j : /\ i = compute_timing_comparison_inputs(ref, cmp)
                    /\ j = compute_timing_comparison_inputs(cmp, ref)
    OBVIOUS
  <1>2. PICK a, b : a = SideInput(ref, cmp) /\ b = SideInput(cmp, ref)
    OBVIOUS
  <1>3. i[1] = a /\ i[2] = b /\ j[1] = b /\ j[2] = a
    BY <1>1, <1>2, InputsBySide
  <1>4. /\ a.interval # None => Sound(a.interval)
        /\ b.interval # None => Sound(b.interval)
    BY <1>2, SideInputIsSound
  <1>5. PICK same : same = compare_timings_for_same(ref, cmp, i, th)
    OBVIOUS
  <1>6. same = compare_timings_for_same(cmp, ref, j, th)
    BY <1>3, <1>4, <1>5, SameIsSymmetric
  <1>7. Mirrored(same) = same
    BY <1>5, SameDecidesNoGap DEF SameOrAmbiguous, Mirrored, Mirror, Decision
  <1>8. PICK gap, swapped :
          /\ gap = compare_timings_for_clear_gap(ref, cmp, a.interval, b.interval, th)
          /\ swapped = compare_timings_for_clear_gap(cmp, ref, b.interval, a.interval, th)
    OBVIOUS
  <1>9. swapped = Mirrored(gap)
    BY <1>4, <1>8, GapDecisionIsMirrored
  <1>10. swapped.reason = gap.reason
    BY <1>9 DEF Mirrored, Decision
  <1>11. PICK u, v : /\ u = unusable_timing_center_decision(a.center, b.center)
                     /\ v = unusable_timing_center_decision(b.center, a.center)
    OBVIOUS
  <1>12. u = v /\ (u # None => Mirrored(u) = u)
    BY <1>11 DEF unusable_timing_center_decision, Mirrored, Mirror, Decision
  <1>13. compare_gpu_timings(ref, cmp, th)
           = IF u # None THEN u
             ELSE IF gap.reason \in {"no_clear_gap", "missing_interval"} THEN same ELSE gap
    BY <1>1, <1>3, <1>5, <1>8, <1>11
    DEF compare_gpu_timings, CompareInputs, GapOrSame, OrElse, Present
  <1>14. compare_gpu_timings(cmp, ref, th)
           = IF v # None THEN v
             ELSE IF swapped.reason \in {"no_clear_gap", "missing_interval"} THEN same
             ELSE swapped
    BY <1>1, <1>3, <1>6, <1>8, <1>11
    DEF compare_gpu_timings, CompareInputs, GapOrSame, OrElse, Present
  <1> QED
    BY <1>7, <1>9, <1>10, <1>12, <1>13, <1>14

\* Comparing the same two runs the other way round gives the opposite verdict
\* for the same reason: no path of compare_gpu_timings favors the reference.
THEOREM SwappingAlwaysSwapsTheVerdict ==
  VerdictSpec => []SwappingSwapsTheVerdict
  <1>1. DecidedByTheFunctions => SwappingSwapsTheVerdict
    <2> SUFFICES ASSUME DecidedByTheFunctions, stage = "done"
                 PROVE  compare_gpu_timings(args.cmp, args.ref, resolved.thresholds)
                          = Decision(Mirror(decision.status), decision.reason)
      BY DEF SwappingSwapsTheVerdict
    <2>1. PICK ref, cmp, th : ref = args.ref /\ cmp = args.cmp /\ th = resolved.thresholds
      OBVIOUS
    <2>2. WellFormed(ref) /\ WellFormed(cmp) /\ decision = compare_gpu_timings(ref, cmp, th)
      BY <2>1, ComparisonsAreGiven DEF DecidedByTheFunctions
    <2>3. compare_gpu_timings(cmp, ref, th) = Mirrored(decision)
      BY <2>2, ComparisonIsMirrored
    <2> QED
      BY <2>1, <2>3 DEF Mirrored
  <1> QED
    BY <1>1, AlwaysDecidedByTheFunctions, PTL

-----------------------------------------------------------------------------
(* The verdict of the cycles *)

\* A gap orders the centers.
LEMMA GapOrdersTheCenters ==
  ASSUME NEW r, NEW c, NEW th, Sound(r), Sound(c), NEW status \in Gaps,
         compare_intervals_for_clear_gap(r, c, th) = status
  PROVE  VerdictOfCycles(status, <<r.center, c.center>>)
  <1>1. /\ r.lower \in Int /\ r.center \in Int /\ r.upper \in Int
        /\ c.lower \in Int /\ c.center \in Int /\ c.upper \in Int
        /\ r.lower <= r.center /\ r.center <= r.upper
        /\ c.lower <= c.center /\ c.center <= c.upper
    BY DEF Sound, Intervals
  <1>2. None \notin Gaps
    BY MirrorIsInjective
  <1>3. /\ status = "FAST" => c.upper < r.lower
        /\ status = "SLOW" => c.lower > r.upper
    BY <1>2 DEF compare_intervals_for_clear_gap, Gaps
  <1> QED
    BY <1>1, <1>3 DEF VerdictOfCycles

\* A clear gap is that of the intervals, confirmed by the cycles that were
\* measured, or at the clock rates where none were.
LEMMA DecidedGap ==
  ASSUME NEW ref, NEW cmp, WellFormed(ref), WellFormed(cmp), NEW th,
         compare_gpu_timings(ref, cmp, th).status \in Gaps
  PROVE  LET status == compare_gpu_timings(ref, cmp, th).status
             r == SideInput(ref, cmp).interval
             c == SideInput(cmp, ref).interval
             x == get_bulk_cycles(ref)
             y == get_bulk_cycles(cmp)
         IN /\ r # None /\ c # None
            /\ compare_intervals_for_clear_gap(r, c, th) = status
            /\ (x # None /\ y # None) =>
                 compare_intervals_for_clear_gap(InputFromSamples(x).interval,
                                                 InputFromSamples(y).interval, th) = status
            /\ (x = None \/ y = None) =>
                 /\ ~ (has_material_bulk_cycle_sources(ref) /\ has_material_bulk_cycle_sources(cmp))
                 /\ scale_interval(r, ref.clock) # None /\ scale_interval(c, cmp.clock) # None
                 /\ compare_intervals_for_clear_gap(scale_interval(r, ref.clock),
                                                    scale_interval(c, cmp.clock), th) = status
  <1>1. PICK i : i = compute_timing_comparison_inputs(ref, cmp)
    OBVIOUS
  <1>2. PICK a, b : a = SideInput(ref, cmp) /\ b = SideInput(cmp, ref)
    OBVIOUS
  <1>3. i[1] = a /\ i[2] = b
    BY <1>1, <1>2, InputsBySide
  <1>4. PICK d, status : d = compare_gpu_timings(ref, cmp, th) /\ status = d.status
    OBVIOUS
  <1>5. PICK r, c : r = a.interval /\ c = b.interval
    OBVIOUS
  <1>6. PICK same, u, gap : /\ same = compare_timings_for_same(ref, cmp, i, th)
                            /\ u = unusable_timing_center_decision(a.center, b.center)
                            /\ gap = compare_timings_for_clear_gap(ref, cmp, r, c, th)
    OBVIOUS
  <1>7. d = IF u # None THEN u
            ELSE IF gap.reason \in {"no_clear_gap", "missing_interval"} THEN same ELSE gap
    BY <1>1, <1>3, <1>4, <1>5, <1>6
    DEF compare_gpu_timings, CompareInputs, GapOrSame, OrElse, Present
  <1>8. u # None => u.status \notin Gaps
    BY <1>6 DEF unusable_timing_center_decision, Decision, Gaps
  <1>9. same.status \notin Gaps
    <2>1. SameOrAmbiguous(same)
      BY <1>6, SameDecidesNoGap
    <2> QED
      BY <2>1 DEF SameOrAmbiguous, Decision, Gaps
  <1>10. d = gap /\ status \in Gaps /\ gap.status = status
    BY <1>4, <1>7, <1>8, <1>9
  <1>11. \A reason : Ambiguous(reason).status \notin Gaps
    BY DEF Ambiguous, Decision, Gaps
  <1>12. PICK g : g = compare_intervals_for_clear_gap(r, c, th)
    OBVIOUS
  <1>13. /\ r # None /\ c # None /\ g # None
         /\ gap = OrElse(confirm_clear_gap_with_bulk_cycles(g, ref, cmp, th),
                         confirm_clear_gap_with_clock_rate(g, ref, cmp, r, c, th))
    BY <1>6, <1>10, <1>11, <1>12 DEF compare_timings_for_clear_gap, ConfirmClearGap
  <1>14. PICK x, y : x = get_bulk_cycles(ref) /\ y = get_bulk_cycles(cmp)
    OBVIOUS
  <1>15. PICK p, q : p = scale_interval(r, ref.clock) /\ q = scale_interval(c, cmp.clock)
    OBVIOUS
  <1>16. PICK bulk : bulk = confirm_clear_gap_with_bulk_cycles(g, ref, cmp, th)
    OBVIOUS
  <1>17. \A reason : Decision(g, reason).status = g
    BY DEF Decision
  <1>18. CASE bulk # None
    <2>1. gap = bulk
      BY <1>13, <1>16, <1>18 DEF OrElse, Present
    <2>2. bulk = BulkCyclesConfirm(g, x, y, th)
      BY <1>14, <1>16, <1>18 DEF confirm_clear_gap_with_bulk_cycles
    <2>3. /\ x # None /\ y # None
          /\ compare_intervals_for_clear_gap(InputFromSamples(x).interval,
                                             InputFromSamples(y).interval, th) = g
          /\ bulk = Decision(g, "clear_gap_confirmed_by_bulk_cycles")
      BY <1>10, <1>11, <2>1, <2>2 DEF BulkCyclesConfirm
    <2>4. g = status
      BY <1>10, <1>17, <2>1, <2>3
    <2> QED
      BY <1>2, <1>4, <1>5, <1>12, <1>13, <1>14, <2>3, <2>4
  <1>19. CASE bulk = None
    <2>1. gap = confirm_clear_gap_with_clock_rate(g, ref, cmp, r, c, th)
      BY <1>13, <1>16, <1>19 DEF OrElse, Present
    <2>2. /\ p # None /\ q # None
          /\ compare_intervals_for_clear_gap(p, q, th) = g
          /\ gap = Decision(g, "clear_gap_confirmed_by_summary_cycles")
      BY <1>10, <1>11, <1>15, <2>1 DEF confirm_clear_gap_with_clock_rate
    <2>3. g = status
      BY <1>10, <1>17, <2>2
    <2>4. ASSUME has_material_bulk_cycle_sources(ref), has_material_bulk_cycle_sources(cmp)
          PROVE  FALSE
      <3>1. bulk = BulkCyclesConfirm(g, x, y, th)
        BY <1>14, <1>16, <2>4 DEF confirm_clear_gap_with_bulk_cycles
      <3>2. bulk \in {Decision(g, "clear_gap_confirmed_by_bulk_cycles"),
                      Ambiguous("bulk_cycle_data_unusable"),
                      Ambiguous("bulk_cycle_gap_not_confirmed")}
        BY <3>1 DEF BulkCyclesConfirm
      <3>3. g \in Statuses
        BY <1>10, <2>3 DEF Gaps, Statuses
      <3>4. /\ Decision(g, "clear_gap_confirmed_by_bulk_cycles") # None
            /\ Ambiguous("bulk_cycle_data_unusable") # None
            /\ Ambiguous("bulk_cycle_gap_not_confirmed") # None
        BY <3>3, DecisionsAreMade DEF Ambiguous, Statuses, Reasons
      <3> QED
        BY <1>19, <3>2, <3>4
    <2>5. ~ (x # None /\ y # None)
      BY <1>14, <2>4, BulkIsMeasured
    <2> QED
      BY <1>2, <1>4, <1>5, <1>12, <1>13, <1>14, <1>15, <2>2, <2>3, <2>4, <2>5
  <1> QED
    BY <1>18, <1>19

\* FasterInCyclesToo, of any two timings and any thresholds
LEMMA CyclesAgree ==
  ASSUME NEW ref, NEW cmp, WellFormed(ref), WellFormed(cmp), NEW th,
         compare_gpu_timings(ref, cmp, th).status \in Gaps
  PROVE  LET status == compare_gpu_timings(ref, cmp, th).status
             a == SideInput(ref, cmp)
             b == SideInput(cmp, ref)
             x == get_bulk_cycles(ref)
             y == get_bulk_cycles(cmp)
         IN /\ (x # None /\ y # None) =>
                 /\ InputFromSamples(x).center # None /\ InputFromSamples(y).center # None
                 /\ VerdictOfCycles(status, <<InputFromSamples(x).center,
                                              InputFromSamples(y).center>>)
            /\ (x = None \/ y = None) =>
                 VerdictOfCycles(status, <<a.center * ref.clock, b.center * cmp.clock>>)
  <1>1. PICK status : status = compare_gpu_timings(ref, cmp, th).status
    OBVIOUS
  <1>2. PICK a, b : a = SideInput(ref, cmp) /\ b = SideInput(cmp, ref)
    OBVIOUS
  <1>3. PICK x, y : x = get_bulk_cycles(ref) /\ y = get_bulk_cycles(cmp)
    OBVIOUS
  <1>4. PICK m, n : m = InputFromSamples(x) /\ n = InputFromSamples(y)
    OBVIOUS
  <1>5. PICK p, q : p = scale_interval(a.interval, ref.clock)
                    /\ q = scale_interval(b.interval, cmp.clock)
    OBVIOUS
  <1>6. /\ status \in Gaps /\ a.interval # None /\ b.interval # None
        /\ (x # None /\ y # None) =>
             compare_intervals_for_clear_gap(m.interval, n.interval, th) = status
        /\ (x = None \/ y = None) =>
             p # None /\ q # None /\ compare_intervals_for_clear_gap(p, q, th) = status
    BY <1>1, <1>2, <1>3, <1>4, <1>5, DecidedGap
  <1>7. CASE x # None /\ y # None
    <2>1. Measured(x) /\ Measured(y)
      BY <1>3, <1>7, BulkIsMeasured
    <2>2. /\ Sound(m.interval) /\ m.center = m.interval.center /\ m.center \in Int
          /\ Sound(n.interval) /\ n.center = n.interval.center /\ n.center \in Int
      BY <1>4, <2>1, SamplesHaveAnInterval
    <2>3. m.center # None /\ n.center # None
      BY <2>2, AbsenceAssumption
    <2>4. VerdictOfCycles(status, <<m.center, n.center>>)
      BY <1>6, <1>7, <2>2, GapOrdersTheCenters
    <2> QED
      BY <1>1, <1>3, <1>4, <1>7, <2>3, <2>4
  <1>8. CASE x = None \/ y = None
    <2>1. /\ Sound(a.interval) /\ a.center = a.interval.center
          /\ Sound(b.interval) /\ b.center = b.interval.center
      BY <1>2, <1>6, SideInputIsSound
    <2>2. /\ Sound(p) /\ p.center = a.center * ref.clock
          /\ Sound(q) /\ q.center = b.center * cmp.clock
      BY <1>5, <1>6, <1>8, <2>1, ScaledIntervalIsSound, TimingFields DEF WellFormed
    <2>3. VerdictOfCycles(status, <<p.center, q.center>>)
      BY <1>6, <1>8, <2>2, GapOrdersTheCenters
    <2> QED
      BY <1>1, <1>2, <1>3, <1>8, <2>2, <2>3
  <1> QED
    BY <1>7, <1>8

\* A GPU that merely ran at another clock rate is neither faster nor slower:
\* a clear gap that compare_gpu_timings reports is one of the cycles too.
THEOREM AlwaysFasterInCyclesToo ==
  VerdictSpec => []FasterInCyclesToo
  <1>1. DecidedByTheFunctions => FasterInCyclesToo
    <2> SUFFICES ASSUME DecidedByTheFunctions, stage = "done", decision.status \in Gaps
                 PROVE  VerdictOfCycles(decision.status, CycleCenters)
      BY DEF FasterInCyclesToo, VerdictOfCycles, Gaps
    <2>1. PICK ref, cmp, th : ref = args.ref /\ cmp = args.cmp /\ th = resolved.thresholds
      OBVIOUS
    <2>2. WellFormed(ref) /\ WellFormed(cmp) /\ decision = compare_gpu_timings(ref, cmp, th)
      BY <2>1, ComparisonsAreGiven DEF DecidedByTheFunctions
    <2>3. PICK x, y : x = get_bulk_cycles(ref) /\ y = get_bulk_cycles(cmp)
      OBVIOUS
    <2>4. PICK i, a, b : /\ i = compute_timing_comparison_inputs(ref, cmp)
                         /\ a = SideInput(ref, cmp) /\ b = SideInput(cmp, ref)
      OBVIOUS
    <2>5. i[1] = a /\ i[2] = b
      BY <2>4, InputsBySide
    <2>6. PICK m, n : /\ m = InputFromSamples(x).center
                      /\ n = InputFromSamples(y).center
      OBVIOUS
    <2>7. PICK bulk : bulk = [s \in 1..2 |-> LET c == get_bulk_cycles(<<ref, cmp>>[s]) IN
                                IF Present(c) THEN InputFromSamples(c).center ELSE None]
      OBVIOUS
    <2>8. /\ DOMAIN bulk = {1, 2}
          /\ bulk[1] = (IF x # None THEN m ELSE None)
          /\ bulk[2] = (IF y # None THEN n ELSE None)
      BY <2>3, <2>6, <2>7 DEF Present
    <2>9. Range(bulk) = {bulk[1], bulk[2]}
      BY <2>8 DEF Range
    <2>10. CycleCenters = IF None \notin Range(bulk) THEN bulk
                          ELSE <<a.center * ref.clock, b.center * cmp.clock>>
      BY <2>1, <2>4, <2>5, <2>7 DEF CycleCenters, FirstCommon
    <2>11. CASE x # None /\ y # None
      <3>1. m # None /\ n # None /\ VerdictOfCycles(decision.status, <<m, n>>)
        BY <2>2, <2>3, <2>6, <2>11, CyclesAgree
      <3>2. CycleCenters[1] = m /\ CycleCenters[2] = n
        BY <2>8, <2>9, <2>10, <2>11, <3>1
      <3> QED
        BY <3>1, <3>2 DEF VerdictOfCycles
    <2>12. CASE x = None \/ y = None
      <3>1. VerdictOfCycles(decision.status, <<a.center * ref.clock, b.center * cmp.clock>>)
        BY <2>2, <2>3, <2>4, <2>12, CyclesAgree
      <3>2. CycleCenters = <<a.center * ref.clock, b.center * cmp.clock>>
        BY <2>8, <2>9, <2>10, <2>12
      <3> QED
        BY <3>1, <3>2
    <2> QED
      BY <2>11, <2>12
  <1> QED
    BY <1>1, AlwaysDecidedByTheFunctions, PTL

-----------------------------------------------------------------------------
(* Bulk data and the summaries *)

\* The verdict is "same" only without a clear gap, and on intervals that look
\* the same.
LEMMA DecidedSame ==
  ASSUME NEW ref, NEW cmp, NEW th, compare_gpu_timings(ref, cmp, th).status = "SAME"
  PROVE  LET i == compute_timing_comparison_inputs(ref, cmp)
             a == SideInput(ref, cmp)
             b == SideInput(cmp, ref)
         IN /\ compare_gpu_timings(ref, cmp, th) = compare_timings_for_same(ref, cmp, i, th)
            /\ unusable_timing_center_decision(a.center, b.center) = None
            /\ a.interval # None /\ b.interval # None
            /\ compare_intervals_for_clear_gap(a.interval, b.interval, th) = None
            /\ is_usable_noise(a.noise) /\ is_usable_noise(b.noise)
            /\ compare_intervals_for_same(a.interval, b.interval, th).status = "SAME"
            /\ compare_gpu_timings(ref, cmp, th)
                 = ConfirmSame(compare_timings_for_bulk_same(ref, cmp, th),
                               confirm_same_with_clock_rate(ref, cmp, a.interval, b.interval, th),
                               {a.noise, b.noise}, th)
  <1>1. PICK i : i = compute_timing_comparison_inputs(ref, cmp)
    OBVIOUS
  <1>2. PICK a, b : a = SideInput(ref, cmp) /\ b = SideInput(cmp, ref)
    OBVIOUS
  <1>3. i[1] = a /\ i[2] = b
    BY <1>1, <1>2, InputsBySide
  <1>4. PICK d : d = compare_gpu_timings(ref, cmp, th)
    OBVIOUS
  <1>5. PICK r, c : r = a.interval /\ c = b.interval
    OBVIOUS
  <1>6. PICK same, u, gap : /\ same = compare_timings_for_same(ref, cmp, i, th)
                            /\ u = unusable_timing_center_decision(a.center, b.center)
                            /\ gap = compare_timings_for_clear_gap(ref, cmp, r, c, th)
    OBVIOUS
  <1>7. d = IF u # None THEN u
            ELSE IF gap.reason \in {"no_clear_gap", "missing_interval"} THEN same ELSE gap
    BY <1>1, <1>3, <1>4, <1>5, <1>6
    DEF compare_gpu_timings, CompareInputs, GapOrSame, OrElse, Present
  <1>8. u # None => u.status # "SAME"
    BY <1>6 DEF unusable_timing_center_decision, Decision
  <1>9. PICK g : g = compare_intervals_for_clear_gap(r, c, th)
    OBVIOUS
  <1>10. g \in Gaps \cup {None}
    BY <1>9 DEF compare_intervals_for_clear_gap, Gaps
  <1>11. ASSUME None \notin {r, c}, g # None
         PROVE  gap.status # "SAME" /\ gap.reason \notin {"no_clear_gap", "missing_interval"}
    <2>1. g # "SAME"
      BY <1>10, <1>11 DEF Gaps
    <2>2. gap = OrElse(confirm_clear_gap_with_bulk_cycles(g, ref, cmp, th),
                       confirm_clear_gap_with_clock_rate(g, ref, cmp, r, c, th))
      BY <1>6, <1>9, <1>11 DEF compare_timings_for_clear_gap, ConfirmClearGap
    <2>3. \A reason : /\ Ambiguous(reason).status # "SAME" /\ Ambiguous(reason).reason = reason
                      /\ Decision(g, reason).status # "SAME" /\ Decision(g, reason).reason = reason
      BY <2>1 DEF Ambiguous, Decision
    <2>4. confirm_clear_gap_with_bulk_cycles(g, ref, cmp, th)
            \in {None, Ambiguous("bulk_cycle_data_unusable"),
                 Ambiguous("bulk_cycle_gap_not_confirmed"),
                 Decision(g, "clear_gap_confirmed_by_bulk_cycles")}
      BY DEF confirm_clear_gap_with_bulk_cycles, BulkCyclesConfirm
    <2>5. confirm_clear_gap_with_clock_rate(g, ref, cmp, r, c, th)
            \in {Ambiguous("missing_clock_rate"), Ambiguous("invalid_clock_rate"),
                 Ambiguous("summary_cycle_gap_not_confirmed"),
                 Decision(g, "clear_gap_confirmed_by_summary_cycles")}
      BY DEF confirm_clear_gap_with_clock_rate
    <2>6. gap \in {Ambiguous("bulk_cycle_data_unusable"),
                   Ambiguous("bulk_cycle_gap_not_confirmed"),
                   Decision(g, "clear_gap_confirmed_by_bulk_cycles"),
                   Ambiguous("missing_clock_rate"), Ambiguous("invalid_clock_rate"),
                   Ambiguous("summary_cycle_gap_not_confirmed"),
                   Decision(g, "clear_gap_confirmed_by_summary_cycles")}
      BY <2>2, <2>4, <2>5 DEF OrElse, Present
    <2> QED
      BY <2>3, <2>6
  <1>12. gap.status # "SAME"
    <2>1. CASE None \in {r, c} \/ g = None
      BY <1>6, <1>9, <2>1 DEF compare_timings_for_clear_gap, ConfirmClearGap, Ambiguous, Decision
    <2>2. CASE ~ (None \in {r, c} \/ g = None)
      BY <1>11, <2>2
    <2> QED
      BY <2>1, <2>2
  <1>13. u = None /\ gap.reason \in {"no_clear_gap", "missing_interval"} /\ d = same
    BY <1>4, <1>7, <1>8, <1>12
  <1>14. same = IF ~ is_usable_noise(a.noise) \/ ~ is_usable_noise(b.noise)
                THEN Ambiguous("noise_unavailable")
                ELSE IF None \in {r, c} THEN Ambiguous("missing_interval")
                ELSE IF compare_intervals_for_same(r, c, th).status # "SAME"
                THEN compare_intervals_for_same(r, c, th)
                ELSE ConfirmSame(compare_timings_for_bulk_same(ref, cmp, th),
                                 confirm_same_with_clock_rate(ref, cmp, r, c, th),
                                 {a.noise, b.noise}, th)
    BY <1>3, <1>5, <1>6 DEF compare_timings_for_same
  <1>15. \A reason : Ambiguous(reason).status # "SAME"
    BY DEF Ambiguous, Decision
  <1>16. /\ is_usable_noise(a.noise) /\ is_usable_noise(b.noise) /\ None \notin {r, c}
         /\ compare_intervals_for_same(r, c, th).status = "SAME"
         /\ same = ConfirmSame(compare_timings_for_bulk_same(ref, cmp, th),
                               confirm_same_with_clock_rate(ref, cmp, r, c, th),
                               {a.noise, b.noise}, th)
    BY <1>4, <1>13, <1>14, <1>15
  <1>17. g = None
    BY <1>11, <1>13, <1>16
  <1> QED
    BY <1>1, <1>2, <1>4, <1>5, <1>6, <1>9, <1>13, <1>16, <1>17

\* A timing without its bulk data is one with the same summaries.
LEMMA SummariesWithoutBulk ==
  ASSUME NEW t, WellFormed(t)
  PROVE  /\ WellFormed(WithoutBulk(t))
         /\ compute_robust_summary_estimate(WithoutBulk(t)) = compute_robust_summary_estimate(t)
         /\ compute_robust_summary_interval(WithoutBulk(t)) = compute_robust_summary_interval(t)
  <1>1. PICK w : w = WithoutBulk(t)
    OBVIOUS
  <1>2. /\ w \in Timings /\ w.sample_source = None
        /\ w.minimum = t.minimum /\ w.first_quartile = t.first_quartile
        /\ w.median = t.median /\ w.third_quartile = t.third_quartile
        /\ w.iqr = t.iqr /\ w.iqr_relative = t.iqr_relative
    BY <1>1 DEF WithoutBulk, WellFormed, Timings, Sources
  <1>3. SampleTimes(w) = None
    BY <1>2 DEF SampleTimes, SourceValues, positive_finite_array
  <1>4. WellFormed(w)
    BY <1>2, <1>3 DEF WellFormed
  <1>5. /\ compute_robust_summary_estimate(w) = compute_robust_summary_estimate(t)
        /\ compute_robust_summary_interval(w) = compute_robust_summary_interval(t)
    BY <1>2 DEF compute_robust_summary_estimate, compute_robust_summary_interval
  <1> QED
    BY <1>1, <1>4, <1>5

\* Where both sides have robust summaries, the inputs do not depend on bulk data.
LEMMA InputsWithoutBulk ==
  ASSUME NEW this, NEW other, WellFormed(this), WellFormed(other),
         HasRobustSummary(this), HasRobustSummary(other)
  PROVE  SideInput(WithoutBulk(this), WithoutBulk(other)) = SideInput(this, other)
  <1>1. ASSUME NEW t, HasRobustSummary(t)
        PROVE  /\ compute_robust_timing_input(t)
                    = WithInterval(compute_robust_summary_estimate(t),
                                   compute_robust_summary_interval(t))
               /\ compute_robust_timing_input(t) # None
    BY <1>1 DEF HasRobustSummary, compute_robust_timing_input, OrElse, Present
  <1>2. ASSUME NEW t, WellFormed(t), HasRobustSummary(t)
        PROVE  /\ compute_robust_timing_input(WithoutBulk(t)) = compute_robust_timing_input(t)
               /\ compute_robust_timing_input(t) # None
    <2>1. HasRobustSummary(WithoutBulk(t))
      BY <1>2, SummariesWithoutBulk DEF HasRobustSummary
    <2> QED
      BY <1>1, <1>2, <2>1, SummariesWithoutBulk
  <1>3. /\ compute_robust_timing_input(WithoutBulk(this)) = compute_robust_timing_input(this)
        /\ compute_robust_timing_input(WithoutBulk(other)) = compute_robust_timing_input(other)
        /\ compute_robust_timing_input(this) # None /\ compute_robust_timing_input(other) # None
    BY <1>2
  <1> QED
    BY <1>3 DEF SideInput

\* Bulk data settle what the summaries leave open or make it ambiguous again,
\* but compare_gpu_timings never turns one verdict into another because of them.
THEOREM BulkNeverEverContradicts ==
  VerdictSpec => []BulkNeverContradicts
  <1>1. DecidedByTheFunctions => BulkNeverContradicts
    <2> DEFINE verdict == compare_gpu_timings(WithoutBulk(args.ref), WithoutBulk(args.cmp),
                                              resolved.thresholds)
    <2> SUFFICES ASSUME DecidedByTheFunctions, stage = "done", HasRobustSummary(args.ref),
                        HasRobustSummary(args.cmp), Decided(verdict), Decided(decision)
                 PROVE  verdict.status = decision.status
      BY DEF BulkNeverContradicts
    <2>1. PICK ref, cmp, th : ref = args.ref /\ cmp = args.cmp /\ th = resolved.thresholds
      OBVIOUS
    <2>2. PICK v, w : v = WithoutBulk(ref) /\ w = WithoutBulk(cmp)
      OBVIOUS
    <2>3. PICK s, d : s = compare_gpu_timings(v, w, th) /\ d = compare_gpu_timings(ref, cmp, th)
      OBVIOUS
    <2>4. /\ WellFormed(ref) /\ WellFormed(cmp) /\ s = verdict /\ d = decision
      BY <2>1, <2>2, <2>3, ComparisonsAreGiven DEF DecidedByTheFunctions
    <2>5. WellFormed(v) /\ WellFormed(w)
      BY <2>2, <2>4, SummariesWithoutBulk
    <2>6. PICK r, c : r = SideInput(ref, cmp).interval /\ c = SideInput(cmp, ref).interval
      OBVIOUS
    <2>7. r = SideInput(v, w).interval /\ c = SideInput(w, v).interval
      BY <2>1, <2>2, <2>4, <2>6, InputsWithoutBulk
    <2>8. s.status \in Gaps \cup {"SAME"} /\ d.status \in Gaps \cup {"SAME"}
      BY <2>4 DEF Decided, Gaps
    <2>9. PICK g : g = compare_intervals_for_clear_gap(r, c, th)
      OBVIOUS
    <2>10. s.status \in Gaps => s.status = g
      BY <2>3, <2>5, <2>7, <2>9, DecidedGap
    <2>11. ASSUME d.status \in Gaps
           PROVE  d.status = g
      <3>1. compare_gpu_timings(ref, cmp, th).status \in Gaps
        BY <2>3, <2>11
      <3>2. compare_intervals_for_clear_gap(r, c, th) = compare_gpu_timings(ref, cmp, th).status
        BY <2>4, <2>6, <3>1, DecidedGap
      <3> QED
        BY <2>3, <2>9, <3>2
    <2>12. s.status = "SAME" => g = None
      BY <2>3, <2>7, <2>9, DecidedSame
    <2>13. d.status = "SAME" => g = None
      BY <2>3, <2>6, <2>9, DecidedSame
    <2>14. None \notin Gaps
      BY MirrorIsInjective
    <2> HIDE DEF verdict
    <2> QED
      BY <2>4, <2>8, <2>10, <2>11, <2>12, <2>13, <2>14
  <1> QED
    BY <1>1, AlwaysDecidedByTheFunctions, PTL

-----------------------------------------------------------------------------
(* Stricter thresholds *)

\* s asks for more evidence than l in every threshold, and treats rare values alike.
Stricter(s, l) ==
  /\ s \in [Fields -> Int] /\ l \in [Fields -> Int]
  /\ s.clear_gap_relative >= l.clear_gap_relative
  /\ s.same_center_relative <= l.same_center_relative
  /\ s.same_overlap_fraction >= l.same_overlap_fraction /\ s.same_overlap_fraction > 0
  /\ s.same_relative_dispersion_ceiling <= l.same_relative_dispersion_ceiling
  /\ s.bulk_same_sample_coverage >= l.bulk_same_sample_coverage
  /\ s.bulk_same_support_coverage >= l.bulk_same_support_coverage
  /\ s.bulk_support_rare_sample_fraction = l.bulk_support_rare_sample_fraction
  /\ 0 <= s.bulk_support_max_removed_sample_fraction
  /\ s.bulk_support_max_removed_sample_fraction <= l.bulk_support_max_removed_sample_fraction

LEMMA PresetsGetStricter ==
  /\ Stricter(COMPARISON_THRESHOLD_PRESETS["strict"], COMPARISON_THRESHOLD_PRESETS["default"])
  /\ Stricter(COMPARISON_THRESHOLD_PRESETS["default"],
              COMPARISON_THRESHOLD_PRESETS["permissive"])
  <1>1. \A name \in {"strict", "default", "permissive"} :
          COMPARISON_THRESHOLD_PRESETS[name] \in [Fields -> Int]
    BY PresetsAreValid, TheFields DEF ValidThresholds
  <1> QED
    BY <1>1 DEF Stricter, COMPARISON_THRESHOLD_PRESETS, Preset

LEMMA Thresholds ==
  ASSUME NEW th \in [Fields -> Int]
  PROVE  /\ th.clear_gap_relative \in Int /\ th.same_center_relative \in Int
         /\ th.same_overlap_fraction \in Int /\ th.same_relative_dispersion_ceiling \in Int
         /\ th.bulk_same_sample_coverage \in Int /\ th.bulk_same_support_coverage \in Int
         /\ th.bulk_support_rare_sample_fraction \in Int
         /\ th.bulk_support_max_removed_sample_fraction \in Int
  BY TheFields

LEMMA ProductsInOrder ==
  ASSUME NEW x \in Int, NEW y \in Int, NEW m \in Int, x <= y, m >= 0
  PROVE  x * m <= y * m /\ x * m \in Int /\ y * m \in Int
  OBVIOUS

\* What is a gap for the stricter is one for the more lenient.
LEMMA GapOfTheLenient ==
  ASSUME NEW s, NEW l, Stricter(s, l), NEW r, NEW c, Sound(r), Sound(c), NEW status \in Gaps,
         compare_intervals_for_clear_gap(r, c, s) = status
  PROVE  compare_intervals_for_clear_gap(r, c, l) = status
  <1>1. /\ r.lower \in Int /\ r.upper \in Int /\ c.lower \in Int /\ c.upper \in Int
        /\ r.lower > 0 /\ c.lower > 0 /\ r.lower <= r.upper /\ c.lower <= c.upper
    BY DEF Sound, Intervals
  <1>2. /\ s.clear_gap_relative \in Int /\ l.clear_gap_relative \in Int
        /\ l.clear_gap_relative <= s.clear_gap_relative
    BY Thresholds DEF Stricter
  <1>3. ASSUME NEW high \in Int, NEW low \in Int, low > 0, ApartBy(high, low, s.clear_gap_relative)
        PROVE  ApartBy(high, low, l.clear_gap_relative)
    <2>1. /\ l.clear_gap_relative * low <= s.clear_gap_relative * low
          /\ l.clear_gap_relative * low \in Int /\ s.clear_gap_relative * low \in Int
      BY <1>2, <1>3, ProductsInOrder
    <2> QED
      BY <1>3, <2>1 DEF ApartBy, Scale
  <1>4. None \notin Gaps
    BY MirrorIsInjective
  <1>5. CASE status = "FAST"
    <2>1. c.upper < r.lower /\ ApartBy(r.lower, c.upper, s.clear_gap_relative)
      BY <1>4, <1>5 DEF compare_intervals_for_clear_gap
    <2>2. ApartBy(r.lower, c.upper, l.clear_gap_relative)
      BY <1>1, <1>3, <2>1
    <2> QED
      BY <1>5, <2>1, <2>2 DEF compare_intervals_for_clear_gap
  <1>6. CASE status = "SLOW"
    <2>1. c.lower > r.upper /\ ApartBy(c.lower, r.upper, s.clear_gap_relative)
      BY <1>4, <1>6 DEF compare_intervals_for_clear_gap
    <2>2. ApartBy(c.lower, r.upper, l.clear_gap_relative)
      BY <1>1, <1>3, <2>1
    <2>3. ~ (c.upper < r.lower)
      BY <1>1, <2>1
    <2> QED
      BY <1>6, <2>1, <2>2, <2>3 DEF compare_intervals_for_clear_gap
  <1> QED
    BY <1>5, <1>6 DEF Gaps

LEMMA CloserForTheLenient ==
  ASSUME NEW s, NEW l, Stricter(s, l), NEW a \in Int, NEW b \in Int, a > 0, b > 0,
         Closer(a, b, s.same_center_relative)
  PROVE  Closer(a, b, l.same_center_relative)
  <1>1. /\ s.same_center_relative \in Int /\ l.same_center_relative \in Int
        /\ s.same_center_relative <= l.same_center_relative
    BY Thresholds DEF Stricter
  <1>2. PICK m \in Int : m = Min({a, b}) /\ m >= 0
    BY PairMinMax
  <1>3. /\ s.same_center_relative * m <= l.same_center_relative * m
        /\ s.same_center_relative * m \in Int /\ l.same_center_relative * m \in Int
    BY <1>1, <1>2, ProductsInOrder
  <1>4. PICK d \in Int : d = Distance(a, b)
    <2>1. Distance(a, b) \in Int
      BY DEF Distance
    <2> QED
      BY <2>1
  <1>5. d * Scale <= s.same_center_relative * m
    BY <1>2, <1>4 DEF Closer
  <1>6. d * Scale <= l.same_center_relative * m
    BY <1>3, <1>5 DEF Scale
  <1> QED
    BY <1>2, <1>4, <1>6 DEF Closer

\* Intervals that look the same to the stricter look the same to the more
\* lenient, and overlap.
LEMMA SameIntervalsOfTheLenient ==
  ASSUME NEW s, NEW l, Stricter(s, l), NEW r, NEW c, Sound(r), Sound(c),
         compare_intervals_for_same(r, c, s).status = "SAME"
  PROVE  /\ compare_intervals_for_same(r, c, l) = compare_intervals_for_same(r, c, s)
         /\ compare_intervals_for_clear_gap(r, c, l) = None
  <1>1. /\ r.lower \in Int /\ r.center \in Int /\ r.upper \in Int
        /\ c.lower \in Int /\ c.center \in Int /\ c.upper \in Int
        /\ r.lower > 0 /\ r.lower <= r.center /\ r.center <= r.upper
        /\ c.lower > 0 /\ c.lower <= c.center /\ c.center <= c.upper
    BY DEF Sound, Intervals
  <1>2. PICK rl \in Int, ru \in Int, cl \in Int, cu \in Int :
          rl = r.lower /\ ru = r.upper /\ cl = c.lower /\ cu = c.upper
    BY <1>1
  <1>3. rl <= ru /\ cl <= cu
    BY <1>1, <1>2
  <1> DEFINE lower == IF rl >= cl THEN rl ELSE cl
             upper == IF ru <= cu THEN ru ELSE cu
             width == IF ru - rl <= cu - cl THEN ru - rl ELSE cu - cl
             overlap == interval_overlap_fraction(r, c)
  <1>4. /\ Max({rl, cl}) = lower /\ Min({ru, cu}) = upper
        /\ Min({ru - rl, cu - cl}) = width
    <2>1. PICK v \in Int, w \in Int : v = ru - rl /\ w = cu - cl
      OBVIOUS
    <2>2. Min({v, w}) = IF v <= w THEN v ELSE w
      BY PairMinMax
    <2>3. Max({rl, cl}) = lower /\ Min({ru, cu}) = upper
      BY PairMinMax
    <2> QED
      BY <2>1, <2>2, <2>3
  <1>5. overlap = IF upper < lower THEN <<0, 1>>
                  ELSE IF width > 0 THEN <<upper - lower, width>> ELSE <<1, 1>>
    <2> HIDE DEF lower, upper, width
    <2> QED
      BY <1>2, <1>4 DEF interval_overlap_fraction
  <1>6. overlap[1] \in Int /\ overlap[2] \in Int /\ overlap[2] > 0
    BY <1>2, <1>3, <1>5
  <1>7. upper < lower => overlap[1] = 0
    BY <1>5
  <1> HIDE DEF overlap
  <1>8. /\ Closer(r.center, c.center, s.same_center_relative)
        /\ ~ (overlap[1] * Scale < s.same_overlap_fraction * overlap[2])
        /\ compare_intervals_for_same(r, c, s) = Decision("SAME", "same_summary")
    BY DEF compare_intervals_for_same, Ambiguous, Decision, overlap
  <1>9. /\ s.same_overlap_fraction \in Int /\ l.same_overlap_fraction \in Int
        /\ l.same_overlap_fraction <= s.same_overlap_fraction
        /\ s.same_overlap_fraction > 0
    BY Thresholds DEF Stricter
  <1>10. /\ l.same_overlap_fraction * overlap[2] <= s.same_overlap_fraction * overlap[2]
         /\ l.same_overlap_fraction * overlap[2] \in Int
         /\ s.same_overlap_fraction * overlap[2] \in Int
    BY <1>6, <1>9, ProductsInOrder
  <1>11. ~ (overlap[1] * Scale < l.same_overlap_fraction * overlap[2])
    BY <1>6, <1>8, <1>10 DEF Scale
  <1>12. Closer(r.center, c.center, l.same_center_relative)
    BY <1>1, <1>8, CloserForTheLenient
  <1>13. compare_intervals_for_same(r, c, l) = Decision("SAME", "same_summary")
    BY <1>11, <1>12 DEF compare_intervals_for_same, overlap
  <1>14. s.same_overlap_fraction * overlap[2] > 0
    BY <1>6, <1>9, PositiveProduct
  <1>15. ~ (upper < lower)
    BY <1>6, <1>7, <1>8, <1>14 DEF Scale
  <1>16. ~ (cu < rl) /\ ~ (cl > ru)
    BY <1>2, <1>3, <1>15
  <1>17. compare_intervals_for_clear_gap(r, c, l) = None
    BY <1>2, <1>16 DEF compare_intervals_for_clear_gap
  <1> QED
    BY <1>8, <1>13, <1>17

\* The clocks, and the noise
LEMMA SameClocksOfTheLenient ==
  ASSUME NEW s, NEW l, Stricter(s, l), NEW ref, NEW cmp, WellFormed(ref), WellFormed(cmp),
         NEW r, NEW c, Sound(r), Sound(c),
         confirm_same_with_clock_rate(ref, cmp, r, c, s).status = "SAME"
  PROVE  confirm_same_with_clock_rate(ref, cmp, r, c, l)
           = confirm_same_with_clock_rate(ref, cmp, r, c, s)
  <1>1. PICK x, y : x = scale_interval(r, ref.clock) /\ y = scale_interval(c, cmp.clock)
    OBVIOUS
  <1>2. /\ x # None => Sound(x)
        /\ y # None => Sound(y)
    BY <1>1, ScaledIntervalIsSound, TimingFields DEF WellFormed
  <1>3. CASE None \in {ref.clock, cmp.clock}
    BY <1>3 DEF confirm_same_with_clock_rate
  <1>4. CASE None \notin {ref.clock, cmp.clock}
    <2>1. /\ None \notin {x, y} /\ compare_intervals_for_same(x, y, s).status = "SAME"
          /\ confirm_same_with_clock_rate(ref, cmp, r, c, s)
               = Decision("SAME", "same_confirmed_by_cycles")
      BY <1>1, <1>4 DEF confirm_same_with_clock_rate, Ambiguous, Decision
    <2>2. compare_intervals_for_same(x, y, l).status = "SAME"
      BY <1>2, <2>1, SameIntervalsOfTheLenient
    <2> QED
      BY <1>1, <1>4, <2>1, <2>2 DEF confirm_same_with_clock_rate
  <1> QED
    BY <1>3, <1>4

LEMMA NoiseOfTheLenient ==
  ASSUME NEW s, NEW l, Stricter(s, l), NEW noise \in Dispersions, is_usable_noise(noise),
         ~ NoiseExceeds(noise, s.same_relative_dispersion_ceiling)
  PROVE  ~ NoiseExceeds(noise, l.same_relative_dispersion_ceiling)
  <1>1. noise[1] \in Int /\ noise[2] \in Int /\ noise[2] >= 0
    BY DEF Dispersions, is_usable_noise
  <1>2. /\ s.same_relative_dispersion_ceiling \in Int
        /\ l.same_relative_dispersion_ceiling \in Int
        /\ s.same_relative_dispersion_ceiling <= l.same_relative_dispersion_ceiling
    BY Thresholds DEF Stricter
  <1>3. /\ s.same_relative_dispersion_ceiling * noise[2]
             <= l.same_relative_dispersion_ceiling * noise[2]
        /\ s.same_relative_dispersion_ceiling * noise[2] \in Int
        /\ l.same_relative_dispersion_ceiling * noise[2] \in Int
    BY <1>1, <1>2, ProductsInOrder
  <1> QED
    BY <1>1, <1>3 DEF NoiseExceeds, Scale

\* Bulk data that cover each other for the stricter do for the more lenient.
LEMMA CoverageOfTheLenient ==
  ASSUME NEW s, NEW l, Stricter(s, l), NEW runs, NEW others, Measured(runs), Measured(others),
         compute_effective_support_mask(runs, l) = Values(runs),
         CoverageSupportsSame(runs, others, s)
  PROVE  CoverageSupportsSame(runs, others, l)
  <1>1. /\ runs \in Runs /\ Total(runs) \in Nat /\ IsFiniteSet(Values(runs))
        /\ \A v \in Values(runs) \cup Values(others) : v \in Int /\ v > 0
    BY SamplesAreFinite DEF Measured
  <1>2. /\ s.bulk_same_sample_coverage \in Int /\ l.bulk_same_sample_coverage \in Int
        /\ s.bulk_same_support_coverage \in Int /\ l.bulk_same_support_coverage \in Int
        /\ l.bulk_same_sample_coverage <= s.bulk_same_sample_coverage
        /\ l.bulk_same_support_coverage <= s.bulk_same_support_coverage
        /\ s.bulk_support_max_removed_sample_fraction \in Int
        /\ l.bulk_support_max_removed_sample_fraction \in Int
        /\ 0 <= s.bulk_support_max_removed_sample_fraction
        /\ s.bulk_support_max_removed_sample_fraction
             <= l.bulk_support_max_removed_sample_fraction
        /\ s.bulk_support_rare_sample_fraction = l.bulk_support_rare_sample_fraction
    BY Thresholds DEF Stricter
  <1>3. compute_effective_support_mask(runs, s) = Values(runs)
    <2>1. PICK kept : kept = FrequentValues(runs,
            (l.bulk_support_rare_sample_fraction * Total(runs) + Scale - 1) \div Scale)
      OBVIOUS
    <2>2. /\ KeepMost(runs, kept, l) = Values(runs)
          /\ compute_effective_support_mask(runs, s) = KeepMost(runs, kept, s)
      BY <1>2, <2>1 DEF compute_effective_support_mask
    <2>3. PICK removed \in Nat : removed = Weight(runs, Values(runs) \ kept)
      BY <1>1, SamplesAreFinite
    <2>4. /\ s.bulk_support_max_removed_sample_fraction * Total(runs)
               <= l.bulk_support_max_removed_sample_fraction * Total(runs)
          /\ s.bulk_support_max_removed_sample_fraction * Total(runs) \in Int
          /\ l.bulk_support_max_removed_sample_fraction * Total(runs) \in Int
      BY <1>1, <1>2, ProductsInOrder
    <2>5. removed * Scale > l.bulk_support_max_removed_sample_fraction * Total(runs)
            => removed * Scale > s.bulk_support_max_removed_sample_fraction * Total(runs)
      BY <2>4 DEF Scale
    <2>6. l.bulk_support_max_removed_sample_fraction = 0
            => s.bulk_support_max_removed_sample_fraction = 0
      BY <1>2
    <2>7. CASE kept = Values(runs)
      BY <2>2, <2>7 DEF KeepMost
    <2>8. CASE kept # Values(runs)
      <3>1. \/ l.bulk_support_rare_sample_fraction = 0
            \/ l.bulk_support_max_removed_sample_fraction = 0
            \/ kept = {}
            \/ removed * Scale > l.bulk_support_max_removed_sample_fraction * Total(runs)
        BY <2>2, <2>3, <2>8 DEF KeepMost
      <3>2. \/ s.bulk_support_rare_sample_fraction = 0
            \/ s.bulk_support_max_removed_sample_fraction = 0
            \/ kept = {}
            \/ removed * Scale > s.bulk_support_max_removed_sample_fraction * Total(runs)
        BY <1>2, <2>5, <2>6, <3>1
      <3> QED
        BY <2>2, <2>3, <3>2 DEF KeepMost
    <2> QED
      BY <2>7, <2>8
  <1>4. PICK A, B : A = Covered(runs, others, s) /\ B = Covered(runs, others, l)
    OBVIOUS
  <1>5. A \subseteq B /\ B \subseteq Values(runs)
    <2>1. ASSUME NEW v \in Values(runs), NEW u \in Values(others),
                 Closer(u, v, s.same_center_relative)
          PROVE  Closer(u, v, l.same_center_relative)
      BY <1>1, <2>1, CloserForTheLenient
    <2> QED
      BY <1>4, <2>1 DEF Covered
  <1>6. IsFiniteSet(B) /\ IsFiniteSet(A)
    BY <1>1, <1>5, FS_Subset
  <1>7. Weight(runs, A) \in Nat /\ Weight(runs, B) \in Nat /\ Weight(runs, A) <= Weight(runs, B)
    BY <1>1, <1>5, SamplesAreFinite
  <1>8. A \cap Values(runs) = A /\ B \cap Values(runs) = B
    BY <1>5
  <1>9. /\ Cardinality(A) \in Nat /\ Cardinality(B) \in Nat /\ Cardinality(A) <= Cardinality(B)
        /\ Cardinality(Values(runs)) \in Nat
    BY <1>1, <1>5, <1>6, FS_Subset, FS_CardinalityType
  <1>10. /\ l.bulk_same_sample_coverage * Total(runs) <= s.bulk_same_sample_coverage * Total(runs)
         /\ l.bulk_same_sample_coverage * Total(runs) \in Int
         /\ s.bulk_same_sample_coverage * Total(runs) \in Int
    BY <1>1, <1>2, ProductsInOrder
  <1>11. /\ l.bulk_same_support_coverage * Cardinality(Values(runs))
              <= s.bulk_same_support_coverage * Cardinality(Values(runs))
         /\ l.bulk_same_support_coverage * Cardinality(Values(runs)) \in Int
         /\ s.bulk_same_support_coverage * Cardinality(Values(runs)) \in Int
    BY <1>2, <1>9, ProductsInOrder
  <1>12. /\ Weight(runs, A) * Scale >= s.bulk_same_sample_coverage * Total(runs)
         /\ Cardinality(A) * Scale >= s.bulk_same_support_coverage * Cardinality(Values(runs))
    BY <1>3, <1>4, <1>8 DEF CoverageSupportsSame, coverages_support_same
  <1>13. /\ Weight(runs, B) * Scale >= l.bulk_same_sample_coverage * Total(runs)
         /\ Cardinality(B) * Scale >= l.bulk_same_support_coverage * Cardinality(Values(runs))
    BY <1>7, <1>9, <1>10, <1>11, <1>12 DEF Scale
  <1> QED
    BY <1>4, <1>8, <1>13 DEF CoverageSupportsSame, coverages_support_same

LEMMA BulkValuesOfTheLenient ==
  ASSUME NEW s, NEW l, Stricter(s, l), NEW a, NEW b, NEW label, Measured(a), Measured(b),
         compute_effective_support_mask(a, l) = Values(a),
         compute_effective_support_mask(b, l) = Values(b),
         compare_values_for_bulk_same(a, b, label, s).status = "SAME"
  PROVE  compare_values_for_bulk_same(a, b, label, l) = compare_values_for_bulk_same(a, b, label, s)
  <1>1. CoverageSupportsSame(a, b, s) /\ CoverageSupportsSame(b, a, s)
    BY DEF compare_values_for_bulk_same, Ambiguous, Decision
  <1>2. CoverageSupportsSame(a, b, l) /\ CoverageSupportsSame(b, a, l)
    BY <1>1, CoverageOfTheLenient
  <1> QED
    BY <1>1, <1>2 DEF compare_values_for_bulk_same

LEMMA BulkSameOfTheLenient ==
  ASSUME NEW s, NEW l, Stricter(s, l), NEW ref, NEW cmp, WellFormed(ref), WellFormed(cmp),
         NoRareValues(ref, l), NoRareValues(cmp, l),
         \/ compare_timings_for_bulk_same(ref, cmp, s).status = "SAME"
         \/ compare_timings_for_bulk_same(ref, cmp, s).reason = "bulk_data_unavailable"
  PROVE  compare_timings_for_bulk_same(ref, cmp, l) = compare_timings_for_bulk_same(ref, cmp, s)
  <1>1. PICK a, b : a = SampleTimes(ref) /\ b = SampleTimes(cmp)
    OBVIOUS
  <1>2. PICK x, y : x = get_bulk_cycles(ref) /\ y = get_bulk_cycles(cmp)
    OBVIOUS
  <1>3. /\ a # None => Measured(a) /\ compute_effective_support_mask(a, l) = Values(a)
        /\ b # None => Measured(b) /\ compute_effective_support_mask(b, l) = Values(b)
        /\ x # None => Measured(x) /\ compute_effective_support_mask(x, l) = Values(x)
        /\ y # None => Measured(y) /\ compute_effective_support_mask(y, l) = Values(y)
    BY <1>1, <1>2, BulkIsMeasured DEF NoRareValues
  <1>4. PICK time, lenient :
          /\ time = compare_values_for_bulk_same(a, b, "bulk_time_support_mismatch", s)
          /\ lenient = compare_values_for_bulk_same(a, b, "bulk_time_support_mismatch", l)
    OBVIOUS
  <1>5. CASE None \in {a, b}
    BY <1>1, <1>5 DEF compare_timings_for_bulk_same
  <1>6. CASE None \notin {a, b}
    <2>1. /\ compare_timings_for_bulk_same(ref, cmp, s) = BulkCyclesSame(time, ref, cmp, s)
          /\ compare_timings_for_bulk_same(ref, cmp, l) = BulkCyclesSame(lenient, ref, cmp, l)
      BY <1>1, <1>4, <1>6 DEF compare_timings_for_bulk_same
    <2>2. \A th : /\ BulkCyclesSame(time, ref, cmp, th).reason # "bulk_data_unavailable"
                  /\ BulkCyclesSame(time, ref, cmp, th).status = "SAME" => time.status = "SAME"
      <3>1. time.reason # "bulk_data_unavailable"
        BY <1>4 DEF compare_values_for_bulk_same, Ambiguous, Decision
      <3> QED
        BY <3>1 DEF BulkCyclesSame, compare_values_for_bulk_same, Ambiguous, Decision
    <2>3. /\ BulkCyclesSame(time, ref, cmp, s).status = "SAME" /\ time.status = "SAME"
      BY <2>1, <2>2
    <2>4. lenient = time
      BY <1>3, <1>4, <1>6, <2>3, BulkValuesOfTheLenient
    <2>5. CASE None \in {ref.frequency_source, cmp.frequency_source}
      BY <2>1, <2>3, <2>4, <2>5 DEF BulkCyclesSame
    <2>6. CASE None \notin {ref.frequency_source, cmp.frequency_source}
      <3>1. /\ None \notin {x, y}
            /\ BulkCyclesSame(time, ref, cmp, s)
                 = compare_values_for_bulk_same(x, y, "bulk_cycle_support_mismatch", s)
        BY <1>2, <2>3, <2>6 DEF BulkCyclesSame, Ambiguous, Decision
      <3>2. BulkCyclesSame(time, ref, cmp, l)
              = compare_values_for_bulk_same(x, y, "bulk_cycle_support_mismatch", l)
        BY <1>2, <2>3, <2>6, <3>1 DEF BulkCyclesSame
      <3>3. compare_values_for_bulk_same(x, y, "bulk_cycle_support_mismatch", s).status = "SAME"
        BY <2>3, <3>1
      <3>4. compare_values_for_bulk_same(x, y, "bulk_cycle_support_mismatch", l)
              = compare_values_for_bulk_same(x, y, "bulk_cycle_support_mismatch", s)
        BY <1>3, <3>1, <3>3, BulkValuesOfTheLenient
      <3> QED
        BY <2>1, <2>4, <3>1, <3>2, <3>4
    <2> QED
      BY <2>5, <2>6
  <1> QED
    BY <1>5, <1>6

\* A decision for lack of cycles is one for "same".
LEMMA SameWithoutCycles ==
  ASSUME NEW ref, NEW cmp, NEW th,
         compare_timings_for_bulk_same(ref, cmp, th).reason = "bulk_time_same_without_cycles"
  PROVE  compare_timings_for_bulk_same(ref, cmp, th).status = "SAME"
  <1>1. \A a, b : \A label \in {"bulk_time_support_mismatch", "bulk_cycle_support_mismatch"} :
          compare_values_for_bulk_same(a, b, label, th).reason # "bulk_time_same_without_cycles"
    BY DEF compare_values_for_bulk_same, Ambiguous, Decision
  <1>2. \A time : time.reason # "bulk_time_same_without_cycles"
                    /\ BulkCyclesSame(time, ref, cmp, th).reason = "bulk_time_same_without_cycles"
                    => BulkCyclesSame(time, ref, cmp, th).status = "SAME"
    BY <1>1 DEF BulkCyclesSame, Ambiguous, Decision
  <1> QED
    BY <1>1, <1>2 DEF compare_timings_for_bulk_same, Ambiguous, Decision

\* The bulk data and the summaries together
LEMMA ConfirmedSameOfTheLenient ==
  ASSUME NEW s, NEW l, Stricter(s, l), NEW ref, NEW cmp, WellFormed(ref), WellFormed(cmp),
         NoRareValues(ref, l), NoRareValues(cmp, l), NEW r, NEW c, Sound(r), Sound(c),
         NEW noises \in SUBSET Dispersions, \A noise \in noises : is_usable_noise(noise),
         ConfirmSame(compare_timings_for_bulk_same(ref, cmp, s),
                     confirm_same_with_clock_rate(ref, cmp, r, c, s), noises, s).status = "SAME"
  PROVE  ConfirmSame(compare_timings_for_bulk_same(ref, cmp, l),
                     confirm_same_with_clock_rate(ref, cmp, r, c, l), noises, l).status = "SAME"
  <1>1. PICK bulk, lenient : /\ bulk = compare_timings_for_bulk_same(ref, cmp, s)
                             /\ lenient = compare_timings_for_bulk_same(ref, cmp, l)
    OBVIOUS
  <1>2. PICK summary, clocks : /\ summary = confirm_same_with_clock_rate(ref, cmp, r, c, s)
                               /\ clocks = confirm_same_with_clock_rate(ref, cmp, r, c, l)
    OBVIOUS
  <1>3. ConfirmSame(bulk, summary, noises, s).status = "SAME"
    BY <1>1, <1>2
  <1>4. summary.status = "SAME" => clocks = summary
    BY <1>2, SameClocksOfTheLenient
  <1>5. bulk.status = "SAME" \/ bulk.reason = "bulk_data_unavailable" => lenient = bulk
    BY <1>1, BulkSameOfTheLenient
  <1>6. bulk.reason = "bulk_time_same_without_cycles" => bulk.status = "SAME"
    BY <1>1, SameWithoutCycles
  <1>7. summary.reason = "same_without_clock_rate" => summary.status = "SAME"
    BY <1>2 DEF confirm_same_with_clock_rate, Ambiguous, Decision
  <1>8. PICK made \in Decisions :
          made = Decision("SAME", "bulk_time_same_confirmed_by_summary_cycles")
                 /\ made.status = "SAME"
    <2>1. PICK d : d = Decision("SAME", "bulk_time_same_confirmed_by_summary_cycles")
      OBVIOUS
    <2>2. d \in Decisions /\ d.status = "SAME"
      BY <2>1 DEF Decision, Decisions, Statuses, Reasons
    <2> QED
      BY <2>1, <2>2
  <1>9. made # None
    BY AbsenceAssumption
  <1>10. bulk # None /\ summary # None
    <2>1. /\ SameOrAmbiguous(confirm_same_with_clock_rate(ref, cmp, r, c, s))
          /\ SameOrAmbiguous(compare_timings_for_bulk_same(ref, cmp, s))
      BY PartsAreSameOrAmbiguous
    <2>2. \A d : SameOrAmbiguous(d) => d # None
      BY DecisionsAreMade DEF SameOrAmbiguous, Statuses
    <2> QED
      BY <1>1, <1>2, <2>1, <2>2
  <1>11. CASE bulk.reason = "bulk_data_unavailable"
    <2>1. lenient = bulk
      BY <1>5, <1>11
    <2>2. ConfirmSame(bulk, summary, noises, s) = SummarySame(noises, summary, s)
      BY <1>11 DEF ConfirmSame, BulkSame, OrElse, Present
    <2>3. /\ ~ \E noise \in noises : NoiseExceeds(noise, s.same_relative_dispersion_ceiling)
          /\ summary.status = "SAME"
      BY <1>3, <2>2 DEF SummarySame, Ambiguous, Decision
    <2>4. \A noise \in noises : ~ NoiseExceeds(noise, l.same_relative_dispersion_ceiling)
      BY <2>3, NoiseOfTheLenient
    <2>5. ConfirmSame(bulk, clocks, noises, l) = SummarySame(noises, clocks, l)
      BY <1>11 DEF ConfirmSame, BulkSame, OrElse, Present
    <2>6. SummarySame(noises, clocks, l) = clocks
      BY <2>4 DEF SummarySame
    <2> QED
      BY <1>1, <1>2, <1>4, <2>1, <2>3, <2>5, <2>6
  <1>12. CASE bulk.reason # "bulk_data_unavailable"
    <2>1. BulkSame(bulk, summary)
            = IF bulk.reason # "bulk_time_same_without_cycles" THEN bulk
              ELSE IF summary.reason = "same_without_clock_rate" THEN bulk
              ELSE IF summary.status = "SAME" THEN made ELSE summary
      BY <1>8, <1>12 DEF BulkSame
    <2>2. ConfirmSame(bulk, summary, noises, s) = BulkSame(bulk, summary)
      BY <1>9, <1>10, <2>1 DEF ConfirmSame, OrElse, Present
    <2>3. bulk.status = "SAME" /\ lenient = bulk
      BY <1>3, <1>5, <1>6, <2>1, <2>2
    <2>4. BulkSame(bulk, clocks)
            = IF bulk.reason # "bulk_time_same_without_cycles" THEN bulk
              ELSE IF clocks.reason = "same_without_clock_rate" THEN bulk
              ELSE IF clocks.status = "SAME" THEN made ELSE clocks
      BY <1>8, <1>12 DEF BulkSame
    <2>5. CASE bulk.reason # "bulk_time_same_without_cycles"
      <3>1. BulkSame(bulk, clocks) = bulk
        BY <2>4, <2>5
      <3>2. ConfirmSame(lenient, clocks, noises, l) = bulk
        BY <1>10, <2>3, <3>1 DEF ConfirmSame, OrElse, Present
      <3> QED
        BY <1>1, <1>2, <2>3, <3>2
    <2>6. CASE bulk.reason = "bulk_time_same_without_cycles"
      <3>1. summary.status = "SAME"
        BY <1>3, <1>7, <2>1, <2>2, <2>6
      <3>2. clocks = summary
        BY <1>4, <3>1
      <3>3. BulkSame(bulk, clocks) = BulkSame(bulk, summary)
        BY <3>2
      <3>4. ConfirmSame(lenient, clocks, noises, l) = BulkSame(bulk, summary)
        BY <1>9, <1>10, <2>1, <2>3, <3>1, <3>3 DEF ConfirmSame, OrElse, Present
      <3> QED
        BY <1>1, <1>2, <1>3, <2>2, <3>4
    <2> QED
      BY <2>5, <2>6
  <1> QED
    BY <1>11, <1>12

\* The noise next to an interval is a fraction, or unusable.
LEMMA DispersionIsTyped ==
  ASSUME NEW dispersion \in Numbers, NEW center \in Numbers
  PROVE  compute_relative_dispersion(dispersion, center) \in Dispersions
  <1>1. CASE dispersion = None \/ center = None \/ ~ is_positive_finite(center)
    BY <1>1 DEF compute_relative_dispersion, Dispersions
  <1>2. CASE dispersion # None /\ center # None /\ is_positive_finite(center)
    <2>1. center \in Int /\ center > 0
      BY <1>2, PositiveIsNumber
    <2>2. CASE dispersion = NonFinite
      BY <1>2, <2>2 DEF compute_relative_dispersion, Dispersions
    <2>3. CASE dispersion # NonFinite
      <3>1. dispersion \in Int
        BY <1>2, <2>3 DEF Numbers
      <3>2. compute_relative_dispersion(dispersion, center)
              = IF dispersion < 0 THEN None ELSE <<dispersion, center>>
        BY <1>2, <2>3 DEF compute_relative_dispersion
      <3> QED
        BY <2>1, <3>1, <3>2 DEF Dispersions
    <2> QED
      BY <2>2, <2>3
  <1> QED
    BY <1>1, <1>2

LEMMA SideNoiseIsTyped ==
  ASSUME NEW this, NEW other, WellFormed(this), SideInput(this, other).interval # None
  PROVE  SideInput(this, other).noise \in Dispersions
  <1>1. /\ this.mean \in Numbers /\ this.stdev \in Numbers /\ this.median \in Numbers
        /\ this.iqr \in Numbers /\ this.iqr_relative \in Dispersions
        /\ this.stdev_relative \in Dispersions
    BY DEF WellFormed, Timings
  <1>2. /\ Relative(this.iqr_relative, this.iqr, this.median) \in Dispersions
        /\ Relative(this.stdev_relative, this.stdev, this.mean) \in Dispersions
    BY <1>1, DispersionIsTyped DEF Relative, OrElse
  <1>3. ASSUME NEW estimate, NEW interval, WithInterval(estimate, interval) # None,
               estimate # None => estimate.noise \in Dispersions
        PROVE  WithInterval(estimate, interval).noise \in Dispersions
    BY <1>3 DEF WithInterval, Input
  <1>4. compute_mean_summary_timing_input(this) # None
          => compute_mean_summary_timing_input(this).noise \in Dispersions
    <2>1. compute_mean_summary_estimate(this) # None
            => compute_mean_summary_estimate(this).noise \in Dispersions
      BY <1>2 DEF compute_mean_summary_estimate
    <2> QED
      BY <1>3, <2>1 DEF compute_mean_summary_timing_input
  <1>5. compute_robust_timing_input(this) # None
          => compute_robust_timing_input(this).noise \in Dispersions
    <2>1. compute_robust_summary_estimate(this) # None
            => compute_robust_summary_estimate(this).noise \in Dispersions
      BY <1>2 DEF compute_robust_summary_estimate
    <2>2. PICK summary : summary = WithInterval(compute_robust_summary_estimate(this),
                                                compute_robust_summary_interval(this))
      OBVIOUS
    <2>3. summary # None => summary.noise \in Dispersions
      BY <1>3, <2>1, <2>2
    <2>4. ASSUME SampleTimes(this) # None
          PROVE  InputFromSamples(SampleTimes(this)).noise \in Dispersions
      <3>1. PICK runs : runs = SampleTimes(this)
        OBVIOUS
      <3>2. Measured(runs)
        BY <2>4, <3>1, BulkIsMeasured
      <3>3. PICK q1, median, q3 : /\ q1 = Percentile(runs, 25) /\ median = Percentile(runs, 50)
                                  /\ q3 = Percentile(runs, 75)
        OBVIOUS
      <3>4. q1 \in Int /\ median \in Int /\ q3 \in Int
        BY <3>2, <3>3, PercentilesAreValues DEF Measured
      <3>5. InputFromSamples(runs).noise = compute_relative_dispersion(q3 - q1, median)
        BY <2>4, <3>1, <3>3 DEF InputFromSamples, InputFromQuartiles, Input
      <3>6. q3 - q1 \in Numbers /\ median \in Numbers
        BY <3>4 DEF Numbers
      <3> QED
        BY <3>1, <3>5, <3>6, DispersionIsTyped
    <2>5. SampleTimes(this) = None => InputFromSamples(SampleTimes(this)) = None
      BY DEF InputFromSamples
    <2>6. compute_robust_timing_input(this)
            = IF summary # None THEN summary ELSE InputFromSamples(SampleTimes(this))
      BY <2>2 DEF compute_robust_timing_input, OrElse, Present
    <2> QED
      BY <2>3, <2>4, <2>5, <2>6
  <1>6. Input(SideEstimate(this, other).center, SideEstimate(this, other).noise, None).interval
          = None
    BY DEF Input
  <1> QED
    BY <1>4, <1>5, <1>6 DEF SideInput

\* StricterDecidesLess, of any two timings and any two sets of thresholds of
\* which one is stricter
LEMMA LenientDecidesAlike ==
  ASSUME NEW s, NEW l, Stricter(s, l), NEW ref, NEW cmp, WellFormed(ref), WellFormed(cmp),
         NoRareValues(ref, l), NoRareValues(cmp, l), Decided(compare_gpu_timings(ref, cmp, s))
  PROVE  compare_gpu_timings(ref, cmp, l).status = compare_gpu_timings(ref, cmp, s).status
  <1>1. PICK i : i = compute_timing_comparison_inputs(ref, cmp)
    OBVIOUS
  <1>2. PICK a, b : a = SideInput(ref, cmp) /\ b = SideInput(cmp, ref)
    OBVIOUS
  <1>3. i[1] = a /\ i[2] = b
    BY <1>1, <1>2, InputsBySide
  <1>4. PICK r, c : r = a.interval /\ c = b.interval
    OBVIOUS
  <1>5. PICK status : status = compare_gpu_timings(ref, cmp, s).status
    OBVIOUS
  <1>6. status \in Gaps \cup {"SAME"}
    BY <1>5 DEF Decided, Gaps
  <1>7. /\ r # None => Sound(r)
        /\ c # None => Sound(c)
    BY <1>2, <1>4, SideInputIsSound
  <1>8. PICK u : u = unusable_timing_center_decision(a.center, b.center)
    OBVIOUS
  <1>9. u = None
    <2>1. u # None => u.status \notin Gaps \cup {"SAME"}
      BY <1>8 DEF unusable_timing_center_decision, Decision, Gaps
    <2>2. u # None => compare_gpu_timings(ref, cmp, s) = u
      BY <1>1, <1>3, <1>8 DEF compare_gpu_timings, CompareInputs, OrElse, Present
    <2> QED
      BY <1>5, <1>6, <2>1, <2>2
  <1>10. PICK gap : gap = compare_timings_for_clear_gap(ref, cmp, r, c, l)
    OBVIOUS
  <1>11. compare_gpu_timings(ref, cmp, l)
           = IF gap.reason \in {"no_clear_gap", "missing_interval"}
             THEN compare_timings_for_same(ref, cmp, i, l) ELSE gap
    BY <1>1, <1>3, <1>4, <1>8, <1>9, <1>10
    DEF compare_gpu_timings, CompareInputs, GapOrSame, OrElse, Present
  <1>12. CASE status \in Gaps
    <2>1. PICK x, y : x = get_bulk_cycles(ref) /\ y = get_bulk_cycles(cmp)
      OBVIOUS
    <2>2. PICK p, q : p = InputFromSamples(x).interval /\ q = InputFromSamples(y).interval
      OBVIOUS
    <2>3. PICK v, w : v = scale_interval(r, ref.clock) /\ w = scale_interval(c, cmp.clock)
      OBVIOUS
    <2>4. /\ r # None /\ c # None
          /\ compare_intervals_for_clear_gap(r, c, s) = status
          /\ (x # None /\ y # None) => compare_intervals_for_clear_gap(p, q, s) = status
          /\ (x = None \/ y = None) =>
               /\ ~ (has_material_bulk_cycle_sources(ref) /\ has_material_bulk_cycle_sources(cmp))
               /\ v # None /\ w # None /\ compare_intervals_for_clear_gap(v, w, s) = status
      BY <1>2, <1>4, <1>5, <1>12, <2>1, <2>2, <2>3, DecidedGap
    <2>5. compare_intervals_for_clear_gap(r, c, l) = status
      BY <1>7, <1>12, <2>4, GapOfTheLenient
    <2>6. status # None /\ status \in Statuses
      BY <1>12, MirrorIsInjective
    <2>7. gap = OrElse(confirm_clear_gap_with_bulk_cycles(status, ref, cmp, l),
                       confirm_clear_gap_with_clock_rate(status, ref, cmp, r, c, l))
      BY <1>10, <2>4, <2>5, <2>6 DEF compare_timings_for_clear_gap, ConfirmClearGap
    <2>8. /\ Decision(status, "clear_gap_confirmed_by_bulk_cycles") # None
          /\ Decision(status, "clear_gap_confirmed_by_bulk_cycles").status = status
          /\ Decision(status, "clear_gap_confirmed_by_bulk_cycles").reason
               = "clear_gap_confirmed_by_bulk_cycles"
          /\ Decision(status, "clear_gap_confirmed_by_summary_cycles").status = status
          /\ Decision(status, "clear_gap_confirmed_by_summary_cycles").reason
               = "clear_gap_confirmed_by_summary_cycles"
      BY <2>6, DecisionsAreMade DEF Reasons
    <2>9. CASE x # None /\ y # None
      <3>1. /\ Sound(p) /\ Sound(q)
            /\ has_material_bulk_cycle_sources(ref) /\ has_material_bulk_cycle_sources(cmp)
        BY <2>1, <2>2, <2>9, BulkIsMeasured, SamplesHaveAnInterval
      <3>2. compare_intervals_for_clear_gap(p, q, l) = status
        BY <1>12, <2>4, <2>9, <3>1, GapOfTheLenient
      <3>3. confirm_clear_gap_with_bulk_cycles(status, ref, cmp, l)
              = Decision(status, "clear_gap_confirmed_by_bulk_cycles")
        BY <2>1, <2>2, <2>9, <3>1, <3>2 DEF confirm_clear_gap_with_bulk_cycles, BulkCyclesConfirm
      <3>4. gap = Decision(status, "clear_gap_confirmed_by_bulk_cycles")
        BY <2>7, <2>8, <3>3 DEF OrElse, Present
      <3> QED
        BY <1>5, <1>11, <2>8, <3>4
    <2>10. CASE x = None \/ y = None
      <3>1. /\ ~ (has_material_bulk_cycle_sources(ref) /\ has_material_bulk_cycle_sources(cmp))
            /\ v # None /\ w # None /\ compare_intervals_for_clear_gap(v, w, s) = status
        BY <2>4, <2>10
      <3>2. Sound(v) /\ Sound(w) /\ is_positive_finite(ref.clock) /\ is_positive_finite(cmp.clock)
        BY <1>7, <2>3, <2>4, <3>1, ScaledIntervalIsSound, TimingFields DEF WellFormed
      <3>3. compare_intervals_for_clear_gap(v, w, l) = status
        BY <1>12, <3>1, <3>2, GapOfTheLenient
      <3>4. confirm_clear_gap_with_clock_rate(status, ref, cmp, r, c, l)
              = Decision(status, "clear_gap_confirmed_by_summary_cycles")
        BY <2>3, <3>1, <3>2, <3>3 DEF confirm_clear_gap_with_clock_rate, is_positive_finite
      <3>5. gap = Decision(status, "clear_gap_confirmed_by_summary_cycles")
        BY <2>7, <3>1, <3>4 DEF confirm_clear_gap_with_bulk_cycles, OrElse, Present
      <3> QED
        BY <1>5, <1>11, <2>8, <3>5
    <2> QED
      BY <2>9, <2>10
  <1>13. CASE status = "SAME"
    <2>1. PICK noises : noises = {a.noise, b.noise}
      OBVIOUS
    <2>2. /\ r # None /\ c # None
          /\ is_usable_noise(a.noise) /\ is_usable_noise(b.noise)
          /\ compare_intervals_for_same(r, c, s).status = "SAME"
          /\ ConfirmSame(compare_timings_for_bulk_same(ref, cmp, s),
                         confirm_same_with_clock_rate(ref, cmp, r, c, s), noises, s).status
               = "SAME"
      <3>1. compare_gpu_timings(ref, cmp, s).status = "SAME"
        BY <1>5, <1>13
      <3> QED
        BY <1>2, <1>4, <2>1, <3>1, DecidedSame
    <2>3. /\ compare_intervals_for_same(r, c, l).status = "SAME"
          /\ compare_intervals_for_clear_gap(r, c, l) = None
      BY <1>7, <2>2, SameIntervalsOfTheLenient
    <2>4. gap = Ambiguous("no_clear_gap")
      BY <1>10, <2>2, <2>3 DEF compare_timings_for_clear_gap, ConfirmClearGap
    <2>5. compare_gpu_timings(ref, cmp, l) = compare_timings_for_same(ref, cmp, i, l)
      BY <1>11, <2>4 DEF Ambiguous, Decision
    <2>6. compare_timings_for_same(ref, cmp, i, l)
            = ConfirmSame(compare_timings_for_bulk_same(ref, cmp, l),
                          confirm_same_with_clock_rate(ref, cmp, r, c, l), noises, l)
      BY <1>3, <1>4, <2>1, <2>2, <2>3 DEF compare_timings_for_same
    <2>7. noises \in SUBSET Dispersions /\ \A noise \in noises : is_usable_noise(noise)
      BY <1>2, <1>4, <2>1, <2>2, SideNoiseIsTyped
    <2>8. ConfirmSame(compare_timings_for_bulk_same(ref, cmp, l),
                      confirm_same_with_clock_rate(ref, cmp, r, c, l), noises, l).status = "SAME"
      BY <1>7, <2>2, <2>7, ConfirmedSameOfTheLenient
    <2> QED
      BY <1>5, <1>13, <2>5, <2>6, <2>8
  <1> QED
    BY <1>6, <1>12, <1>13

\* What a strict preset decides, the more permissive ones decide alike, unless
\* values are left out as rare: compare_gpu_timings with the presets'
\* thresholds.
THEOREM StricterAlwaysDecidesLess ==
  VerdictSpec => []StricterDecidesLess
  <1>1. DecidedByTheFunctions => StricterDecidesLess
    <2> SUFFICES ASSUME DecidedByTheFunctions, stage = "done",
                        NEW names \in {<<"strict", "default">>, <<"default", "permissive">>}
                 PROVE  LET strict == COMPARISON_THRESHOLD_PRESETS[names[1]]
                            lenient == COMPARISON_THRESHOLD_PRESETS[names[2]]
                            d == compare_gpu_timings(args.ref, args.cmp, strict)
                        IN (Decided(d) /\ \A t \in {args.ref, args.cmp} : NoRareValues(t, lenient))
                             => compare_gpu_timings(args.ref, args.cmp, lenient).status = d.status
      BY DEF StricterDecidesLess
    <2>1. PICK ref, cmp : ref = args.ref /\ cmp = args.cmp
      OBVIOUS
    <2>2. WellFormed(ref) /\ WellFormed(cmp)
      BY <2>1, ComparisonsAreGiven DEF DecidedByTheFunctions
    <2>3. PICK s, l : /\ s = COMPARISON_THRESHOLD_PRESETS[names[1]]
                      /\ l = COMPARISON_THRESHOLD_PRESETS[names[2]]
      OBVIOUS
    <2>4. Stricter(s, l)
      BY <2>3, PresetsGetStricter
    <2>5. (Decided(compare_gpu_timings(ref, cmp, s)) /\ NoRareValues(ref, l)
             /\ NoRareValues(cmp, l))
            => compare_gpu_timings(ref, cmp, l).status = compare_gpu_timings(ref, cmp, s).status
      BY <2>2, <2>4, LenientDecidesAlike
    <2> QED
      BY <2>1, <2>3, <2>5
  <1> QED
    BY <1>1, AlwaysDecidedByTheFunctions, PTL

-----------------------------------------------------------------------------
(* Places in order *)

Rank(places, i) == Cardinality({j \in places : j < i})

\* The ranks of a finite set of places are the numbers below its size, each
\* the rank of one place.
LEMMA Ranks ==
  ASSUME NEW P \in SUBSET Nat, IsFiniteSet(P)
  PROVE  /\ Cardinality(P) \in Nat
         /\ \A i \in P : Rank(P, i) \in 0..(Cardinality(P) - 1)
         /\ \A i, j \in P : i < j => Rank(P, i) < Rank(P, j)
         /\ \A k \in 0..(Cardinality(P) - 1) : \E i \in P : Rank(P, i) = k
  <1> DEFINE Below(i) == {j \in P : j < i}
  <1>0. \A i : Rank(P, i) = Cardinality(Below(i)) /\ Below(i) \in SUBSET P
    BY DEF Rank
  <1>a. \A p \in P : p \in Nat
    OBVIOUS
  <1>b. \A i, j \in P : i < j => i \in Below(j) /\ Below(i) \subseteq Below(j)
    <2>1. \A k, i, j \in Nat : k < i /\ i < j => k < j
      OBVIOUS
    <2> QED
      BY <1>a, <2>1
  <1>c. \A i \in P : i \notin Below(i)
    BY <1>a
  <1> HIDE DEF Below
  <1>1. PICK n \in Nat : n = Cardinality(P)
    BY FS_CardinalityType
  <1>2. \A i : IsFiniteSet(Below(i)) /\ Cardinality(Below(i)) \in Nat
    BY <1>0, FS_Subset, FS_CardinalityType
  <1>3. ASSUME NEW T \in SUBSET P, NEW i \in T, Below(i) \subseteq T
        PROVE  Cardinality(Below(i)) < Cardinality(T)
    <2>1. IsFiniteSet(T) /\ Cardinality(T) \in Nat
      BY FS_Subset, FS_CardinalityType
    <2>2. Below(i) \in SUBSET T /\ Below(i) # T
      BY <1>3, <1>c
    <2> QED
      BY <1>2, <2>1, <2>2, FS_Subset
  <1>4. \A i \in P : Rank(P, i) \in 0..(n - 1)
    <2> TAKE i \in P
    <2>1. Cardinality(Below(i)) < Cardinality(P)
      BY <1>3, <1>0
    <2>2. Rank(P, i) \in Nat /\ Rank(P, i) < n
      BY <1>1, <1>2, <2>1, <1>0
    <2> QED
      BY <2>2
  <1>5. ASSUME NEW i \in P, NEW j \in P, i < j
        PROVE  Rank(P, i) < Rank(P, j)
    <2>1. Below(j) \in SUBSET P /\ i \in Below(j) /\ Below(i) \subseteq Below(j)
      BY <1>5, <1>0, <1>b
    <2>2. Cardinality(Below(i)) < Cardinality(Below(j))
      BY <1>3, <2>1
    <2> QED
      BY <1>0, <2>2
  <1>6. PICK rank : rank = [i \in P |-> Rank(P, i)]
    OBVIOUS
  <1>7. rank \in Injection(P, 0..(n - 1))
    <2>1. rank \in [P -> 0..(n - 1)]
      BY <1>4, <1>6
    <2>2. ASSUME NEW i \in P, NEW j \in P, rank[i] = rank[j]
          PROVE  i = j
      <3>1. Rank(P, i) = Rank(P, j) /\ Rank(P, i) \in Int
        BY <1>4, <1>6, <2>2
      <3>2. i \in Nat /\ j \in Nat
        OBVIOUS
      <3>3. ~ (i < j) /\ ~ (j < i)
        BY <1>5, <3>1
      <3> QED
        BY <3>2, <3>3
    <2> QED
      BY <2>1, <2>2 DEF Injection, IsInjective
  <1>8. IsFiniteSet(0..(n - 1)) /\ Cardinality(0..(n - 1)) = n
    BY FS_Interval
  <1>9. rank \in Surjection(P, 0..(n - 1))
    BY <1>1, <1>7, <1>8, FS_Injection
  <1>10. ASSUME NEW k \in 0..(n - 1)
         PROVE  \E i \in P : Rank(P, i) = k
    BY <1>6, <1>9 DEF Surjection
  <1> QED
    BY <1>1, <1>4, <1>5, <1>10

\* A set of numbers that is not empty has a least one.
LEMMA Least ==
  ASSUME NEW P \in SUBSET Nat, IsFiniteSet(P), P # {}
  PROVE  \E i \in P : \A j \in P : i <= j
  <1>1. Cardinality(P) \in Nat /\ Cardinality(P) # 0
    BY FS_CardinalityType, FS_EmptySet
  <1>2. PICK i \in P : Rank(P, i) = 0
    BY <1>1, Ranks
  <1>3. {j \in P : j < i} \in SUBSET P
    OBVIOUS
  <1>4. {j \in P : j < i} = {}
    BY <1>2, <1>3, FS_EmptySet, FS_Subset DEF Rank
  <1>5. \A j \in P : i <= j
    <2> TAKE j \in P
    <2>1. ~ (j < i) /\ i \in Nat /\ j \in Nat
      BY <1>4
    <2> QED
      BY <2>1
  <1> QED
    BY <1>5

LEMMA LeastPlace ==
  ASSUME NEW P \in SUBSET Nat, IsFiniteSet(P), P # {}
  PROVE  Min(P) \in P
  BY Least DEF Min

\* Places from first to last
Ascending(s) == s \in Seq(Nat) /\ \A i, j \in DOMAIN s : i < j => s[i] < s[j]

LEMMA PlacesInOrder ==
  ASSUME NEW P \in SUBSET Nat, IsFiniteSet(P)
  PROVE  /\ Ascending(InOrder(P)) /\ Len(InOrder(P)) = Cardinality(P)
         /\ Cardinality(P) \in Nat /\ DOMAIN InOrder(P) = 1..Cardinality(P)
         /\ Range(InOrder(P)) = P
         /\ \A i \in P : InOrder(P)[Rank(P, i) + 1] = i
  <1>1. PICK n \in Nat : n = Cardinality(P)
    BY FS_CardinalityType
  <1>2. PICK s : s = InOrder(P)
    OBVIOUS
  <1>a. \A p \in P : p \in Nat
    OBVIOUS
  <1>3. s = [k \in 1..n |-> CHOOSE i \in P : Rank(P, i) = k - 1]
    BY <1>1, <1>2 DEF InOrder, Rank
  <1>4. ASSUME NEW k \in 1..n
        PROVE  s[k] \in P /\ Rank(P, s[k]) = k - 1
    <2>1. k - 1 \in 0..(n - 1)
      OBVIOUS
    <2>2. \E i \in P : Rank(P, i) = k - 1
      BY <1>1, <2>1, Ranks
    <2>3. s[k] = CHOOSE i \in P : Rank(P, i) = k - 1
      BY <1>3
    <2> QED
      BY <2>2, <2>3
  <1>5. s \in [1..n -> P]
    BY <1>3, <1>4
  <1>6. ASSUME NEW i \in 1..n, NEW j \in 1..n, i < j
        PROVE  s[i] < s[j]
    <2>1. s[i] \in P /\ s[j] \in P /\ Rank(P, s[i]) = i - 1 /\ Rank(P, s[j]) = j - 1
      BY <1>4
    <2>2. s[i] \in Nat /\ s[j] \in Nat
      BY <2>1
    <2>3. ~ (s[j] < s[i])
      <3>1. s[j] < s[i] => Rank(P, s[j]) < Rank(P, s[i])
        BY <2>1, Ranks
      <3> QED
        BY <1>6, <2>1, <3>1
    <2>4. s[i] # s[j]
      BY <1>6, <2>1
    <2> QED
      BY <2>2, <2>3, <2>4
  <1>7. ASSUME NEW i \in P
        PROVE  Rank(P, i) + 1 \in 1..n /\ s[Rank(P, i) + 1] = i
    <2>1. PICK k \in 0..(n - 1) : k = Rank(P, i)
      BY <1>1, Ranks
    <2>2. k + 1 \in 1..n /\ (k + 1) - 1 = k
      OBVIOUS
    <2>3. s[k + 1] \in P /\ Rank(P, s[k + 1]) = k
      BY <1>4, <2>2
    <2>4. i \in Nat /\ s[k + 1] \in Nat /\ k \in Int
      <3>1. i \in P /\ s[k + 1] \in P
        BY <2>3
      <3>2. k \in Int
        OBVIOUS
      <3> QED
        BY <1>a, <3>1, <3>2
    <2>5. ~ (i < s[k + 1]) /\ ~ (s[k + 1] < i)
      BY <2>1, <2>3, <2>4, Ranks
    <2> QED
      BY <2>1, <2>2, <2>4, <2>5
  <1>8. s \in [1..n -> Nat]
    BY <1>5, <1>a
  <1>10. s \in Seq(Nat) /\ Len(s) = n /\ DOMAIN s = 1..n
    BY <1>8
  <1>9. Range(s) = P
    BY <1>4, <1>7, <1>10 DEF Range
  <1> QED
    BY <1>1, <1>2, <1>3, <1>5, <1>6, <1>7, <1>9, <1>10 DEF Ascending

-----------------------------------------------------------------------------
(* Counterparts *)

KeyAt(states, places, j) == state_comparison_key(states[places[j]])

OccurrenceAt(states, places, j) ==
  Cardinality({i \in 1..(j - 1) : KeyAt(states, places, i) = KeyAt(states, places, j)})

OfKey(states, places, key) == {i \in Range(places) : state_comparison_key(states[i]) = key}

CounterpartOf(theirs, ref, mine, cmp, j) ==
  Group(theirs, ref, KeyAt(mine, cmp, j))[OccurrenceAt(mine, cmp, j) + 1]

LEMMA RangeOfPlaces ==
  ASSUME NEW places, Ascending(places)
  PROVE  /\ Len(places) \in Nat /\ DOMAIN places = 1..Len(places)
         /\ Range(places) \in SUBSET Nat /\ IsFiniteSet(Range(places))
         /\ \A j \in DOMAIN places : places[j] \in Nat
         /\ \A i, j \in DOMAIN places : places[i] = places[j] => i = j
  <1>1. places \in Seq(Nat)
    BY DEF Ascending
  <1>2. PICK n \in Nat : n = Len(places) /\ DOMAIN places = 1..n
    BY <1>1
  <1>3. \A j \in 1..n : places[j] \in Nat
    BY <1>1, <1>2
  <1>4. places \in Surjection(1..n, Range(places))
    <2>1. places \in [1..n -> Range(places)]
      BY <1>1, <1>2 DEF Range
    <2> QED
      BY <1>2, <2>1 DEF Surjection, Range
  <1>5. IsFiniteSet(1..n)
    BY FS_Interval
  <1>6. IsFiniteSet(Range(places))
    BY <1>4, <1>5, FS_Surjection
  <1>7. ASSUME NEW i \in 1..n, NEW j \in 1..n, places[i] = places[j]
        PROVE  i = j
    <2>1. i < j => places[i] < places[j]
      BY <1>2 DEF Ascending
    <2>2. j < i => places[j] < places[i]
      BY <1>2 DEF Ascending
    <2>3. ~ (places[i] < places[j]) /\ ~ (places[j] < places[i])
      BY <1>3, <1>7
    <2> QED
      BY <2>1, <2>2, <2>3
  <1>8. Range(places) \in SUBSET Nat
    BY <1>2, <1>3 DEF Range
  <1> QED
    BY <1>2, <1>3, <1>6, <1>7, <1>8

\* The places of a key, from first to last
LEMMA GroupOfKey ==
  ASSUME NEW states, NEW places, Ascending(places), NEW key
  PROVE  /\ Ascending(Group(states, places, key))
         /\ OfKey(states, places, key) \in SUBSET Nat
         /\ IsFiniteSet(OfKey(states, places, key))
         /\ Cardinality(OfKey(states, places, key)) \in Nat
         /\ Len(Group(states, places, key)) = Cardinality(OfKey(states, places, key))
         /\ DOMAIN Group(states, places, key) = 1..Len(Group(states, places, key))
         /\ Range(Group(states, places, key)) = OfKey(states, places, key)
  <1>1. PICK P : P = OfKey(states, places, key)
    OBVIOUS
  <1>2. P \in SUBSET Nat /\ IsFiniteSet(P)
    <2>1. P \in SUBSET Range(places)
      BY <1>1 DEF OfKey
    <2> QED
      BY <2>1, RangeOfPlaces, FS_Subset
  <1>3. Group(states, places, key) = InOrder(P)
    BY <1>1 DEF Group, OfKey
  <1> QED
    BY <1>1, <1>2, <1>3, PlacesInOrder

\* Among the states with its key, fewer come before a state than there are, and
\* the later of two has more of them before it.
LEMMA Occurrences ==
  ASSUME NEW states, NEW places, Ascending(places), NEW j \in DOMAIN places
  PROVE  /\ OccurrenceAt(states, places, j) \in Nat
         /\ OccurrenceAt(states, places, j)
              < Cardinality(OfKey(states, places, KeyAt(states, places, j)))
         /\ \A i \in DOMAIN places :
              (i < j /\ KeyAt(states, places, i) = KeyAt(states, places, j))
                => OccurrenceAt(states, places, i) < OccurrenceAt(states, places, j)
  <1>1. PICK n \in Nat : n = Len(places) /\ DOMAIN places = 1..n
    BY RangeOfPlaces
  <1>2. PICK key : key = KeyAt(states, places, j)
    OBVIOUS
  <1>3. PICK G : G = OfKey(states, places, key)
    OBVIOUS
  <1> DEFINE Before(k) == {i \in 1..(k - 1) : KeyAt(states, places, i) = key}
  <1>4. \A k \in 1..n : /\ Before(k) \in SUBSET (1..(k - 1)) /\ Before(k) \in SUBSET (1..n)
                        /\ k \notin Before(k)
    BY <1>1
  <1>5. \A k \in 1..n : KeyAt(states, places, k) = key
                          => OccurrenceAt(states, places, k) = Cardinality(Before(k))
    BY DEF OccurrenceAt
  <1>6. \A i \in 1..n : (i < j /\ KeyAt(states, places, i) = key)
                          => i \in Before(j) /\ Before(i) \subseteq Before(j)
    BY <1>1
  <1>7. \A k \in Before(j) : KeyAt(states, places, k) = key /\ k \in 1..n /\ k # j
    BY <1>1
  <1> HIDE DEF Before
  <1>8. \A k \in 1..n : IsFiniteSet(Before(k)) /\ Cardinality(Before(k)) \in Nat
    <2>1. IsFiniteSet(1..n)
      BY FS_Interval
    <2> QED
      BY <1>4, <2>1, FS_Subset, FS_CardinalityType
  <1>9. j \in 1..n
    BY <1>1
  <1>10. Cardinality(Before(j)) < Cardinality(G)
    <2>1. IsFiniteSet(G) /\ Cardinality(G) \in Nat
      BY <1>3, GroupOfKey
    <2>2. \A k \in 1..n : KeyAt(states, places, k) = key => places[k] \in G
      BY <1>1, <1>3 DEF OfKey, KeyAt, Range
    <2>3. places[j] \in G
      BY <1>2, <1>9, <2>2
    <2>4. IsFiniteSet(G \ {places[j]}) /\ Cardinality(G \ {places[j]}) = Cardinality(G) - 1
      BY <2>1, <2>3, FS_RemoveElement
    <2>5. PICK f : f = [k \in Before(j) |-> places[k]]
      OBVIOUS
    <2>6. f \in Injection(Before(j), G \ {places[j]})
      <3>1. \A k \in Before(j) : f[k] \in G \ {places[j]}
        BY <1>1, <1>7, <1>9, <2>2, <2>5, RangeOfPlaces
      <3>2. \A k, l \in Before(j) : f[k] = f[l] => k = l
        BY <1>1, <1>7, <2>5, RangeOfPlaces
      <3> QED
        BY <2>5, <3>1, <3>2 DEF Injection, IsInjective
    <2>7. Cardinality(Before(j)) <= Cardinality(G \ {places[j]})
      BY <2>4, <2>6, FS_Injection
    <2> QED
      BY <1>8, <1>9, <2>1, <2>4, <2>7
  <1>11. ASSUME NEW i \in 1..n, i < j, KeyAt(states, places, i) = key
         PROVE  Cardinality(Before(i)) < Cardinality(Before(j))
    <2>1. Before(i) \in SUBSET Before(j) /\ Before(i) # Before(j)
      BY <1>4, <1>6, <1>11
    <2> QED
      BY <1>8, <1>9, <2>1, FS_Subset
  <1> QED
    BY <1>1, <1>2, <1>3, <1>5, <1>8, <1>9, <1>10, <1>11

\* Sections with as many states of each key: the counterpart of a state has its
\* key, and the later of two states with one key has the later counterpart.
LEMMA Counterparts ==
  ASSUME NEW theirs, NEW ref, Ascending(ref), NEW mine, NEW cmp, Ascending(cmp),
         SameGroups(theirs, ref, mine, cmp), NEW j \in DOMAIN cmp
  PROVE  /\ CounterpartOf(theirs, ref, mine, cmp, j) \in Range(ref)
         /\ state_comparison_key(theirs[CounterpartOf(theirs, ref, mine, cmp, j)])
              = KeyAt(mine, cmp, j)
         /\ \A i \in DOMAIN cmp :
              (i < j /\ KeyAt(mine, cmp, i) = KeyAt(mine, cmp, j))
                => CounterpartOf(theirs, ref, mine, cmp, i)
                     < CounterpartOf(theirs, ref, mine, cmp, j)
  <1>1. PICK key : key = KeyAt(mine, cmp, j)
    OBVIOUS
  <1>2. PICK group : group = Group(theirs, ref, key)
    OBVIOUS
  <1>3. Len(group) = Cardinality(OfKey(mine, cmp, key))
    <2>1. key \in Keys(mine, cmp)
      BY <1>1 DEF Keys, KeyAt, Range
    <2> QED
      BY <1>2, <2>1, GroupOfKey DEF SameGroups
  <1>4. /\ Ascending(group) /\ DOMAIN group = 1..Len(group)
        /\ Range(group) = OfKey(theirs, ref, key) /\ Len(group) \in Nat
    BY <1>2, GroupOfKey
  <1>5. \A i \in DOMAIN cmp :
          KeyAt(mine, cmp, i) = key =>
            /\ OccurrenceAt(mine, cmp, i) + 1 \in DOMAIN group
            /\ OccurrenceAt(mine, cmp, i) \in Nat
            /\ CounterpartOf(theirs, ref, mine, cmp, i) = group[OccurrenceAt(mine, cmp, i) + 1]
    <2> SUFFICES ASSUME NEW i \in DOMAIN cmp, KeyAt(mine, cmp, i) = key
                 PROVE  /\ OccurrenceAt(mine, cmp, i) + 1 \in DOMAIN group
                        /\ OccurrenceAt(mine, cmp, i) \in Nat
                        /\ CounterpartOf(theirs, ref, mine, cmp, i)
                             = group[OccurrenceAt(mine, cmp, i) + 1]
      OBVIOUS
    <2>1. /\ OccurrenceAt(mine, cmp, i) \in Nat
          /\ OccurrenceAt(mine, cmp, i) < Len(group)
      BY <1>3, Occurrences
    <2> QED
      BY <1>2, <1>4, <2>1 DEF CounterpartOf
  <1>6. group[OccurrenceAt(mine, cmp, j) + 1] \in OfKey(theirs, ref, key)
    BY <1>1, <1>4, <1>5 DEF Range
  <1>7. ASSUME NEW i \in DOMAIN cmp, i < j, KeyAt(mine, cmp, i) = key
        PROVE  group[OccurrenceAt(mine, cmp, i) + 1] < group[OccurrenceAt(mine, cmp, j) + 1]
    <2>1. OccurrenceAt(mine, cmp, i) < OccurrenceAt(mine, cmp, j)
      BY <1>1, <1>7, Occurrences
    <2>2. OccurrenceAt(mine, cmp, i) + 1 < OccurrenceAt(mine, cmp, j) + 1
      BY <1>1, <1>5, <1>7, <2>1
    <2> QED
      BY <1>1, <1>4, <1>5, <1>7, <2>2 DEF Ascending
  <1> QED
    BY <1>1, <1>5, <1>6, <1>7 DEF OfKey

-----------------------------------------------------------------------------
(* Where main and compare_benches stand *)

\* The files to compare are result files.
FilesRead ==
  /\ Len(todo) \in Nat /\ DOMAIN todo = 1..Len(todo)
  /\ \A f \in DOMAIN todo : \A side \in 1..2 : ResultFile(todo[f][side])

AtFile ==
  /\ at \in [file : Nat, bench : Nat, pair : Nat]
  /\ pc \in {"bench", "section", "state"} =>
       /\ at.file \in DOMAIN todo /\ at.bench > 0
       /\ \A side \in 1..2 : todo[at.file][side] # Unreadable
       /\ inputs.ref = todo[at.file][1].benchmarks
       /\ inputs.cmp = todo[at.file][2].benchmarks

\* The benchmark at hand has a counterpart, and both have the devices asked for.
AtBench ==
  pc \in {"section", "state"} =>
    /\ at.bench \in DOMAIN inputs.cmp /\ RefPlace # 0
    /\ RefIds # Refused /\ CmpIds # Refused

\* The states of the section at hand are those of its devices, in order, and as
\* many of each key on both sides.
AtSection ==
  pc = "state" =>
    /\ section.cmp = DeviceStates(CmpBench.states, CmpIds[at.pair], FilterGroups)
    /\ section.ref = DeviceStates(RefBench.states, RefIds[at.pair], FilterGroups)
    /\ GroupsMatch(section.ref, section.cmp)
    /\ section = [ref |-> section.ref, cmp |-> section.cmp, next |-> section.next,
                  rows |-> section.rows, points |-> section.points]
    /\ section.next \in Nat \ {0} /\ section.next <= Len(section.cmp) + 1
    /\ Sequence(section.rows) /\ Sequence(section.points)

Standing ==
  /\ cmd \in Commands /\ (pc = "files" => Len(cmd.paths) = 2)
  /\ FilesRead /\ AtFile /\ AtBench /\ AtSection

LEMMA Appended ==
  ASSUME NEW s, Sequence(s), NEW e
  PROVE  /\ Len(s) \in Nat /\ DOMAIN s = 1..Len(s)
         /\ Sequence(Append(s, e)) /\ Len(Append(s, e)) = Len(s) + 1
         /\ DOMAIN Append(s, e) = 1..(Len(s) + 1)
         /\ \A i \in 1..Len(s) : Append(s, e)[i] = s[i]
         /\ Append(s, e)[Len(s) + 1] = e
         /\ Range(Append(s, e)) = Range(s) \cup {e}
  <1>1. PICK S : S = Range(s)
    OBVIOUS
  <1>2. s \in Seq(S)
    BY <1>1 DEF Sequence
  <1>3. PICK n \in Nat : n = Len(s) /\ DOMAIN s = 1..n
    BY <1>2
  <1>4. PICK t : t = Append(s, e)
    OBVIOUS
  <1>5. s \in Seq(S \cup {e})
    BY <1>2
  <1>6. t \in Seq(S \cup {e}) /\ Len(t) = n + 1 /\ DOMAIN t = 1..(n + 1)
    BY <1>3, <1>4, <1>5
  <1>7. (\A i \in 1..n : t[i] = s[i]) /\ t[n + 1] = e
    BY <1>3, <1>4, <1>5
  <1>8. Range(t) = S \cup {e}
    <2>1. \A i \in 1..n : i \in 1..(n + 1)
      OBVIOUS
    <2>2. \A i \in 1..(n + 1) : i \in 1..n \/ i = n + 1
      OBVIOUS
    <2>3. n + 1 \in 1..(n + 1)
      OBVIOUS
    <2> QED
      BY <1>1, <1>3, <1>6, <1>7, <2>1, <2>2, <2>3 DEF Range
  <1> QED
    BY <1>3, <1>4, <1>6, <1>7, <1>8, <1>1 DEF Sequence

\* A benchmark stays the one at hand while only the pair of devices changes.
LEMMA SameBenchmark ==
  ASSUME cmd' = cmd, plan' = plan, inputs' = inputs, at'.bench = at.bench
  PROVE  /\ CmpBench' = CmpBench /\ RefPlace' = RefPlace /\ RefBench' = RefBench
         /\ FilterGroups' = FilterGroups /\ RefIds' = RefIds /\ CmpIds' = CmpIds
  BY DEF CmpBench, RefPlace, RefBench, FilterGroups, RefIds, CmpIds

\* Whatever FindFiles pairs, both are results or cannot be read.
LEMMA FilesAreResults ==
  ASSUME cmd \in Commands, Len(cmd.paths) = 2, FindFiles
  PROVE  FilesRead'
  <1>1. PICK ref : ref = cmd.paths[1]
    OBVIOUS
  <1>2. PICK cmp : cmp = cmd.paths[2]
    OBVIOUS
  <1>3. ResultPath(ref) /\ ResultPath(cmp)
    <2>1. DOMAIN cmd.paths = 1..Len(cmd.paths)
      BY CommandAssumption DEF Sequence
    <2>2. 1 \in DOMAIN cmd.paths /\ 2 \in DOMAIN cmd.paths
      BY <2>1
    <2> QED
      BY <1>1, <1>2, <2>2, CommandAssumption
  <1>4. CASE ref.dir /\ cmp.dir
    <2>1. PICK S : S = Files(ref) \cap Files(cmp)
      OBVIOUS
    <2>2. PICK order \in SetToSeqs(S) :
            todo' = [i \in DOMAIN order |-> <<ref.files[order[i]], cmp.files[order[i]]>>]
      BY <1>1, <1>2, <1>4, <2>1 DEF FindFiles
    <2>3. S \in SUBSET DOMAIN ref.files /\ IsFiniteSet(DOMAIN ref.files)
      BY <1>3, <1>4, <2>1 DEF Files, ResultPath
    <2>4. PICK n \in Nat : n = Cardinality(S)
      BY <2>3, FS_Subset, FS_CardinalityType
    <2>5. DOMAIN order = 1..n /\ \A i \in 1..n : order[i] \in S
      BY <2>2, <2>4 DEF SetToSeqs
    <2>6. \A f \in S : ResultFile(ref.files[f]) /\ ResultFile(cmp.files[f])
      BY <1>3, <1>4, <2>1 DEF Files, ResultPath, Present
    <2>7. DOMAIN todo' = 1..n /\ Len(todo') = n
      <3>1. todo' \in Seq({todo'[i] : i \in 1..n})
        BY <2>2, <2>5
      <3>2. DOMAIN todo' = 1..n
        BY <2>2, <2>5
      <3> QED
        BY <3>1, <3>2
    <2>8. \A i \in 1..n : todo'[i] = <<ref.files[order[i]], cmp.files[order[i]]>>
      BY <2>2, <2>5
    <2>9. \A i \in 1..n : ResultFile(todo'[i][1]) /\ ResultFile(todo'[i][2])
      BY <2>5, <2>6, <2>8
    <2>10. \A side \in 1..2 : side = 1 \/ side = 2
      OBVIOUS
    <2> QED
      BY <2>7, <2>9, <2>10 DEF FilesRead
  <1>5. CASE ~ (ref.dir /\ cmp.dir)
    <2>1. PICK r : r = IF ref.dir THEN Unreadable ELSE ref.content
      OBVIOUS
    <2>2. PICK c : c = IF cmp.dir THEN Unreadable ELSE cmp.content
      OBVIOUS
    <2>3. todo' = <<<<r, c>>>>
      BY <1>1, <1>2, <1>5, <2>1, <2>2 DEF FindFiles
    <2>4. ResultFile(r) /\ ResultFile(c)
      BY <1>3, <2>1, <2>2 DEF ResultPath, ResultFile
    <2>5. DOMAIN todo' = 1..1 /\ Len(todo') = 1 /\ todo'[1] = <<r, c>>
      BY <2>3
    <2>6. \A side \in 1..2 : side = 1 \/ side = 2
      OBVIOUS
    <2>7. \A i \in 1..1 : i = 1
      OBVIOUS
    <2> QED
      BY <2>4, <2>5, <2>6, <2>7 DEF FilesRead
  <1> QED
    BY <1>4, <1>5

\* The states of a device, in the order of the file
LEMMA DeviceStatesAscend ==
  ASSUME NEW states, Sequence(states), NEW device, NEW groups
  PROVE  LET places == DeviceStates(states, device, groups) IN
         /\ Ascending(places)
         /\ \A i \in Range(places) : i \in DOMAIN states /\ states[i].device = device
         /\ Range(places) = {i \in DOMAIN states : /\ states[i].device = device
                                                 /\ matches_axis_filter_groups(states[i], groups)}
  <1>1. PICK P : P = {i \in DOMAIN states : /\ states[i].device = device
                                           /\ matches_axis_filter_groups(states[i], groups)}
    OBVIOUS
  <1>2. PICK n \in Nat : DOMAIN states = 1..n
    BY DEF Sequence
  <1>3. IsFiniteSet(1..n)
    BY FS_Interval
  <1>4. P \in SUBSET (1..n) /\ P \in SUBSET Nat
    BY <1>1, <1>2
  <1>5. IsFiniteSet(P)
    BY <1>3, <1>4, FS_Subset
  <1>6. DeviceStates(states, device, groups) = InOrder(P)
    BY <1>1 DEF DeviceStates
  <1>7. Ascending(InOrder(P)) /\ Range(InOrder(P)) = P
    BY <1>4, <1>5, PlacesInOrder
  <1> QED
    BY <1>1, <1>6, <1>7

\* A counterpart is one of the reference's benchmarks.
LEMMA ReferenceIsOne ==
  ASSUME NEW needle, NEW haystack, Sequence(haystack),
         find_matching_bench(needle, haystack) # 0
  PROVE  /\ find_matching_bench(needle, haystack) \in DOMAIN haystack
         /\ haystack[find_matching_bench(needle, haystack)].name = needle.name
  <1>1. PICK same : same = {i \in DOMAIN haystack : haystack[i].name = needle.name}
    OBVIOUS
  <1>2. PICK n \in Nat : DOMAIN haystack = 1..n
    BY DEF Sequence
  <1>3. same \in SUBSET (1..n) /\ same \in SUBSET Nat
    BY <1>1, <1>2
  <1>4. IsFiniteSet(same)
    <2>1. IsFiniteSet(1..n)
      BY FS_Interval
    <2> QED
      BY <1>3, <2>1, FS_Subset
  <1>5. find_matching_bench(needle, haystack) = IF same = {} THEN 0 ELSE Min(same)
    BY <1>1 DEF find_matching_bench
  <1> QED
    BY <1>1, <1>3, <1>4, <1>5, LeastPlace

\* Both benchmarks at hand have states.
LEMMA BothHaveStates ==
  ASSUME Standing, pc \in {"section", "state"}
  PROVE  /\ Sequence(CmpBench.states) /\ Sequence(RefBench.states)
         /\ \A i \in DOMAIN CmpBench.states : ResultState(CmpBench.states[i])
         /\ \A i \in DOMAIN RefBench.states : ResultState(RefBench.states[i])
         /\ CmpBench = todo[at.file][2].benchmarks[at.bench]
         /\ RefBench = todo[at.file][1].benchmarks[
                         find_matching_bench(CmpBench, todo[at.file][1].benchmarks)]
         /\ at.file \in DOMAIN todo /\ RefBench.name = CmpBench.name
  <1>1. PICK ref : ref = todo[at.file][1]
    OBVIOUS
  <1>2. PICK cmp : cmp = todo[at.file][2]
    OBVIOUS
  <1>3. /\ at.file \in DOMAIN todo
        /\ ref # Unreadable /\ cmp # Unreadable
        /\ inputs.ref = ref.benchmarks /\ inputs.cmp = cmp.benchmarks
    BY <1>1, <1>2 DEF Standing, AtFile
  <1>4. ResultFile(ref) /\ ResultFile(cmp)
    BY <1>1, <1>2, <1>3 DEF Standing, FilesRead
  <1>5. /\ Sequence(ref.benchmarks)
        /\ \A b \in DOMAIN ref.benchmarks :
             /\ Sequence(ref.benchmarks[b].states)
             /\ \A i \in DOMAIN ref.benchmarks[b].states :
                  ResultState(ref.benchmarks[b].states[i])
    BY <1>3, <1>4 DEF ResultFile
  <1>6. \A b \in DOMAIN cmp.benchmarks :
          /\ Sequence(cmp.benchmarks[b].states)
          /\ \A i \in DOMAIN cmp.benchmarks[b].states :
               ResultState(cmp.benchmarks[b].states[i])
    BY <1>3, <1>4 DEF ResultFile
  <1>7. at.bench \in DOMAIN cmp.benchmarks /\ RefPlace # 0
    BY <1>3 DEF Standing, AtBench
  <1>8. CmpBench = cmp.benchmarks[at.bench]
    BY <1>3 DEF CmpBench
  <1>9. RefPlace = find_matching_bench(CmpBench, ref.benchmarks)
    BY <1>3 DEF RefPlace
  <1>10. RefPlace \in DOMAIN ref.benchmarks /\ ref.benchmarks[RefPlace].name = CmpBench.name
    BY <1>5, <1>7, <1>9, ReferenceIsOne
  <1>11. RefBench = ref.benchmarks[RefPlace]
    BY <1>3 DEF RefBench
  <1> QED
    BY <1>1, <1>2, <1>3, <1>5, <1>6, <1>7, <1>8, <1>9, <1>10, <1>11

\* The states of the section at hand
LEMMA SectionAscends ==
  ASSUME Standing, pc = "state"
  PROVE  /\ Ascending(section.cmp) /\ Ascending(section.ref)
         /\ \A i \in Range(section.cmp) : /\ i \in DOMAIN CmpBench.states
                                          /\ CmpBench.states[i].device = CmpIds[at.pair]
         /\ \A i \in Range(section.ref) : /\ i \in DOMAIN RefBench.states
                                          /\ RefBench.states[i].device = RefIds[at.pair]
  <1>1. Sequence(CmpBench.states) /\ Sequence(RefBench.states)
    BY BothHaveStates
  <1>2. /\ section.cmp = DeviceStates(CmpBench.states, CmpIds[at.pair], FilterGroups)
        /\ section.ref = DeviceStates(RefBench.states, RefIds[at.pair], FilterGroups)
    BY DEF Standing, AtSection
  <1> QED
    BY <1>1, <1>2, DeviceStatesAscend

LEMMA StandingInit == Init => Standing
  <1> SUFFICES ASSUME Init PROVE Standing
    OBVIOUS
  <1>1. DOMAIN todo = 1..0 /\ Len(todo) = 0
    BY DEF Init
  <1> QED
    BY <1>1 DEF Init, Standing, FilesRead, AtFile, AtBench, AtSection

\* The steps before and between benchmarks
LEMMA StandingOutside ==
  ASSUME Standing,
         CheckArguments \/ FindFiles \/ ReadInputs \/ SkipBenchmark \/ EndFile \/ Report
  PROVE  Standing'
  <1> USE DEF Standing
  <1>1. CASE CheckArguments
    <2>1. /\ UNCHANGED <<cmd, todo, at>>
          /\ pc' = "exited" \/ (pc' = "files" /\ Len(cmd.paths) = 2)
      BY <1>1 DEF CheckArguments, Exit, Goto
    <2> QED
      BY <2>1 DEF FilesRead, AtFile, AtBench, AtSection
  <1>2. CASE FindFiles
    <2>1. cmd' = cmd /\ at' = at /\ pc' \in {"exited", "read"} /\ pc = "files"
      BY <1>2 DEF FindFiles, Exit, Goto
    <2>2. FilesRead'
      BY <1>2, <2>1, FilesAreResults
    <2> QED
      BY <2>1, <2>2 DEF AtFile, AtBench, AtSection
  <1>3. CASE ReadInputs
    <2>1. /\ UNCHANGED <<cmd, todo>> /\ pc' \in {"exited", "bench"} /\ at.file < Len(todo)
          /\ at' = [file |-> at.file + 1, bench |-> 1, pair |-> 1]
      BY <1>3 DEF ReadInputs, Exit, Goto
    <2>2. FilesRead'
      BY <2>1 DEF FilesRead
    <2>3. at.file \in Nat
      BY DEF AtFile
    <2>4. at' \in [file : Nat, bench : Nat, pair : Nat]
      BY <2>1, <2>3
    <2>5. at'.file \in DOMAIN todo /\ at'.bench > 0
      BY <2>1, <2>3 DEF FilesRead
    <2>6. pc' = "bench" =>
            /\ Unreadable \notin {todo[at.file + 1][1], todo[at.file + 1][2]}
            /\ inputs'.ref = todo[at.file + 1][1].benchmarks
            /\ inputs'.cmp = todo[at.file + 1][2].benchmarks
      BY <1>3 DEF ReadInputs, Exit, Goto
    <2>7. \A side \in 1..2 : side = 1 \/ side = 2
      OBVIOUS
    <2>8. pc' = "bench" => \A side \in 1..2 : todo[at.file + 1][side] # Unreadable
      BY <2>6, <2>7
    <2>9. AtFile'
      BY <2>1, <2>4, <2>5, <2>6, <2>8 DEF AtFile
    <2> QED
      BY <2>1, <2>2, <2>9 DEF AtBench, AtSection
  <1>4. CASE SkipBenchmark
    <2>1. /\ UNCHANGED <<cmd, todo, inputs, pc>> /\ pc = "bench"
          /\ at' = [at EXCEPT !.bench = @ + 1]
      BY <1>4 DEF SkipBenchmark
    <2>2. /\ at \in [file : Nat, bench : Nat, pair : Nat]
          /\ at' \in [file : Nat, bench : Nat, pair : Nat]
          /\ at'.file = at.file /\ at'.bench = at.bench + 1 /\ at.bench > 0
      BY <2>1 DEF AtFile
    <2>3. AtFile'
      BY <2>1, <2>2 DEF AtFile
    <2> QED
      BY <2>1, <2>3 DEF FilesRead, AtBench, AtSection
  <1>5. CASE EndFile
    <2>1. /\ UNCHANGED <<cmd, todo, inputs, at>> /\ pc' \in {"report", "read", "exited"}
      BY <1>5 DEF EndFile, SavePlot, Exit, Goto
    <2> QED
      BY <2>1 DEF FilesRead, AtFile, AtBench, AtSection
  <1>6. CASE Report
    <2>1. /\ UNCHANGED <<cmd, todo, inputs, at>> /\ pc' = "exited"
      BY <1>6 DEF Report, Exit
    <2> QED
      BY <2>1 DEF FilesRead, AtFile, AtBench, AtSection
  <1> QED
    BY <1>1, <1>2, <1>3, <1>4, <1>5, <1>6

\* The steps within a benchmark
LEMMA StandingInside ==
  ASSUME Standing,
         StartBenchmark \/ StartSection \/ EndBenchmark \/ CompareState \/ EndSection
  PROVE  Standing'
  <1> USE DEF Standing
  <1>1. CASE StartBenchmark
    <2>1. /\ UNCHANGED <<cmd, plan, todo, inputs, at>> /\ pc = "bench"
          /\ at.bench <= Len(inputs.cmp) /\ RefPlace # 0
          /\ pc' = "exited" \/ (pc' = "section" /\ RefIds # Refused /\ CmpIds # Refused)
      BY <1>1 DEF StartBenchmark, Exit, Goto
    <2>2. at.bench \in DOMAIN inputs.cmp
      <3>1. PICK file : file = todo[at.file][2]
        OBVIOUS
      <3>2. ResultFile(file) /\ file # Unreadable /\ inputs.cmp = file.benchmarks
        BY <2>1, <3>1 DEF AtFile, FilesRead
      <3>3. DOMAIN inputs.cmp = 1..Len(inputs.cmp) /\ Len(inputs.cmp) \in Nat
        BY <3>2 DEF ResultFile, Sequence
      <3>4. at.bench \in Nat /\ at.bench > 0
        BY <2>1 DEF AtFile
      <3> QED
        BY <2>1, <3>3, <3>4
    <2>3. RefPlace' = RefPlace /\ RefIds' = RefIds /\ CmpIds' = CmpIds
      BY <2>1, SameBenchmark
    <2> QED
      BY <2>1, <2>2, <2>3 DEF FilesRead, AtFile, AtBench, AtSection
  <1>2. CASE StartSection
    <2>1. /\ UNCHANGED <<cmd, plan, todo, inputs, at>> /\ pc = "section"
          /\ pc' = "exited" \/ pc' = "state"
      BY <1>2 DEF StartSection, Exit, Goto
    <2>2. /\ CmpBench' = CmpBench /\ RefPlace' = RefPlace /\ RefBench' = RefBench
          /\ FilterGroups' = FilterGroups /\ RefIds' = RefIds /\ CmpIds' = CmpIds
      BY <2>1, SameBenchmark
    <2>3. PICK cmp : cmp = DeviceStates(CmpBench.states, CmpIds[at.pair], FilterGroups)
      OBVIOUS
    <2>4. PICK ref : ref = DeviceStates(RefBench.states, RefIds[at.pair], FilterGroups)
      OBVIOUS
    <2>5. pc' = "state" =>
            /\ section' = [ref |-> ref, cmp |-> cmp, next |-> 1, rows |-> <<>>, points |-> <<>>]
            /\ GroupsMatch(ref, cmp)
      BY <1>2, <2>3, <2>4 DEF StartSection, Exit, Goto
    <2>6. Len(cmp) \in Nat
      <3>1. Sequence(CmpBench.states)
        BY <2>1, BothHaveStates
      <3>2. Ascending(cmp)
        BY <2>3, <3>1, DeviceStatesAscend
      <3> QED
        BY <3>2, RangeOfPlaces
    <2>7. Sequence(<<>>)
      BY DEF Sequence
    <2>8. GroupsMatch(ref, cmp)' <=> GroupsMatch(ref, cmp)
      BY <2>2 DEF GroupsMatch
    <2>9. AtSection'
      BY <2>1, <2>2, <2>3, <2>4, <2>5, <2>6, <2>7, <2>8 DEF AtSection, GroupsMatch
    <2> QED
      BY <2>1, <2>2, <2>9 DEF FilesRead, AtFile, AtBench
  <1>3. CASE EndBenchmark
    <2>1. /\ UNCHANGED <<cmd, todo, inputs>> /\ pc = "section" /\ pc' = "bench"
          /\ at' = [at EXCEPT !.bench = @ + 1, !.pair = 1]
      BY <1>3 DEF EndBenchmark, Goto
    <2>2. at \in [file : Nat, bench : Nat, pair : Nat]
      BY DEF AtFile
    <2>3. at' = [file |-> at.file, bench |-> at.bench + 1, pair |-> 1]
      BY <2>1, <2>2
    <2>4. AtFile'
      BY <2>1, <2>2, <2>3 DEF AtFile
    <2> QED
      BY <2>1, <2>4 DEF FilesRead, AtBench, AtSection
  <1>4. CASE CompareState
    <2>1. /\ UNCHANGED <<cmd, plan, todo, inputs, at>> /\ pc = "state"
          /\ section.next <= Len(section.cmp)
          /\ Judge(DecisionOf(RefBench.states[PairedPlace], CmpState),
                   Centers(RefBench.states[PairedPlace], CmpState))
      BY <1>4 DEF CompareState
    <2>2. /\ CmpBench' = CmpBench /\ RefPlace' = RefPlace /\ RefBench' = RefBench
          /\ FilterGroups' = FilterGroups /\ RefIds' = RefIds /\ CmpIds' = CmpIds
      BY <2>1, SameBenchmark
    <2>3. PICK centers : centers = Centers(RefBench.states[PairedPlace], CmpState)
      OBVIOUS
    <2>4. PICK judged : judged = DecisionOf(RefBench.states[PairedPlace], CmpState)
      OBVIOUS
    <2>5. CASE RefusePoint
      <3>1. pc' = "exited"
        BY <2>5 DEF RefusePoint, Exit
      <3> QED
        BY <2>1, <3>1 DEF FilesRead, AtFile, AtBench, AtSection
    <2>6. CASE RecordState(judged, centers, Shown(judged.status, centers))
      <3>1. PICK shown : shown = Shown(judged.status, centers)
        OBVIOUS
      <3>2. RecordState(judged, centers, shown)
        BY <2>6, <3>1
      <3>3. pc' = "state"
        BY <3>2 DEF RecordState, Goto
      <3>4. PICK rows : rows = IF shown THEN Append(section.rows, CmpPlace) ELSE section.rows
        OBVIOUS
      <3>5. PICK points : points =
              IF PlotsPoint(centers)
              THEN Append(section.points,
                          <<format_plot_series_key, CmpState.axes[cmd.plot_along]>>)
              ELSE section.points
        OBVIOUS
      <3>6. section' = [section EXCEPT !.next = @ + 1, !.rows = rows, !.points = points]
        BY <3>2, <3>4, <3>5 DEF RecordState
      <3>7. section' = [ref |-> section.ref, cmp |-> section.cmp, next |-> section.next + 1,
                        rows |-> rows, points |-> points]
        BY <2>1, <3>6 DEF AtSection
      <3>8. Sequence(rows) /\ Sequence(points)
        BY <2>1, <3>4, <3>5, Appended DEF AtSection
      <3>9. /\ section.next \in Nat \ {0} /\ section.next + 1 <= Len(section.cmp) + 1
        <4>1. section.next \in Nat \ {0}
          BY <2>1 DEF AtSection
        <4>2. Len(section.cmp) \in Nat
          BY <2>1, SectionAscends, RangeOfPlaces
        <4> QED
          BY <2>1, <4>1, <4>2
      <3>10. AtSection'
        BY <2>1, <2>2, <3>7, <3>8, <3>9 DEF AtSection, GroupsMatch
      <3> QED
        BY <2>1, <2>2, <3>3, <3>10 DEF FilesRead, AtFile, AtBench
    <2> QED
      BY <2>1, <2>3, <2>4, <2>5, <2>6 DEF Judge
  <1>5. CASE EndSection
    <2>1. /\ UNCHANGED <<cmd, plan, todo, inputs>> /\ pc = "state"
          /\ at' = [at EXCEPT !.pair = @ + 1]
          /\ pc' \in {"exited", "section"}
      BY <1>5 DEF EndSection, SavePlot, Exit, Goto
    <2>2. at \in [file : Nat, bench : Nat, pair : Nat]
      BY DEF AtFile
    <2>3. at' = [file |-> at.file, bench |-> at.bench, pair |-> at.pair + 1]
      BY <2>1, <2>2
    <2>4. RefPlace' = RefPlace /\ RefIds' = RefIds /\ CmpIds' = CmpIds
      BY <2>1, <2>3, SameBenchmark
    <2>5. AtFile'
      BY <2>1, <2>2, <2>3 DEF AtFile
    <2> QED
      BY <2>1, <2>3, <2>4, <2>5 DEF FilesRead, AtBench, AtSection
  <1> QED
    BY <1>1, <1>2, <1>3, <1>4, <1>5

LEMMA StandingStep == Standing /\ [Next]_vars => Standing'
  <1> SUFFICES ASSUME Standing, [Next]_vars PROVE Standing'
    OBVIOUS
  <1>1. CASE UNCHANGED vars
    <2>1. UNCHANGED <<cmd, pc, plan, todo, inputs, at, section>>
      BY <1>1 DEF vars
    <2>2. /\ CmpBench' = CmpBench /\ RefPlace' = RefPlace /\ RefBench' = RefBench
          /\ FilterGroups' = FilterGroups /\ RefIds' = RefIds /\ CmpIds' = CmpIds
      BY <2>1, SameBenchmark
    <2> QED
      BY <2>1, <2>2 DEF Standing, FilesRead, AtFile, AtBench, AtSection, GroupsMatch
  <1>2. CASE Terminating
    BY <1>1, <1>2 DEF Terminating
  <1> QED
    BY <1>1, <1>2, StandingOutside, StandingInside DEF Next

-----------------------------------------------------------------------------
(* Comparisons *)

\* A place of the loops before another one
Before(p, q) ==
  \/ p.file < q.file
  \/ p.file = q.file /\ p.bench < q.bench
  \/ p.file = q.file /\ p.bench = q.bench /\ p.pair < q.pair

Working == pc \in {"read", "bench", "section", "state"}

\* What PairedWithItsCounterpart says of the i-th comparison
Paired(i) ==
  LET c == compared[i]
      files == todo[c.at.file]
      mine == files[2].benchmarks[c.at.bench]
      theirs == files[1].benchmarks[find_matching_bench(mine, files[1].benchmarks)]
      s == mine.states[c.cmp]  r == theirs.states[c.ref]
  IN /\ s.axes = r.axes /\ s.name.rest = r.name.rest
     /\ s.device = AskedDevices(mine, cmd.compare_devices)[c.at.pair]
     /\ r.device = AskedDevices(theirs, cmd.reference_devices)[c.at.pair]
     /\ \A j \in 1..(i - 1) :
          LET d == compared[j] IN
            (d.at = c.at /\ mine.states[d.cmp] = s /\ theirs.states[d.ref] = r) => d.ref < c.ref

CounterpartAt(j) ==
  CounterpartOf(RefBench.states, section.ref, CmpBench.states, section.cmp, j)

\* A comparison of the section at hand is that of a state the loop has passed.
OfThisSection(c) ==
  /\ pc = "state" /\ c.at = at
  /\ \E j \in 1..(section.next - 1) : c.cmp = section.cmp[j] /\ c.ref = CounterpartAt(j)

ComparedSoFar ==
  /\ Sequence(compared)
  /\ \A i \in DOMAIN compared :
       /\ compared[i].at \in [file : Nat, bench : Nat, pair : Nat]
       /\ Paired(i)
  /\ Working => \A i \in DOMAIN compared :
                  Before(compared[i].at, at) \/ OfThisSection(compared[i])
  /\ pc \in {"arguments", "files"} => compared = <<>>

\* The state at hand, by its place in the section
LEMMA StateAtHand ==
  ASSUME Standing, pc = "state", section.next <= Len(section.cmp)
  PROVE  /\ section.next \in DOMAIN section.cmp /\ section.next \in Nat
         /\ CmpPlace = section.cmp[section.next]
         /\ CmpKey = KeyAt(CmpBench.states, section.cmp, section.next)
         /\ Occurrence = OccurrenceAt(CmpBench.states, section.cmp, section.next)
         /\ PairedPlace = CounterpartAt(section.next)
         /\ OccurrenceCount = Cardinality(OfKey(CmpBench.states, section.cmp, CmpKey))
         /\ CmpState = CmpBench.states[CmpPlace]
         /\ CmpPlace \in Range(section.cmp)
  <1>1. Ascending(section.cmp)
    BY SectionAscends
  <1>2. section.next \in DOMAIN section.cmp /\ section.next \in Nat
    BY <1>1, RangeOfPlaces DEF Standing, AtSection
  <1>3. CmpKey = KeyAt(CmpBench.states, section.cmp, section.next)
    BY DEF CmpKey, KeyAt, CmpState, CmpPlace
  <1>4. Occurrence = OccurrenceAt(CmpBench.states, section.cmp, section.next)
    BY <1>3 DEF Occurrence, OccurrenceAt, KeyAt
  <1>5. PairedPlace = CounterpartAt(section.next)
    BY <1>3, <1>4 DEF PairedPlace, CounterpartAt, CounterpartOf
  <1>6. OccurrenceCount = Cardinality(OfKey(CmpBench.states, section.cmp, CmpKey))
    BY <1>1, GroupOfKey DEF OccurrenceCount
  <1>7. CmpPlace \in Range(section.cmp)
    BY <1>2 DEF CmpPlace, Range
  <1> QED
    BY <1>2, <1>3, <1>4, <1>5, <1>6, <1>7 DEF CmpState, CmpPlace

\* Two states of the section with a key: names without the device, and axes
LEMMA KeysSay ==
  ASSUME NEW s, ResultState(s), NEW r, ResultState(r),
         state_comparison_key(s) = state_comparison_key(r)
  PROVE  s.axes = r.axes /\ s.name.rest = r.name.rest
  <1>1. state_match_key(s) = state_match_key(r) /\ s.axes = r.axes
    BY DEF state_comparison_key
  <1>2. ASSUME NEW x, ResultState(x)
        PROVE  state_match_key(x).rest = x.name.rest
    <2>1. x.name = [prefix |-> x.name.prefix, rest |-> x.name.rest]
      BY <1>2 DEF ResultState
    <2>2. [x.name EXCEPT !.prefix = None].rest = x.name.rest
      BY <2>1
    <2> QED
      BY <2>2 DEF state_match_key
  <1> QED
    BY <1>1, <1>2

\* A comparison that is appended is that of a state with its counterpart.
LEMMA ComparesCounterparts ==
  ASSUME Standing, ComparedSoFar, pc = "state", section.next <= Len(section.cmp),
         NEW status, NEW shown, UNCHANGED <<cmd, todo>>,
         compared' = Append(compared, [at |-> at, ref |-> PairedPlace, cmp |-> CmpPlace,
                                       status |-> status, shown |-> shown])
  PROVE  \A i \in DOMAIN compared' : Paired(i)'
  <1>1. PICK mine : mine = CmpBench
    OBVIOUS
  <1>2. PICK theirs : theirs = RefBench
    OBVIOUS
  <1>3. /\ mine = todo[at.file][2].benchmarks[at.bench]
        /\ theirs = todo[at.file][1].benchmarks[
                      find_matching_bench(mine, todo[at.file][1].benchmarks)]
        /\ \A i \in DOMAIN mine.states : ResultState(mine.states[i])
        /\ \A i \in DOMAIN theirs.states : ResultState(theirs.states[i])
    BY <1>1, <1>2, BothHaveStates
  <1>4. PICK n \in Nat : n = Len(compared)
    BY Appended DEF ComparedSoFar
  <1>5. /\ DOMAIN compared = 1..n /\ DOMAIN compared' = 1..(n + 1)
        /\ \A i \in 1..n : compared'[i] = compared[i]
        /\ compared'[n + 1] = [at |-> at, ref |-> PairedPlace, cmp |-> CmpPlace,
                               status |-> status, shown |-> shown]
    BY <1>4, Appended DEF ComparedSoFar
  <1>6. PICK k \in Nat : k = section.next /\ k \in DOMAIN section.cmp
    BY StateAtHand
  <1>7. PICK s : s = mine.states[CmpPlace]
    OBVIOUS
  <1>8. PICK r : r = theirs.states[PairedPlace]
    OBVIOUS
  <1>9. /\ Ascending(section.cmp) /\ Ascending(section.ref)
        /\ SameGroups(theirs.states, section.ref, mine.states, section.cmp)
    BY <1>1, <1>2, SectionAscends DEF Standing, AtSection, GroupsMatch
  <1>10. /\ CmpPlace = section.cmp[k] /\ CmpPlace \in Range(section.cmp)
         /\ PairedPlace = CounterpartOf(theirs.states, section.ref, mine.states, section.cmp, k)
    BY <1>1, <1>2, <1>6, StateAtHand DEF CounterpartAt
  <1>11. /\ PairedPlace \in Range(section.ref)
         /\ state_comparison_key(r) = KeyAt(mine.states, section.cmp, k)
         /\ \A j \in DOMAIN section.cmp :
              (j < k /\ KeyAt(mine.states, section.cmp, j) = KeyAt(mine.states, section.cmp, k))
                => CounterpartOf(theirs.states, section.ref, mine.states, section.cmp, j)
                     < PairedPlace
    BY <1>6, <1>8, <1>9, <1>10, Counterparts
  <1>12. state_comparison_key(s) = KeyAt(mine.states, section.cmp, k)
    BY <1>7, <1>10 DEF KeyAt
  <1>13. /\ CmpPlace \in DOMAIN mine.states /\ s.device = CmpIds[at.pair]
         /\ PairedPlace \in DOMAIN theirs.states /\ r.device = RefIds[at.pair]
    BY <1>1, <1>2, <1>7, <1>8, <1>10, <1>11, SectionAscends
  <1>14. s.axes = r.axes /\ s.name.rest = r.name.rest
    <2>1. ResultState(s) /\ ResultState(r)
      BY <1>3, <1>7, <1>8, <1>13
    <2>2. state_comparison_key(s) = state_comparison_key(r)
      BY <1>11, <1>12
    <2> QED
      BY <2>1, <2>2, KeysSay
  <1>15. /\ CmpIds = AskedDevices(mine, cmd.compare_devices)
         /\ RefIds = AskedDevices(theirs, cmd.reference_devices)
    BY <1>1, <1>2 DEF Standing, AtBench, CmpIds, RefIds, resolve_benchmark_device_ids,
                      AskedDevices
  <1>16. ASSUME NEW j \in 1..n, compared[j].at = at,
                mine.states[compared[j].cmp] = s
         PROVE  compared[j].ref < PairedPlace
    <2>1. compared[j].at \in [file : Nat, bench : Nat, pair : Nat]
      BY <1>5 DEF ComparedSoFar
    <2>2. ~ Before(compared[j].at, at)
      BY <1>16, <2>1 DEF Before
    <2>3. OfThisSection(compared[j])
      BY <1>5, <2>2 DEF ComparedSoFar, Working
    <2>4. PICK l \in 1..(section.next - 1) :
            /\ compared[j].cmp = section.cmp[l]
            /\ compared[j].ref = CounterpartOf(theirs.states, section.ref, mine.states,
                                               section.cmp, l)
      BY <1>1, <1>2, <2>3 DEF OfThisSection, CounterpartAt
    <2>5. l \in DOMAIN section.cmp /\ l < k
      <3>1. PICK m \in Nat : m = Len(section.cmp) /\ DOMAIN section.cmp = 1..m
        BY <1>9, RangeOfPlaces
      <3> QED
        BY <1>6, <2>4, <3>1
    <2>6. KeyAt(mine.states, section.cmp, l) = KeyAt(mine.states, section.cmp, k)
      BY <1>12, <1>16, <2>4 DEF KeyAt
    <2> QED
      BY <1>11, <2>4, <2>5, <2>6
  <1>17. Paired(n + 1)'
    <2>1. PICK c : c = compared'[n + 1]
      OBVIOUS
    <2>2. c.at = at /\ c.ref = PairedPlace /\ c.cmp = CmpPlace
      BY <1>5, <2>1
    <2>3. \A j \in 1..((n + 1) - 1) : j \in 1..n /\ compared'[j] = compared[j]
      BY <1>5
    <2> QED
      BY <1>3, <1>7, <1>8, <1>13, <1>14, <1>15, <1>16, <2>1, <2>2, <2>3 DEF Paired
  <1>18. ASSUME NEW i \in 1..n
         PROVE  Paired(i)'
    <2>1. Paired(i)
      BY <1>5 DEF ComparedSoFar
    <2>2. \A j \in 1..(i - 1) : compared'[j] = compared[j]
      BY <1>5
    <2>3. compared'[i] = compared[i]
      BY <1>5
    <2> QED
      BY <2>1, <2>2, <2>3 DEF Paired
  <1>19. \A i \in 1..(n + 1) : i \in 1..n \/ i = n + 1
    OBVIOUS
  <1> QED
    BY <1>5, <1>17, <1>18, <1>19

\* Nothing is compared anywhere else.
LEMMA ComparedElsewhere ==
  ASSUME Standing, ComparedSoFar, UNCHANGED <<cmd, compared>>,
         compared = <<>> \/ UNCHANGED todo,
         pc' \in {"arguments", "files"} => compared = <<>>,
         Working' => \A i \in DOMAIN compared :
                       Before(compared[i].at, at') \/ OfThisSection(compared[i])'
  PROVE  ComparedSoFar'
  <1>1. DOMAIN <<>> = {}
    OBVIOUS
  <1>2. \A i \in DOMAIN compared : Paired(i)' <=> Paired(i)
    <2>1. CASE compared = <<>>
      BY <1>1, <2>1
    <2>2. CASE UNCHANGED todo
      BY <2>2 DEF Paired
    <2> QED
      BY <2>1, <2>2
  <1> QED
    BY <1>2 DEF ComparedSoFar, Before

LEMMA BeforeIsTransitive ==
  ASSUME NEW p \in [file : Nat, bench : Nat, pair : Nat],
         NEW q \in [file : Nat, bench : Nat, pair : Nat],
         NEW r \in [file : Nat, bench : Nat, pair : Nat],
         Before(p, q) \/ p = q, Before(q, r)
  PROVE  Before(p, r)
  BY DEF Before

\* Only a state adds a comparison, and the loops never come back to a place.
LEMMA ComparedStep ==
  ASSUME Standing, Standing', ComparedSoFar, [Next]_vars
  PROVE  ComparedSoFar'
  <1> DEFINE Behind == \A i \in DOMAIN compared :
                         Before(compared[i].at, at') \/ OfThisSection(compared[i])'
  <1>1. at \in [file : Nat, bench : Nat, pair : Nat]
    BY DEF Standing, AtFile
  <1>2. at' \in [file : Nat, bench : Nat, pair : Nat]
    BY DEF Standing, AtFile
  <1>3. \A i \in DOMAIN compared : compared[i].at \in [file : Nat, bench : Nat, pair : Nat]
    BY DEF ComparedSoFar
  <1>4. ASSUME Working, Before(at, at')
        PROVE  Behind
    <2>1. \A i \in DOMAIN compared : Before(compared[i].at, at) \/ compared[i].at = at
      BY <1>4 DEF ComparedSoFar, OfThisSection
    <2> QED
      BY <1>1, <1>2, <1>3, <1>4, <2>1, BeforeIsTransitive
  <1>5. ASSUME pc \in {"read", "bench", "section"}, at' = at
        PROVE  Behind
    BY <1>5 DEF ComparedSoFar, Working, OfThisSection
  <1>6. ASSUME compared = <<>>
        PROVE  Behind
    BY <1>6
  <1> HIDE DEF Behind
  <1>7. ASSUME UNCHANGED <<cmd, compared>>, compared = <<>> \/ UNCHANGED todo,
               pc' \in {"arguments", "files"} => compared = <<>>, Working' => Behind
        PROVE  ComparedSoFar'
    BY <1>7, ComparedElsewhere DEF Behind
  <1>8. CASE UNCHANGED vars
    <2>1. UNCHANGED <<cmd, pc, plan, todo, inputs, at, section, compared>>
      BY <1>8 DEF vars
    <2>2. CmpBench' = CmpBench /\ RefBench' = RefBench
      BY <2>1, SameBenchmark
    <2>3. Working => Behind
      BY <2>1, <2>2 DEF Behind, ComparedSoFar, Working, OfThisSection, CounterpartAt
    <2> QED
      BY <1>7, <2>1, <2>3 DEF Working, ComparedSoFar
  <1>9. CASE CheckArguments
    <2>1. UNCHANGED <<cmd, todo, compared>> /\ pc = "arguments" /\ ~ Working'
      BY <1>9 DEF CheckArguments, Exit, Goto, Results, Working
    <2> QED
      BY <1>7, <2>1 DEF ComparedSoFar
  <1>10. CASE FindFiles
    <2>1. UNCHANGED <<cmd, compared>> /\ pc = "files"
      BY <1>10 DEF FindFiles, Results
    <2> QED
      BY <1>6, <1>7, <2>1 DEF ComparedSoFar
  <1>11. CASE ReadInputs
    <2>1. /\ UNCHANGED <<cmd, todo, compared>> /\ pc = "read" /\ pc' \in {"exited", "bench"}
          /\ at' = [file |-> at.file + 1, bench |-> 1, pair |-> 1]
      BY <1>11 DEF ReadInputs, Exit, Goto
    <2>2. Before(at, at')
      BY <1>1, <2>1 DEF Before
    <2> QED
      BY <1>4, <1>7, <2>1, <2>2 DEF Working
  <1>12. CASE SkipBenchmark
    <2>1. /\ UNCHANGED <<cmd, todo, compared, pc>> /\ pc = "bench"
          /\ at' = [at EXCEPT !.bench = @ + 1]
      BY <1>12 DEF SkipBenchmark, Results
    <2>2. Before(at, at')
      BY <1>1, <2>1 DEF Before
    <2> QED
      BY <1>4, <1>7, <2>1, <2>2 DEF Working
  <1>13. CASE StartBenchmark \/ StartSection
    <2>1. /\ UNCHANGED <<cmd, todo, compared, at>> /\ pc \in {"bench", "section"}
          /\ pc' \in {"exited", "section", "state"}
      BY <1>13 DEF StartBenchmark, StartSection, Results, Exit, Goto
    <2> QED
      BY <1>5, <1>7, <2>1
  <1>14. CASE EndBenchmark
    <2>1. /\ UNCHANGED <<cmd, todo, compared>> /\ pc = "section" /\ pc' = "bench"
          /\ at' = [at EXCEPT !.bench = @ + 1, !.pair = 1]
      BY <1>14 DEF EndBenchmark, Results, Goto
    <2>2. Before(at, at')
      BY <1>1, <2>1 DEF Before
    <2> QED
      BY <1>4, <1>7, <2>1, <2>2 DEF Working
  <1>15. CASE EndSection
    <2>1. /\ UNCHANGED <<cmd, todo, compared>> /\ pc = "state" /\ pc' \in {"section", "exited"}
          /\ at' = [at EXCEPT !.pair = @ + 1]
      BY <1>15 DEF EndSection, SavePlot, Exit, Goto
    <2>2. Before(at, at')
      BY <1>1, <2>1 DEF Before
    <2> QED
      BY <1>4, <1>7, <2>1, <2>2 DEF Working
  <1>16. CASE EndFile \/ Report
    <2>1. /\ UNCHANGED <<cmd, todo, compared, at>> /\ pc \in {"bench", "report"}
          /\ pc' \in {"read", "report", "exited"} /\ (pc = "report" => pc' = "exited")
      BY <1>16 DEF EndFile, SavePlot, Report, Results, Exit, Goto
    <2> QED
      BY <1>5, <1>7, <2>1 DEF Working
  <1>17. CASE CompareState
    <2>1. /\ UNCHANGED <<cmd, plan, todo, inputs, at>> /\ pc = "state"
          /\ section.next <= Len(section.cmp)
          /\ Judge(DecisionOf(RefBench.states[PairedPlace], CmpState),
                   Centers(RefBench.states[PairedPlace], CmpState))
      BY <1>17 DEF CompareState
    <2>2. PICK centers : centers = Centers(RefBench.states[PairedPlace], CmpState)
      OBVIOUS
    <2>3. PICK judged : judged = DecisionOf(RefBench.states[PairedPlace], CmpState)
      OBVIOUS
    <2>4. CASE RefusePoint
      <3>1. pc' = "exited" /\ UNCHANGED compared
        BY <2>4 DEF RefusePoint, Exit
      <3> QED
        BY <1>7, <2>1, <3>1 DEF Working
    <2>5. CASE RecordState(judged, centers, Shown(judged.status, centers))
      <3>1. PICK shown : shown = Shown(judged.status, centers)
        OBVIOUS
      <3>2. RecordState(judged, centers, shown)
        BY <2>5, <3>1
      <3>3. PICK c : c = [at |-> at, ref |-> PairedPlace, cmp |-> CmpPlace,
                          status |-> judged.status, shown |-> shown]
        OBVIOUS
      <3>4. compared' = Append(compared, c) /\ pc' = "state"
        BY <3>2, <3>3 DEF RecordState, Goto
      <3>5. \A i \in DOMAIN compared' : Paired(i)'
        BY <2>1, <3>3, <3>4, ComparesCounterparts
      <3>6. PICK n \in Nat : n = Len(compared)
        BY Appended DEF ComparedSoFar
      <3>7. /\ DOMAIN compared = 1..n /\ DOMAIN compared' = 1..(n + 1) /\ Sequence(compared')
            /\ \A i \in 1..n : compared'[i] = compared[i]
            /\ compared'[n + 1] = c
        BY <3>4, <3>6, Appended DEF ComparedSoFar
      <3>8. /\ section'.next = section.next + 1
            /\ section'.cmp = section.cmp /\ section'.ref = section.ref
        BY <2>1, <3>2 DEF RecordState, Standing, AtSection
      <3>9. CmpBench' = CmpBench /\ RefBench' = RefBench
        BY <2>1, SameBenchmark
      <3>10. /\ CmpBench'.states = CmpBench.states /\ RefBench'.states = RefBench.states
             /\ section'.cmp = section.cmp /\ section'.ref = section.ref
        BY <3>8, <3>9
      <3>11. section.next \in Nat \ {0}
        BY <2>1 DEF Standing, AtSection
      <3>12. \A j \in 1..(section.next - 1) : j \in 1..(section'.next - 1)
        BY <3>8, <3>11
      <3>13. section.next \in 1..(section'.next - 1)
        BY <3>8, <3>11
      <3>14. OfThisSection(c)'
        <4>1. /\ CmpPlace = section.cmp[section.next]
              /\ PairedPlace = CounterpartOf(RefBench.states, section.ref,
                                             CmpBench.states, section.cmp, section.next)
          BY <2>1, StateAtHand DEF CounterpartAt
        <4>2. PICK k : k = section.next
          OBVIOUS
        <4>3. /\ c.at = at' /\ k \in 1..(section'.next - 1) /\ c.cmp = section'.cmp[k]
              /\ c.ref = CounterpartOf(RefBench'.states, section'.ref,
                                       CmpBench'.states, section'.cmp, k)
          BY <2>1, <3>3, <3>10, <3>13, <4>1, <4>2
        <4> QED
          BY <3>4, <4>3 DEF OfThisSection, CounterpartAt
      <3>15. \A i \in 1..n : Before(compared[i].at, at) \/ OfThisSection(compared[i])
        BY <2>1, <3>7 DEF ComparedSoFar, Working
      <3>16. ASSUME NEW d, OfThisSection(d)
             PROVE  OfThisSection(d)'
        <4>1. PICK j \in 1..(section.next - 1) :
                /\ d.cmp = section.cmp[j]
                /\ d.ref = CounterpartOf(RefBench.states, section.ref,
                                         CmpBench.states, section.cmp, j)
          BY <3>16 DEF OfThisSection, CounterpartAt
        <4>2. /\ d.at = at' /\ j \in 1..(section'.next - 1) /\ d.cmp = section'.cmp[j]
              /\ d.ref = CounterpartOf(RefBench'.states, section'.ref,
                                       CmpBench'.states, section'.cmp, j)
          BY <2>1, <3>10, <3>12, <3>16, <4>1 DEF OfThisSection
        <4> QED
          BY <3>4, <4>2 DEF OfThisSection, CounterpartAt
      <3>17. \A i \in 1..(n + 1) : i \in 1..n \/ i = n + 1
        OBVIOUS
      <3>18. ASSUME NEW i \in 1..(n + 1)
             PROVE  Before(compared'[i].at, at') \/ OfThisSection(compared[i])'
        <4>1. CASE i \in 1..n
          <5>1. PICK d : d = compared[i] /\ d = compared'[i]
            BY <3>7, <4>1
          <5>2. Before(d.at, at') \/ OfThisSection(d)
            BY <2>1, <3>15, <4>1, <5>1
          <5>3. Before(d.at, at') \/ OfThisSection(d)'
            BY <3>16, <5>2
          <5> QED
            BY <5>1, <5>3 DEF OfThisSection
        <4>2. CASE i = n + 1
          <5>1. compared'[i] = c
            BY <3>7, <4>2
          <5> QED
            BY <3>14, <5>1 DEF OfThisSection
        <4> QED
          BY <3>17, <4>1, <4>2
      <3>19. \A i \in 1..(n + 1) : compared'[i].at \in [file : Nat, bench : Nat, pair : Nat]
        <4>1. c.at = at
          BY <3>3
        <4> QED
          BY <1>1, <1>3, <3>7, <3>17, <4>1
      <3> QED
        BY <3>4, <3>5, <3>7, <3>18, <3>19 DEF ComparedSoFar
    <2> QED
      BY <2>1, <2>2, <2>3, <2>4, <2>5 DEF Judge
  <1>18. CASE Terminating
    BY <1>8, <1>18 DEF Terminating
  <1> QED
    BY <1>8, <1>9, <1>10, <1>11, <1>12, <1>13, <1>14, <1>15, <1>16, <1>17, <1>18 DEF Next


LEMMA ComparedInit ==
  ASSUME Init
  PROVE  ComparedSoFar
  <1>1. DOMAIN <<>> = {}
    OBVIOUS
  <1>2. Sequence(<<>>)
    BY DEF Sequence
  <1> QED
    BY <1>1, <1>2 DEF Init, ComparedSoFar, Working

\* Main's loops only ever compare the states of a benchmark, its counterpart and
\* a pair of devices that belong together, and have compared what they passed.
THEOREM StandingAlways == Spec => [](Standing /\ ComparedSoFar)
  <1>1. Init => Standing /\ ComparedSoFar
    BY StandingInit, ComparedInit
  <1>2. Standing /\ ComparedSoFar /\ [Next]_vars => (Standing /\ ComparedSoFar)'
    <2> SUFFICES ASSUME Standing, ComparedSoFar, [Next]_vars
                 PROVE  Standing' /\ ComparedSoFar'
      OBVIOUS
    <2>1. Standing'
      BY StandingStep
    <2> QED
      BY <2>1, ComparedStep
  <1> QED
    BY <1>1, <1>2, PTL DEF Spec

\* Two states are compared only when they measured the same thing: same axis
\* values, same name but for the device, devices of the same position, and among
\* equal ones the n-th with the n-th (compare_benches).
THEOREM CounterpartsAreCompared == Spec => []PairedWithItsCounterpart
  <1>1. ComparedSoFar => PairedWithItsCounterpart
    BY DEF ComparedSoFar, Paired, PairedWithItsCounterpart
  <1> QED
    BY <1>1, StandingAlways, PTL

-----------------------------------------------------------------------------
(* Plots *)

\* A plot is known by its path before it is written.
PlotsWritten ==
  /\ IsFiniteSet(output_paths)
  /\ Sequence(saved) /\ IsInjective(saved) /\ Range(saved) \subseteq output_paths
  /\ \A path \in Range(saved) : Len(path) > 1 => path \notin cmd.existing

\* There is a copy number that is not taken, so the output is a new one.
LEMMA OutputIsNew ==
  ASSUME cmd \in Commands, NEW path, path = <<path[1]>>, NEW used, IsFiniteSet(used)
  PROVE  /\ resolve_plot_output_path(path, used) \notin used
         /\ Len(resolve_plot_output_path(path, used)) > 1
              => resolve_plot_output_path(path, used) \notin cmd.existing
  <1>1. PICK output : output = resolve_plot_output_path(path, used)
    OBVIOUS
  <1>2. CASE path \notin used
    <2>1. output = path
      BY <1>1, <1>2 DEF resolve_plot_output_path
    <2>2. Len(path) = 1
      <3>1. PICK name : name = path[1]
        OBVIOUS
      <3>2. path = <<name>>
        BY <3>1
      <3> QED
        BY <3>2
    <2> QED
      BY <1>1, <1>2, <2>1, <2>2
  <1>3. CASE path \in used
    <2>1. PICK name : path = <<name>>
      OBVIOUS
    <2>2. PICK taken : taken = used \cup cmd.existing
      OBVIOUS
    <2>3. IsFiniteSet(taken)
      BY <2>2, CommandAssumption, FS_Union
    <2>4. PICK size \in Nat : size = Cardinality(taken)
      BY <2>3, FS_CardinalityType
    <2>5. PICK free : free = {n \in 1..(size + 1) : Append(path, n) \notin taken}
      OBVIOUS
    <2>6. output = Append(path, Min(free))
      BY <1>1, <1>3, <2>2, <2>4, <2>5 DEF resolve_plot_output_path
    <2>7. free # {}
      <3> SUFFICES ASSUME free = {}
                   PROVE  FALSE
        OBVIOUS
      <3>1. \A n \in 1..(size + 1) : Append(path, n) \in taken
        BY <2>5
      <3>2. \A n : Append(path, n)[2] = n
        BY <2>1
      <3>3. PICK copy : copy = [n \in 1..(size + 1) |-> Append(path, n)]
        OBVIOUS
      <3>4. copy \in Injection(1..(size + 1), taken)
        <4>1. \A n, m \in 1..(size + 1) : copy[n] = copy[m] => n = m
          BY <3>2, <3>3
        <4> QED
          BY <3>1, <3>3, <4>1 DEF Injection, IsInjective
      <3>5. Cardinality(1..(size + 1)) = size + 1
        BY FS_Interval
      <3>6. Cardinality(1..(size + 1)) <= Cardinality(taken)
        BY <2>3, <3>4, FS_Injection
      <3> QED
        BY <2>4, <3>5, <3>6
    <2>8. Min(free) \in free
      <3>1. free \in SUBSET (1..(size + 1)) /\ free \in SUBSET Nat
        BY <2>5
      <3>2. IsFiniteSet(1..(size + 1))
        BY FS_Interval
      <3>3. IsFiniteSet(free)
        BY <3>1, <3>2, FS_Subset
      <3> QED
        BY <2>7, <3>1, <3>3, LeastPlace
    <2>9. output \notin taken
      BY <2>5, <2>6, <2>8
    <2> QED
      BY <1>1, <2>2, <2>9
  <1> QED
    BY <1>2, <1>3

\* A plot that is saved is added to those before it.
LEMMA SavedOnce ==
  ASSUME PlotsWritten, cmd \in Commands, cmd' = cmd, NEW path, NEW place,
         path = None \/ path = <<path[1]>>, SavePlot(path, place)
  PROVE  PlotsWritten'
  <1>1. PICK output : output = resolve_plot_output_path(path, output_paths)
    OBVIOUS
  <1>2. CASE UNCHANGED <<output_paths, saved>>
    BY <1>2 DEF PlotsWritten
  <1>3. CASE path # None
    <2>1. output \notin output_paths /\ (Len(output) > 1 => output \notin cmd.existing)
      BY <1>1, <1>3, OutputIsNew DEF PlotsWritten
    <2>2. output_paths' = output_paths \cup {output}
      BY <1>1, <1>3 DEF SavePlot
    <2>3. IsFiniteSet(output_paths')
      BY <2>2, FS_AddElement DEF PlotsWritten
    <2>4. CASE saved' = saved
      BY <2>2, <2>3, <2>4 DEF PlotsWritten
    <2>5. CASE saved' = Append(saved, output)
      <3>1. PICK n \in Nat : n = Len(saved)
        BY Appended DEF PlotsWritten
      <3>2. /\ DOMAIN saved = 1..n /\ DOMAIN saved' = 1..(n + 1) /\ Sequence(saved')
            /\ \A i \in 1..n : saved'[i] = saved[i]
            /\ saved'[n + 1] = output /\ Range(saved') = Range(saved) \cup {output}
        BY <2>5, <3>1, Appended DEF PlotsWritten
      <3>3. \A i \in 1..(n + 1) : i \in 1..n \/ i = n + 1
        OBVIOUS
      <3>4. \A i \in 1..n : saved[i] \in Range(saved) /\ saved[i] # output
        BY <2>1, <3>2 DEF PlotsWritten, Range
      <3>5. IsInjective(saved')
        BY <3>2, <3>3, <3>4 DEF PlotsWritten, IsInjective
      <3>6. Range(saved') \subseteq output_paths'
        BY <2>2, <3>2 DEF PlotsWritten
      <3>7. \A p \in Range(saved') : Len(p) > 1 => p \notin cmd'.existing
        BY <2>1, <3>2 DEF PlotsWritten
      <3> QED
        BY <2>3, <3>2, <3>5, <3>6, <3>7 DEF PlotsWritten
    <2> QED
      BY <1>1, <1>3, <2>4, <2>5 DEF SavePlot
  <1> QED
    BY <1>2, <1>3 DEF SavePlot

LEMMA PlotsStep ==
  ASSUME Standing, PlotsWritten, [Next]_vars
  PROVE  PlotsWritten'
  <1>1. cmd \in Commands
    BY DEF Standing
  <1>2. CASE EndSection
    <2>1. cmd' = cmd
      BY <1>2 DEF EndSection
    <2>2. CASE UNCHANGED <<output_paths, saved>>
      BY <2>1, <2>2 DEF PlotsWritten
    <2>3. CASE \E place : SavePlot(IF Present(cmd.plot_along_output)
                                   THEN format_plot_along_output_path ELSE None, place)
      <3>1. PICK path : path = IF Present(cmd.plot_along_output)
                               THEN format_plot_along_output_path ELSE None
        OBVIOUS
      <3>2. path = None \/ path = <<path[1]>>
        BY <3>1 DEF format_plot_along_output_path
      <3> QED
        BY <1>1, <2>1, <2>3, <3>1, <3>2, SavedOnce
    <2> QED
      BY <1>2, <2>2, <2>3 DEF EndSection
  <1>3. CASE EndFile
    <2>1. cmd' = cmd
      BY <1>3 DEF EndFile
    <2>2. CASE UNCHANGED <<output_paths, saved>>
      BY <2>1, <2>2 DEF PlotsWritten
    <2>3. CASE \E place : SavePlot(cmd.plot_output, place)
      <3>1. PICK path : path = cmd.plot_output
        OBVIOUS
      <3>2. path = None \/ path = <<path[1]>>
        BY <1>1, <3>1, CommandAssumption DEF Present
      <3> QED
        BY <1>1, <2>1, <2>3, <3>1, <3>2, SavedOnce
    <2> QED
      BY <1>3, <2>2, <2>3 DEF EndFile
  <1>4. CASE UNCHANGED <<cmd, output_paths, saved>>
    BY <1>4 DEF PlotsWritten
  <1>5. ASSUME CheckArguments \/ FindFiles \/ ReadInputs \/ SkipBenchmark \/ StartBenchmark
               \/ StartSection \/ EndBenchmark \/ CompareState \/ Report
        PROVE  UNCHANGED <<cmd, output_paths, saved>>
    BY <1>5 DEF CheckArguments, FindFiles, ReadInputs, SkipBenchmark, StartBenchmark,
                StartSection, EndBenchmark, CompareState, Report, Results
  <1> QED
    BY <1>2, <1>3, <1>4, <1>5 DEF Next, Terminating, vars

\* Every plot has a file of its own, and a copy never takes the place of a file
\* that was there before (resolve_plot_output_path).
THEOREM PlotsAreKept == Spec => []NoPlotOverwritten
  <1>1. Init => PlotsWritten
    <2> SUFFICES ASSUME Init
                 PROVE  PlotsWritten
      OBVIOUS
    <2>1. DOMAIN <<>> = {} /\ Range(<<>>) = {} /\ Sequence(<<>>) /\ IsFiniteSet({})
      BY FS_EmptySet DEF Range, Sequence
    <2> QED
      BY <2>1 DEF Init, PlotsWritten, IsInjective
  <1>2. Standing /\ PlotsWritten /\ [Next]_vars => PlotsWritten'
    BY PlotsStep
  <1>3. PlotsWritten => NoPlotOverwritten
    BY DEF PlotsWritten, NoPlotOverwritten
  <1> QED
    BY <1>1, <1>2, <1>3, StandingAlways, PTL DEF Spec

-----------------------------------------------------------------------------
(* Points *)

\* The point of the j-th state of a section along an axis
PointOf(states, places, along, j) ==
  LET s == states[places[j]]
      count == Cardinality(OfKey(states, places, KeyAt(states, places, j)))
  IN <<[key |-> state_match_key(s),
        occurrence |-> IF count > 1 THEN OccurrenceAt(states, places, j) + 1 ELSE 0,
        axes |-> axis_name_parts(s, along)],
       s.axes[along]>>

\* The states of a section that have one name agree after the plotted axis.
TellTheRest(states, places, along) ==
  \A i, j \in Range(places) :
    state_match_key(states[i]) = state_match_key(states[j])
      => AxesAfter(states[i], along) = AxesAfter(states[j], along)

\* The axes before one, the axis itself and those after it are all there are.
LEMMA AxesInThreeParts ==
  ASSUME NEW s, ResultState(s), NEW t, ResultState(t),
         NEW along, along \in DOMAIN s.axes, along \in DOMAIN t.axes,
         axis_name_parts(s, along) = axis_name_parts(t, along),
         s.axes[along] = t.axes[along],
         AxesAfter(s, along) = AxesAfter(t, along)
  PROVE  s.axes = t.axes
  <1>1. PICK P : P = PlacesBefore(s, along)
    OBVIOUS
  <1>2. PICK Q : Q = PlacesBefore(t, along)
    OBVIOUS
  <1>3. /\ [i \in P |-> <<s.listed[i], s.axes[s.listed[i]]>>]
             = [i \in Q |-> <<t.listed[i], t.axes[t.listed[i]]>>]
    BY <1>1, <1>2 DEF axis_name_parts
  <1>4. /\ P = Q
        /\ \A i \in P : s.listed[i] = t.listed[i] /\ s.axes[s.listed[i]] = t.axes[t.listed[i]]
    <2>1. PICK f : f = [i \in P |-> <<s.listed[i], s.axes[s.listed[i]]>>]
      OBVIOUS
    <2>2. f = [i \in Q |-> <<t.listed[i], t.axes[t.listed[i]]>>]
      BY <1>3, <2>1
    <2>3. P = Q
      BY <2>1, <2>2
    <2>4. ASSUME NEW i \in P
          PROVE  <<s.listed[i], s.axes[s.listed[i]]>> = <<t.listed[i], t.axes[t.listed[i]]>>
      BY <2>1, <2>2, <2>3
    <2> QED
      BY <2>3, <2>4
  <1>5. PICK B : B = {s.listed[i] : i \in P}
    OBVIOUS
  <1>6. B = {t.listed[i] : i \in Q}
    BY <1>4, <1>5
  <1>7. P \subseteq DOMAIN s.listed /\ Q \subseteq DOMAIN t.listed
    BY <1>1, <1>2 DEF PlacesBefore
  <1>8. B \subseteq DOMAIN s.axes /\ B \subseteq DOMAIN t.axes
    BY <1>5, <1>6, <1>7 DEF ResultState, Range
  <1>9. PICK after : after = AxesAfter(s, along)
    OBVIOUS
  <1>10. /\ after = [a \in DOMAIN s.axes \ (B \cup {along}) |-> s.axes[a]]
         /\ after = [a \in DOMAIN t.axes \ (B \cup {along}) |-> t.axes[a]]
    BY <1>1, <1>2, <1>5, <1>6, <1>9 DEF AxesAfter
  <1>11. DOMAIN s.axes \ (B \cup {along}) = DOMAIN t.axes \ (B \cup {along})
    BY <1>10
  <1>12. DOMAIN s.axes = DOMAIN t.axes
    BY <1>8, <1>11
  <1>13. ASSUME NEW a \in DOMAIN s.axes
         PROVE  s.axes[a] = t.axes[a]
    <2>1. CASE a \in B
      BY <1>4, <1>5, <2>1
    <2>2. CASE a \in DOMAIN s.axes \ (B \cup {along})
      BY <1>10, <1>11, <2>2
    <2> QED
      BY <2>1, <2>2
  <1>14. /\ s.axes = [a \in DOMAIN s.axes |-> s.axes[a]]
         /\ t.axes = [a \in DOMAIN t.axes |-> t.axes[a]]
    BY DEF ResultState
  <1> QED
    BY <1>12, <1>13, <1>14

\* States that share the line and the place on it share their key, so they are
\* told apart by their occurrence.
LEMMA PointsDiffer ==
  ASSUME NEW states, NEW places, Ascending(places), NEW along,
         NEW i \in DOMAIN places, NEW j \in DOMAIN places,
         ResultState(states[places[i]]), ResultState(states[places[j]]),
         along \in DOMAIN states[places[i]].axes, along \in DOMAIN states[places[j]].axes,
         TellTheRest(states, places, along),
         PointOf(states, places, along, i) = PointOf(states, places, along, j)
  PROVE  i = j
  <1>1. PICK s : s = states[places[i]]
    OBVIOUS
  <1>2. PICK t : t = states[places[j]]
    OBVIOUS
  <1>3. PICK occ_i : occ_i = OccurrenceAt(states, places, i)
    OBVIOUS
  <1>4. PICK occ_j : occ_j = OccurrenceAt(states, places, j)
    OBVIOUS
  <1>5. PICK count_i : count_i = Cardinality(OfKey(states, places, KeyAt(states, places, i)))
    OBVIOUS
  <1>6. PICK count_j : count_j = Cardinality(OfKey(states, places, KeyAt(states, places, j)))
    OBVIOUS
  <1>7. PICK parts_i : parts_i = axis_name_parts(s, along)
    OBVIOUS
  <1>8. PICK parts_j : parts_j = axis_name_parts(t, along)
    OBVIOUS
  <1>9. /\ state_match_key(s) = state_match_key(t)
        /\ (IF count_i > 1 THEN occ_i + 1 ELSE 0) = (IF count_j > 1 THEN occ_j + 1 ELSE 0)
        /\ parts_i = parts_j /\ s.axes[along] = t.axes[along]
    BY <1>1, <1>2, <1>3, <1>4, <1>5, <1>6, <1>7, <1>8 DEF PointOf
  <1>10. s.axes = t.axes
    <2>1. AxesAfter(s, along) = AxesAfter(t, along)
      BY <1>1, <1>2, <1>9 DEF TellTheRest, Range
    <2> QED
      BY <1>1, <1>2, <1>7, <1>8, <1>9, <2>1, AxesInThreeParts
  <1>11. KeyAt(states, places, i) = KeyAt(states, places, j)
    BY <1>1, <1>2, <1>9, <1>10 DEF KeyAt, state_comparison_key
  <1>12. /\ occ_i \in Nat /\ occ_j \in Nat /\ count_i = count_j /\ count_i \in Nat
         /\ occ_i < count_i /\ occ_j < count_j
         /\ i < j => occ_i < occ_j
         /\ j < i => occ_j < occ_i
    BY <1>3, <1>4, <1>5, <1>6, <1>11, Occurrences, GroupOfKey
  <1>13. occ_i = occ_j
    BY <1>9, <1>12
  <1>14. i \in Nat /\ j \in Nat
    BY RangeOfPlaces
  <1> QED
    BY <1>12, <1>13, <1>14

\* Each point is that of a state the loop has passed, and has a place.
PointOfSection(point) ==
  \E j \in 1..(section.next - 1) :
    /\ cmd.plot_along \in DOMAIN CmpBench.states[section.cmp[j]].axes
    /\ point = PointOf(CmpBench.states, section.cmp, cmd.plot_along, j)

PointsPlaced ==
  /\ (pc = "state" /\ NamesTellTheRest) => IsInjective(section.points)
  /\ pc = "state" => \A i \in DOMAIN section.points : PointOfSection(section.points[i])

\* The point a state adds is a new one.
LEMMA PointIsNew ==
  ASSUME Standing, PointsPlaced, pc = "state", section.next <= Len(section.cmp),
         HasAxisValue(CmpState),
         NEW point, point = <<format_plot_series_key, CmpState.axes[cmd.plot_along]>>
  PROVE  /\ cmd.plot_along \in DOMAIN CmpBench.states[section.cmp[section.next]].axes
         /\ point = PointOf(CmpBench.states, section.cmp, cmd.plot_along, section.next)
         /\ NamesTellTheRest => \A i \in DOMAIN section.points : section.points[i] # point
  <1>1. PICK states : states = CmpBench.states
    OBVIOUS
  <1>2. PICK places : places = section.cmp /\ Ascending(places)
    BY SectionAscends
  <1>3. PICK k : k = section.next /\ k \in DOMAIN places /\ k \in Nat
    BY <1>2, StateAtHand
  <1>4. CmpState = states[places[k]]
    BY <1>1, <1>2, <1>3 DEF CmpState, CmpPlace
  <1>5. cmd.plot_along \in DOMAIN states[places[k]].axes
    BY <1>4 DEF HasAxisValue
  <1>6. point = PointOf(states, places, cmd.plot_along, k)
    <2>1. /\ OccurrenceCount = Cardinality(OfKey(states, places, KeyAt(states, places, k)))
          /\ Occurrence = OccurrenceAt(states, places, k)
      BY <1>1, <1>2, <1>3, StateAtHand
    <2> QED
      BY <1>4, <2>1 DEF format_plot_series_key, PointOf
  <1>7. \A j \in DOMAIN places : ResultState(states[places[j]])
    <2>1. \A j \in DOMAIN places : places[j] \in Range(places)
      BY DEF Range
    <2> QED
      BY <1>1, <1>2, <2>1, SectionAscends, BothHaveStates
  <1>8. ASSUME NamesTellTheRest, NEW i \in DOMAIN section.points, section.points[i] = point
        PROVE  FALSE
    <2>1. PICK j \in 1..(k - 1) : /\ cmd.plot_along \in DOMAIN states[places[j]].axes
                                  /\ point = PointOf(states, places, cmd.plot_along, j)
      BY <1>1, <1>2, <1>3, <1>8 DEF PointsPlaced, PointOfSection
    <2>2. j \in DOMAIN places /\ j # k
      <3>1. PICK n \in Nat : DOMAIN places = 1..n
        BY <1>2, RangeOfPlaces
      <3> QED
        BY <1>3, <3>1
    <2>3. TellTheRest(states, places, cmd.plot_along)
      BY <1>1, <1>2, <1>8 DEF NamesTellTheRest, TellTheRest
    <2> QED
      BY <1>2, <1>3, <1>5, <1>6, <1>7, <2>1, <2>2, <2>3, PointsDiffer
  <1> QED
    BY <1>1, <1>2, <1>3, <1>5, <1>6, <1>8

LEMMA SameRest ==
  ASSUME cmd' = cmd, CmpBench' = CmpBench, section'.cmp = section.cmp
  PROVE  NamesTellTheRest' <=> NamesTellTheRest
  BY DEF NamesTellTheRest, AxesAfter, PlacesBefore, state_match_key

LEMMA PointsRecorded ==
  ASSUME Standing, PointsPlaced, CompareState
  PROVE  PointsPlaced'
  <1>1. /\ UNCHANGED <<cmd, plan, todo, inputs, at>> /\ pc = "state"
        /\ section.next <= Len(section.cmp)
        /\ Judge(DecisionOf(RefBench.states[PairedPlace], CmpState),
                 Centers(RefBench.states[PairedPlace], CmpState))
    BY DEF CompareState
  <1>2. PICK centers : centers = Centers(RefBench.states[PairedPlace], CmpState)
    OBVIOUS
  <1>3. PICK judged : judged = DecisionOf(RefBench.states[PairedPlace], CmpState)
    OBVIOUS
  <1>4. CASE RefusePoint
    BY <1>4 DEF RefusePoint, Exit, PointsPlaced
  <1>5. CASE /\ RecordState(judged, centers, Shown(judged.status, centers))
             /\ PlotsPoint(centers) => HasAxisValue(CmpState)
    <2>1. PICK shown : shown = Shown(judged.status, centers)
      OBVIOUS
    <2>2. PICK point : point = <<format_plot_series_key, CmpState.axes[cmd.plot_along]>>
      OBVIOUS
    <2>3. /\ section'.next = section.next + 1 /\ section'.cmp = section.cmp
          /\ section'.points = IF PlotsPoint(centers) THEN Append(section.points, point)
                               ELSE section.points
      BY <1>1, <1>5, <2>1, <2>2 DEF RecordState, Standing, AtSection
    <2>4. CmpBench' = CmpBench /\ pc' = "state"
      BY <1>1, <1>5, SameBenchmark DEF RecordState, Goto
    <2>5. PICK k : k = section.next /\ k \in Nat \ {0}
      BY <1>1 DEF Standing, AtSection
    <2>6. ASSUME NEW p, PointOfSection(p)
          PROVE  PointOfSection(p)'
      <3>1. PICK j \in 1..(k - 1) :
              /\ cmd.plot_along \in DOMAIN CmpBench.states[section.cmp[j]].axes
              /\ p = PointOf(CmpBench.states, section.cmp, cmd.plot_along, j)
        BY <2>5, <2>6 DEF PointOfSection
      <3>2. j \in 1..(section'.next - 1)
        BY <2>3, <2>5
      <3> QED
        BY <1>1, <2>3, <2>4, <3>1, <3>2 DEF PointOfSection
    <2>7. PICK n \in Nat : n = Len(section.points) /\ DOMAIN section.points = 1..n
      BY <1>1, Appended DEF Standing, AtSection
    <2>8. /\ NamesTellTheRest => IsInjective(section.points)
          /\ \A i \in 1..n : PointOfSection(section.points[i])
      BY <1>1, <2>7 DEF PointsPlaced
    <2>11. NamesTellTheRest' <=> NamesTellTheRest
      BY <1>1, <2>3, <2>4, SameRest
    <2>9. CASE ~ PlotsPoint(centers)
      <3>1. section'.points = section.points
        BY <2>3, <2>9
      <3>2. ASSUME NEW i \in 1..n
            PROVE  PointOfSection(section.points[i])'
        <4>1. PICK p : p = section.points[i] /\ p = section'.points[i]
          BY <3>1
        <4>2. PointOfSection(p)'
          BY <2>6, <2>8, <4>1
        <4> QED
          BY <4>1, <4>2 DEF PointOfSection
      <3> QED
        BY <2>7, <2>8, <2>11, <3>1, <3>2 DEF PointsPlaced
    <2>10. CASE PlotsPoint(centers)
      <3>1. /\ cmd.plot_along \in DOMAIN CmpBench.states[section.cmp[k]].axes
            /\ point = PointOf(CmpBench.states, section.cmp, cmd.plot_along, k)
            /\ NamesTellTheRest => \A i \in 1..n : section.points[i] # point
        BY <1>1, <1>5, <2>2, <2>5, <2>7, <2>10, PointIsNew
      <3>2. /\ DOMAIN section'.points = 1..(n + 1)
            /\ \A i \in 1..n : section'.points[i] = section.points[i]
            /\ section'.points[n + 1] = point
        BY <1>1, <2>3, <2>7, <2>10, Appended DEF Standing, AtSection
      <3>3. \A i \in 1..(n + 1) : i \in 1..n \/ i = n + 1
        OBVIOUS
      <3>4. NamesTellTheRest => IsInjective(section'.points)
        BY <2>7, <2>8, <3>1, <3>2, <3>3 DEF IsInjective
      <3>5. PointOfSection(point)'
        <4>1. k \in 1..(section'.next - 1)
          BY <2>3, <2>5
        <4> QED
          BY <1>1, <2>3, <2>4, <3>1, <4>1 DEF PointOfSection
      <3>6. ASSUME NEW i \in 1..(n + 1)
            PROVE  PointOfSection(section.points[i])'
        <4>1. PICK p : p = section'.points[i]
          OBVIOUS
        <4>2. PointOfSection(p)'
          <5>1. CASE i \in 1..n
            BY <2>6, <2>8, <3>2, <4>1, <5>1
          <5>2. CASE i = n + 1
            BY <3>2, <3>5, <4>1, <5>2
          <5> QED
            BY <3>3, <5>1, <5>2
        <4> QED
          BY <4>1, <4>2 DEF PointOfSection
      <3> QED
        BY <2>11, <3>2, <3>4, <3>6 DEF PointsPlaced
    <2> QED
      BY <2>9, <2>10
  <1> QED
    BY <1>1, <1>2, <1>3, <1>4, <1>5 DEF Judge

LEMMA PointsStep ==
  ASSUME Standing, PointsPlaced, [Next]_vars
  PROVE  PointsPlaced'
  <1>1. CASE CompareState
    BY <1>1, PointsRecorded
  <1>2. CASE StartSection
    <2>1. CASE UNCHANGED section /\ pc' = "exited"
      BY <2>1 DEF PointsPlaced
    <2>2. CASE section'.points = <<>>
      <3>1. DOMAIN <<>> = {}
        OBVIOUS
      <3> QED
        BY <2>2, <3>1 DEF PointsPlaced, IsInjective
    <2> QED
      BY <1>2, <2>1, <2>2 DEF StartSection, Exit
  <1>3. CASE UNCHANGED section /\ pc' # "state"
    BY <1>3 DEF PointsPlaced
  <1>4. CASE UNCHANGED vars
    <2>1. UNCHANGED <<cmd, pc, plan, todo, inputs, at, section>>
      BY <1>4 DEF vars
    <2>2. CmpBench' = CmpBench
      BY <2>1, SameBenchmark
    <2>3. NamesTellTheRest' <=> NamesTellTheRest
      BY <2>1, <2>2, SameRest
    <2> QED
      BY <2>1, <2>2, <2>3 DEF PointsPlaced, PointOfSection
  <1>5. ASSUME CheckArguments \/ FindFiles \/ ReadInputs \/ SkipBenchmark \/ StartBenchmark
               \/ EndBenchmark \/ EndSection \/ EndFile \/ Report
        PROVE  UNCHANGED section /\ pc' # "state"
    BY <1>5 DEF CheckArguments, FindFiles, ReadInputs, SkipBenchmark, StartBenchmark,
                EndBenchmark, EndSection, SavePlot, EndFile, Report, Exit, Goto
  <1> QED
    BY <1>1, <1>2, <1>3, <1>4, <1>5 DEF Next, Terminating

\* Whatever states a section has, repeated or not, no two of them are plotted over
\* each other if those with one name agree in the axes after the plotted one, which
\* a line leaves out (format_plot_series_key, extract_plot_axis_value).
THEOREM PointsAreApart == Spec => []NoPointLost
  <1>1. Init => PointsPlaced
    BY DEF Init, PointsPlaced
  <1>2. Standing /\ PointsPlaced /\ [Next]_vars => PointsPlaced'
    BY PointsStep
  <1>3. PointsPlaced => NoPointLost
    BY DEF PointsPlaced, NoPointLost
  <1> QED
    BY <1>1, <1>2, <1>3, StandingAlways, PTL DEF Spec

-----------------------------------------------------------------------------
(* Bulk rows *)

RowInTable(row) ==
  \E t \in Range(tables) : \E k \in DOMAIN t.rows : Names(row, t, k) /\ t.rows[k] = row.cmp

\* The table of the section at hand is still to be printed.
RowAtHand(row) ==
  /\ pc = "state" /\ row.at = at
  /\ row.table_row_index + 1 \in DOMAIN section.rows
  /\ section.rows[row.table_row_index + 1] = row.cmp

\* There is a bulk row for the k-th row of the table of a place.
RowFor(place, k) ==
  \E i \in DOMAIN bulk_rows : bulk_rows[i].at = place /\ bulk_rows[i].table_row_index + 1 = k

RowsApart ==
  /\ Sequence(bulk_rows)
  /\ \A i \in DOMAIN bulk_rows :
       /\ bulk_rows[i].row_index = i - 1 /\ bulk_rows[i].table_row_index \in Nat
       /\ bulk_rows[i].at \in [file : Nat, bench : Nat, pair : Nat]
  /\ \A i, j \in DOMAIN bulk_rows :
       (/\ bulk_rows[i].at = bulk_rows[j].at
        /\ bulk_rows[i].table_row_index = bulk_rows[j].table_row_index) => i = j

RowsHaveTables ==
  /\ Working => \A i \in DOMAIN bulk_rows :
                  Before(bulk_rows[i].at, at) \/ RowAtHand(bulk_rows[i])
  /\ (pc # "exited" \/ exit = 0) =>
       \A i \in DOMAIN bulk_rows : RowInTable(bulk_rows[i]) \/ RowAtHand(bulk_rows[i])
  /\ pc \in {"arguments", "files"} => bulk_rows = <<>>

TablesHaveRows ==
  /\ Sequence(tables)
  /\ Present(cmd.bulk) => \A t \in Range(tables) : \A k \in DOMAIN t.rows : RowFor(t.at, k)
  /\ (Present(cmd.bulk) /\ pc = "state") => \A k \in DOMAIN section.rows : RowFor(at, k)

BulkSoFar == RowsApart /\ RowsHaveTables /\ TablesHaveRows

\* Where no state is recorded and no table printed, the rows stay as they are.
LEMMA RowsElsewhere ==
  ASSUME Standing, BulkSoFar, UNCHANGED <<cmd, bulk_rows, tables>>,
         pc \notin {"arguments", "files", "state", "exited"},
         pc' \notin {"arguments", "files"}, pc' = "state" => section'.rows = <<>>,
         Working' => /\ Working /\ at' \in [file : Nat, bench : Nat, pair : Nat]
                     /\ at' = at \/ Before(at, at')
  PROVE  BulkSoFar'
  <1>1. DOMAIN <<>> = {}
    OBVIOUS
  <1>2. \A i \in DOMAIN bulk_rows : RowInTable(bulk_rows[i])
    BY DEF BulkSoFar, RowsHaveTables, RowAtHand
  <1>3. ASSUME Working', NEW i \in DOMAIN bulk_rows
        PROVE  Before(bulk_rows[i].at, at')
    <2>1. Before(bulk_rows[i].at, at)
      BY <1>3 DEF BulkSoFar, RowsHaveTables, RowAtHand
    <2>2. /\ bulk_rows[i].at \in [file : Nat, bench : Nat, pair : Nat]
          /\ at \in [file : Nat, bench : Nat, pair : Nat]
      BY DEF BulkSoFar, RowsApart, Standing, AtFile
    <2> QED
      BY <1>3, <2>1, <2>2, BeforeIsTransitive
  <1>4. RowsApart'
    BY DEF BulkSoFar, RowsApart
  <1>5. RowsHaveTables'
    <2>1. \A i \in DOMAIN bulk_rows : RowInTable(bulk_rows[i])'
      BY <1>2 DEF RowInTable
    <2> QED
      BY <1>3, <2>1 DEF RowsHaveTables
  <1>6. TablesHaveRows'
    BY <1>1 DEF BulkSoFar, TablesHaveRows, RowFor
  <1> QED
    BY <1>4, <1>5, <1>6 DEF BulkSoFar

\* A state that is shown gets the next row of its table, and of the bulk rows.
LEMMA RowsRecorded ==
  ASSUME Standing, BulkSoFar, CompareState
  PROVE  BulkSoFar'
  <1>1. /\ UNCHANGED <<cmd, at, tables>> /\ pc = "state"
        /\ Judge(DecisionOf(RefBench.states[PairedPlace], CmpState),
                 Centers(RefBench.states[PairedPlace], CmpState))
    BY DEF CompareState
  <1>2. PICK centers : centers = Centers(RefBench.states[PairedPlace], CmpState)
    OBVIOUS
  <1>3. PICK judged : judged = DecisionOf(RefBench.states[PairedPlace], CmpState)
    OBVIOUS
  <1>4. CASE RefusePoint
    <2>1. pc' = "exited" /\ exit' = 1 /\ UNCHANGED bulk_rows
      BY <1>4 DEF RefusePoint, Exit
    <2> QED
      BY <1>1, <2>1 DEF BulkSoFar, RowsApart, RowsHaveTables, TablesHaveRows, RowFor, Working
  <1>5. CASE RecordState(judged, centers, Shown(judged.status, centers))
    <2>1. PICK shown : shown = Shown(judged.status, centers)
      OBVIOUS
    <2>2. PICK row : row = [row_index |-> Len(bulk_rows), at |-> at,
                            table_row_index |-> Len(section.rows),
                            cmp |-> CmpPlace, ref |-> PairedPlace]
      OBVIOUS
    <2>3. /\ section'.rows = IF shown THEN Append(section.rows, CmpPlace) ELSE section.rows
          /\ bulk_rows' = IF shown /\ Present(cmd.bulk) THEN Append(bulk_rows, row) ELSE bulk_rows
          /\ pc' = "state"
      BY <1>1, <1>5, <2>1, <2>2 DEF RecordState, Standing, AtSection, table_row_index, Goto
    <2>4. PICK m \in Nat : m = Len(section.rows) /\ DOMAIN section.rows = 1..m
      BY <1>1, Appended DEF Standing, AtSection
    <2>5. PICK n \in Nat : n = Len(bulk_rows) /\ DOMAIN bulk_rows = 1..n
      BY Appended DEF BulkSoFar, RowsApart
    <2>6. /\ 1..m \subseteq DOMAIN section'.rows
          /\ \A k \in 1..m : section'.rows[k] = section.rows[k]
          /\ shown => DOMAIN section'.rows = 1..(m + 1) /\ section'.rows[m + 1] = CmpPlace
          /\ ~ shown => DOMAIN section'.rows = 1..m
      BY <1>1, <2>3, <2>4, Appended DEF Standing, AtSection
    <2>7. /\ 1..n \subseteq DOMAIN bulk_rows' /\ Sequence(bulk_rows')
          /\ \A i \in 1..n : bulk_rows'[i] = bulk_rows[i]
      BY <2>3, <2>5, Appended DEF BulkSoFar, RowsApart
    <2>8. ASSUME NEW r, RowAtHand(r)
          PROVE  RowAtHand(r)'
      BY <1>1, <2>3, <2>4, <2>6, <2>8 DEF RowAtHand
    <2>9. ASSUME NEW place, NEW k, RowFor(place, k)
          PROVE  RowFor(place, k)'
      BY <2>5, <2>7, <2>9 DEF RowFor
    <2>10. \A i \in 1..n : /\ Before(bulk_rows[i].at, at) \/ RowAtHand(bulk_rows[i])
                           /\ RowInTable(bulk_rows[i]) \/ RowAtHand(bulk_rows[i])
      BY <1>1, <2>5 DEF BulkSoFar, RowsHaveTables, Working
    <2>11. ASSUME NEW i \in 1..n
           PROVE  /\ Before(bulk_rows[i].at, at)' \/ RowAtHand(bulk_rows[i])'
                  /\ RowInTable(bulk_rows[i])' \/ RowAtHand(bulk_rows[i])'
      <3>1. PICK r : r = bulk_rows[i] /\ r = bulk_rows'[i]
        BY <2>7
      <3>2. /\ Before(r.at, at') \/ RowAtHand(r)'
            /\ RowInTable(r)' \/ RowAtHand(r)'
        BY <1>1, <2>8, <2>10, <3>1 DEF RowInTable
      <3> QED
        BY <3>1, <3>2 DEF RowInTable, RowAtHand, Before
    <2>12. ASSUME Present(cmd.bulk), NEW t \in Range(tables'), NEW k \in DOMAIN t.rows
           PROVE  RowFor(t.at, k)'
      <3>1. RowFor(t.at, k)
        BY <1>1, <2>12 DEF BulkSoFar, TablesHaveRows
      <3> QED
        BY <2>9, <3>1
    <2>13. ASSUME Present(cmd.bulk), NEW k \in 1..m
           PROVE  RowFor(at, k)'
      <3>1. RowFor(at, k)
        BY <1>1, <2>4, <2>13 DEF BulkSoFar, TablesHaveRows
      <3>2. PICK place : place = at /\ place = at'
        BY <1>1
      <3>3. RowFor(place, k)'
        BY <2>9, <3>1, <3>2
      <3> QED
        BY <3>2, <3>3 DEF RowFor
    <2>14. CASE ~ (shown /\ Present(cmd.bulk))
      <3>1. bulk_rows' = bulk_rows
        BY <2>3, <2>14
      <3>2. RowsApart'
        BY <3>1 DEF BulkSoFar, RowsApart
      <3>3. RowsHaveTables'
        BY <2>3, <2>5, <2>11, <3>1 DEF RowsHaveTables
      <3>4. TablesHaveRows'
        BY <1>1, <2>6, <2>12, <2>13, <2>14 DEF BulkSoFar, TablesHaveRows
      <3> QED
        BY <3>2, <3>3, <3>4 DEF BulkSoFar
    <2>15. CASE shown /\ Present(cmd.bulk)
      <3>1. /\ DOMAIN bulk_rows' = 1..(n + 1) /\ bulk_rows'[n + 1] = row
            /\ \A i \in 1..(n + 1) : i \in 1..n \/ i = n + 1
        BY <2>3, <2>5, <2>15, Appended DEF BulkSoFar, RowsApart
      <3>2. /\ row.row_index = n /\ row.at = at /\ row.table_row_index = m /\ row.cmp = CmpPlace
            /\ at \in [file : Nat, bench : Nat, pair : Nat]
        BY <2>2, <2>4, <2>5 DEF Standing, AtFile
      <3>3. RowAtHand(row)'
        BY <1>1, <2>3, <2>6, <2>15, <3>2 DEF RowAtHand
      <3>4. ASSUME NEW i \in 1..n, bulk_rows[i].at = at
            PROVE  bulk_rows[i].table_row_index # m
        <4>1. RowAtHand(bulk_rows[i])
          BY <2>10, <3>2, <3>4 DEF Before
        <4>2. bulk_rows[i].table_row_index \in Nat
          BY <2>5 DEF BulkSoFar, RowsApart
        <4> QED
          BY <2>4, <4>1, <4>2 DEF RowAtHand
      <3>5. RowsApart'
        <4>1. PICK rows : rows = bulk_rows'
          OBVIOUS
        <4>2. \A i \in 1..n :
                /\ rows[i].row_index = i - 1 /\ rows[i].table_row_index \in Nat
                /\ rows[i].at \in [file : Nat, bench : Nat, pair : Nat]
                /\ ~ (rows[i].at = at /\ rows[i].table_row_index = m)
          BY <2>5, <2>7, <3>4, <4>1 DEF BulkSoFar, RowsApart
        <4>3. \A i, j \in 1..n :
                (/\ rows[i].at = rows[j].at
                 /\ rows[i].table_row_index = rows[j].table_row_index) => i = j
          BY <2>5, <2>7, <4>1 DEF BulkSoFar, RowsApart
        <4>4. rows[n + 1] = row /\ DOMAIN rows = 1..(n + 1) /\ Sequence(rows)
          BY <2>7, <3>1, <4>1
        <4>5. \A i \in 1..(n + 1) :
                /\ rows[i].row_index = i - 1 /\ rows[i].table_row_index \in Nat
                /\ rows[i].at \in [file : Nat, bench : Nat, pair : Nat]
          <5>1. \A i \in 1..(n + 1) : i = n + 1 => i - 1 = n
            OBVIOUS
          <5> QED
            BY <3>1, <3>2, <4>2, <4>4, <5>1
        <4>6. \A i, j \in 1..(n + 1) :
                (/\ rows[i].at = rows[j].at
                 /\ rows[i].table_row_index = rows[j].table_row_index) => i = j
          BY <3>1, <3>2, <4>2, <4>3, <4>4
        <4> QED
          BY <4>1, <4>4, <4>5, <4>6 DEF RowsApart
      <3>6. RowsHaveTables'
        <4>1. ASSUME NEW i \in 1..(n + 1)
              PROVE  /\ Before(bulk_rows[i].at, at)' \/ RowAtHand(bulk_rows[i])'
                     /\ RowInTable(bulk_rows[i])' \/ RowAtHand(bulk_rows[i])'
          <5>1. CASE i = n + 1
            BY <3>1, <3>3, <5>1 DEF RowAtHand
          <5> QED
            BY <2>11, <3>1, <5>1
        <4> QED
          BY <2>3, <3>1, <4>1 DEF RowsHaveTables
      <3>7. TablesHaveRows'
        <4>1. RowFor(at, m + 1)'
          <5>1. n + 1 \in DOMAIN bulk_rows'
            BY <3>1
          <5> QED
            BY <1>1, <3>1, <3>2, <5>1 DEF RowFor
        <4>2. \A k \in 1..(m + 1) : k \in 1..m \/ k = m + 1
          OBVIOUS
        <4>3. \A k \in DOMAIN section'.rows : RowFor(at, k)'
          BY <2>6, <2>13, <2>15, <4>1, <4>2
        <4> QED
          BY <1>1, <2>12, <2>15, <4>3 DEF BulkSoFar, TablesHaveRows
      <3> QED
        BY <3>5, <3>6, <3>7 DEF BulkSoFar
    <2> QED
      BY <2>14, <2>15
  <1> QED
    BY <1>1, <1>2, <1>3, <1>4, <1>5 DEF Judge

\* The table that is printed has the rows that were collected for it.
LEMMA RowsPrinted ==
  ASSUME Standing, BulkSoFar, EndSection
  PROVE  BulkSoFar'
  <1>1. /\ UNCHANGED <<cmd, bulk_rows>> /\ pc = "state" /\ pc' \in {"section", "exited"}
        /\ at' = [at EXCEPT !.pair = @ + 1]
        /\ MetadataMissing => pc' = "exited" /\ exit' = 1
    BY DEF EndSection, SavePlot, Exit, Goto
  <1>2. PICK table : table = [at |-> at, rows |-> section.rows]
    OBVIOUS
  <1>3. tables' = IF ~ MetadataMissing /\ section.rows # <<>> THEN Append(tables, table)
                  ELSE tables
    BY <1>2 DEF EndSection
  <1>4. /\ Sequence(tables') /\ Range(tables) \subseteq Range(tables')
        /\ Range(tables') \subseteq Range(tables) \cup {table}
        /\ (~ MetadataMissing /\ section.rows # <<>>) => table \in Range(tables')
    BY <1>3, Appended DEF BulkSoFar, TablesHaveRows
  <1>5. Before(at, at') /\ at \in [file : Nat, bench : Nat, pair : Nat]
                        /\ at' \in [file : Nat, bench : Nat, pair : Nat]
    BY <1>1 DEF Standing, AtFile, Before
  <1>6. RowsApart'
    BY <1>1 DEF BulkSoFar, RowsApart
  <1>7. ASSUME pc' # "exited" \/ exit' = 0, NEW i \in DOMAIN bulk_rows
        PROVE  RowInTable(bulk_rows[i])'
    <2>1. PICK row : row = bulk_rows[i] /\ row = bulk_rows'[i]
      BY <1>1
    <2>2. RowInTable(row) \/ RowAtHand(row)
      BY <1>1, <2>1 DEF BulkSoFar, RowsHaveTables
    <2>3. CASE RowInTable(row)
      <3>1. RowInTable(row)'
        BY <1>4, <2>3 DEF RowInTable
      <3> QED
        BY <2>1, <3>1 DEF RowInTable
    <2>4. CASE RowAtHand(row)
      <3>1. PICK k : k = row.table_row_index + 1 /\ k \in DOMAIN section.rows
        BY <2>4 DEF RowAtHand
      <3>2. section.rows # <<>>
        <4>1. DOMAIN <<>> = {}
          OBVIOUS
        <4> QED
          BY <3>1, <4>1
      <3>3. table \in Range(tables') /\ k \in DOMAIN table.rows /\ Names(row, table, k)
                                     /\ table.rows[k] = row.cmp
        BY <1>1, <1>2, <1>4, <1>7, <2>4, <3>1, <3>2 DEF RowAtHand, Names
      <3>4. RowInTable(row)'
        BY <3>3 DEF RowInTable
      <3> QED
        BY <2>1, <3>4 DEF RowInTable
    <2> QED
      BY <2>2, <2>3, <2>4
  <1>8. RowsHaveTables'
    <2>1. ASSUME NEW i \in DOMAIN bulk_rows
          PROVE  Before(bulk_rows[i].at, at')
      <3>1. bulk_rows[i].at \in [file : Nat, bench : Nat, pair : Nat]
        BY DEF BulkSoFar, RowsApart
      <3>2. Before(bulk_rows[i].at, at) \/ bulk_rows[i].at = at
        BY <1>1 DEF BulkSoFar, RowsHaveTables, RowAtHand, Working
      <3> QED
        BY <1>5, <3>1, <3>2, BeforeIsTransitive
    <2> QED
      BY <1>1, <1>7, <2>1 DEF RowsHaveTables
  <1>9. TablesHaveRows'
    <2>1. ASSUME Present(cmd.bulk), NEW t \in Range(tables'), NEW k \in DOMAIN t.rows
          PROVE  RowFor(t.at, k)'
      <3>1. t \in Range(tables) \/ t = table
        BY <1>4
      <3>2. RowFor(t.at, k)
        BY <1>1, <1>2, <2>1, <3>1 DEF BulkSoFar, TablesHaveRows
      <3> QED
        BY <1>1, <3>2 DEF RowFor
    <2> QED
      BY <1>1, <1>4, <2>1 DEF TablesHaveRows
  <1> QED
    BY <1>6, <1>8, <1>9 DEF BulkSoFar

LEMMA RowsStep ==
  ASSUME Standing, Standing', BulkSoFar, [Next]_vars
  PROVE  BulkSoFar'
  <1>1. CASE CompareState
    BY <1>1, RowsRecorded
  <1>2. CASE EndSection
    BY <1>2, RowsPrinted
  <1>3. CASE UNCHANGED vars
    BY <1>3 DEF vars, BulkSoFar, RowsApart, RowsHaveTables, TablesHaveRows, RowInTable,
                RowAtHand, RowFor, Working
  <1>4. CASE CheckArguments \/ FindFiles
    <2>1. /\ UNCHANGED <<cmd, bulk_rows, tables>> /\ pc \in {"arguments", "files"}
          /\ pc' # "state"
      BY <1>4 DEF CheckArguments, FindFiles, Results, Exit, Goto
    <2>2. bulk_rows = <<>> /\ DOMAIN bulk_rows = {}
      BY <2>1 DEF BulkSoFar, RowsHaveTables
    <2> QED
      BY <2>1, <2>2 DEF BulkSoFar, RowsApart, RowsHaveTables, TablesHaveRows, RowFor
  <1>5. /\ at \in [file : Nat, bench : Nat, pair : Nat]
        /\ at' \in [file : Nat, bench : Nat, pair : Nat]
    BY DEF Standing, AtFile
  <1>6. CASE ReadInputs
    <2>1. /\ UNCHANGED <<cmd, bulk_rows, tables>> /\ pc = "read" /\ pc' \in {"exited", "bench"}
          /\ at' = [file |-> at.file + 1, bench |-> 1, pair |-> 1]
      BY <1>6 DEF ReadInputs, Exit, Goto
    <2>2. Before(at, at')
      BY <1>5, <2>1 DEF Before
    <2> QED
      BY <1>5, <2>1, <2>2, RowsElsewhere DEF Working
  <1>7. CASE SkipBenchmark
    <2>1. /\ UNCHANGED <<cmd, bulk_rows, tables, pc>> /\ pc = "bench"
          /\ at' = [at EXCEPT !.bench = @ + 1]
      BY <1>7 DEF SkipBenchmark, Results
    <2>2. Before(at, at')
      BY <1>5, <2>1 DEF Before
    <2> QED
      BY <1>5, <2>1, <2>2, RowsElsewhere DEF Working
  <1>8. CASE EndBenchmark
    <2>1. /\ UNCHANGED <<cmd, bulk_rows, tables>> /\ pc = "section" /\ pc' = "bench"
          /\ at' = [at EXCEPT !.bench = @ + 1, !.pair = 1]
      BY <1>8 DEF EndBenchmark, Results, Goto
    <2>2. Before(at, at')
      BY <1>5, <2>1 DEF Before
    <2> QED
      BY <1>5, <2>1, <2>2, RowsElsewhere DEF Working
  <1>9. CASE StartSection
    <2>1. /\ UNCHANGED <<cmd, bulk_rows, tables, at>> /\ pc = "section"
          /\ \/ pc' = "exited"
             \/ pc' = "state" /\ section'.rows = <<>>
      BY <1>9 DEF StartSection, Results, Exit, Goto
    <2> QED
      BY <1>5, <2>1, RowsElsewhere DEF Working
  <1>10. CASE StartBenchmark \/ EndFile \/ Report
    <2>1. /\ UNCHANGED <<cmd, bulk_rows, tables, at>> /\ pc \in {"bench", "report"}
          /\ pc' \in {"exited", "section", "read", "report"}
          /\ pc = "report" => pc' = "exited"
      BY <1>10 DEF StartBenchmark, EndFile, SavePlot, Report, Results, Exit, Goto
    <2> QED
      BY <1>5, <2>1, RowsElsewhere DEF Working
  <1> QED
    BY <1>1, <1>2, <1>3, <1>4, <1>6, <1>7, <1>8, <1>9, <1>10 DEF Next, Terminating

\* When the tool ends well, each bulk row names the row of the printed table
\* that shows its two states, and each row that is printed has one bulk row
\* (table_row_index, bulk_debug_rows).
THEOREM BulkRowsFindTheirWay == Spec => []BulkRowsNameTheirTableRow
  <1>1. Init => BulkSoFar
    <2> SUFFICES ASSUME Init
                 PROVE  BulkSoFar
      OBVIOUS
    <2>1. DOMAIN <<>> = {} /\ Range(<<>>) = {} /\ Sequence(<<>>)
      BY DEF Range, Sequence
    <2> QED
      BY <2>1 DEF Init, BulkSoFar, RowsApart, RowsHaveTables, TablesHaveRows, Working
  <1>2. Standing /\ Standing' /\ BulkSoFar /\ [Next]_vars => BulkSoFar'
    BY RowsStep
  <1>3. BulkSoFar => BulkRowsNameTheirTableRow
    <2> SUFFICES ASSUME BulkSoFar, Done, Present(cmd.bulk)
                 PROVE  /\ \A i \in DOMAIN bulk_rows :
                             bulk_rows[i].row_index = i - 1 /\ RowInTable(bulk_rows[i])
                        /\ \A t \in Range(tables) : \A k \in DOMAIN t.rows :
                             \E i \in DOMAIN bulk_rows :
                               /\ Names(bulk_rows[i], t, k)
                               /\ \A j \in DOMAIN bulk_rows :
                                    Names(bulk_rows[j], t, k) => j = i
      BY DEF BulkRowsNameTheirTableRow, RowInTable
    <2>1. ASSUME NEW i \in DOMAIN bulk_rows
          PROVE  bulk_rows[i].row_index = i - 1 /\ RowInTable(bulk_rows[i])
      BY DEF BulkSoFar, RowsApart, RowsHaveTables, RowAtHand, Done
    <2>2. ASSUME NEW t \in Range(tables), NEW k \in DOMAIN t.rows
          PROVE  \E i \in DOMAIN bulk_rows :
                   /\ Names(bulk_rows[i], t, k)
                   /\ \A j \in DOMAIN bulk_rows : Names(bulk_rows[j], t, k) => j = i
      <3>1. PICK i \in DOMAIN bulk_rows : Names(bulk_rows[i], t, k)
        BY <2>2 DEF BulkSoFar, TablesHaveRows, RowFor, Names
      <3>2. ASSUME NEW j \in DOMAIN bulk_rows, Names(bulk_rows[j], t, k)
            PROVE  j = i
        <4>1. bulk_rows[i].table_row_index \in Nat /\ bulk_rows[j].table_row_index \in Nat
          BY DEF BulkSoFar, RowsApart
        <4>2. bulk_rows[i].table_row_index = bulk_rows[j].table_row_index
          BY <3>1, <3>2, <4>1 DEF Names
        <4> QED
          BY <3>1, <3>2, <4>2 DEF BulkSoFar, RowsApart, Names
      <3> QED
        BY <3>1, <3>2
    <2> QED
      BY <2>1, <2>2
  <1> QED
    BY <1>1, <1>2, <1>3, StandingAlways, PTL DEF Spec

-----------------------------------------------------------------------------
(* Filters *)

LEMMA OnePlaceEach ==
  ASSUME NEW s, NEW n \in Nat, DOMAIN s = 1..n, s = [i \in DOMAIN s |-> s[i]]
  PROVE  Sequence(s) /\ Len(s) = n
  <1>1. PICK S : S = Range(s)
    OBVIOUS
  <1>2. s \in [1..n -> S]
    BY <1>1 DEF Range
  <1>3. s \in Seq(S) /\ Len(s) = n
    BY <1>2
  <1> QED
    BY <1>1, <1>3 DEF Sequence

\* The loop over the actions is run from the first to the last.
ActionsTaken(actions, n, after) ==
  after = [i \in 0..n |-> IF i = 0 THEN [global |-> <<>>, scopes |-> <<>>]
                          ELSE WithAction(after[i - 1], actions[i])]

LEMMA PlanOfActions ==
  ASSUME NEW actions, NEW n \in Nat, n = Len(actions)
  PROVE  \E after : ActionsTaken(actions, n, after) /\ ScopeActions(actions) = after[n]
  <1>1. ASSUME NEW m \in 0..n
        PROVE  \E after : ActionsTaken(actions, m, after)
    <2>1. PICK P : P = {k \in 0..n : ~ \E after : ActionsTaken(actions, k, after)}
      OBVIOUS
    <2>2. SUFFICES ASSUME P # {}
                   PROVE  FALSE
      BY <2>1
    <2>3. P \in SUBSET (0..n) /\ P \in SUBSET Nat
      BY <2>1
    <2>4. IsFiniteSet(0..n)
      BY FS_Interval
    <2>5. IsFiniteSet(P)
      BY <2>3, <2>4, FS_Subset
    <2>6. PICK k \in P : \A j \in P : k <= j
      BY <2>2, <2>3, <2>5, Least
    <2>7. CASE k = 0
      <3>1. PICK none : none = [global |-> <<>>, scopes |-> <<>>]
        OBVIOUS
      <3>2. PICK after : after = [i \in 0..0 |-> none]
        OBVIOUS
      <3>3. after = [i \in 0..0 |-> IF i = 0 THEN none ELSE WithAction(after[i - 1], actions[i])]
        <4>1. \A i \in 0..0 : i = 0
          OBVIOUS
        <4> QED
          BY <3>2, <4>1
      <3> QED
        BY <2>1, <2>7, <3>1, <3>3 DEF ActionsTaken
    <2>8. CASE k # 0
      <3>1. k \in Nat /\ k - 1 \in 0..n /\ ~ (k <= k - 1)
        BY <2>3, <2>8
      <3>2. k - 1 \notin P
        BY <2>6, <3>1
      <3>3. PICK before : ActionsTaken(actions, k - 1, before)
        BY <2>1, <3>1, <3>2
      <3>4. PICK none : none = [global |-> <<>>, scopes |-> <<>>]
        OBVIOUS
      <3>5. PICK after : after = [i \in 0..k |-> IF i = 0 THEN none
                                                 ELSE WithAction(before[i - 1], actions[i])]
        OBVIOUS
      <3>6. ASSUME NEW i \in 0..(k - 1)
            PROVE  after[i] = before[i]
        <4>1. i \in 0..k
          BY <3>1
        <4> QED
          BY <3>3, <3>4, <3>5, <4>1 DEF ActionsTaken
      <3>7. \A i \in 0..k : i # 0 => i - 1 \in 0..(k - 1)
        BY <3>1
      <3>8. \A i \in 0..k : after[i] = IF i = 0 THEN none ELSE WithAction(after[i - 1], actions[i])
        BY <3>5, <3>6, <3>7
      <3>9. after = [i \in 0..k |-> IF i = 0 THEN none ELSE WithAction(after[i - 1], actions[i])]
        BY <3>5, <3>8
      <3> QED
        BY <2>1, <3>4, <3>9 DEF ActionsTaken
    <2> QED
      BY <2>7, <2>8
  <1>2. PICK some : ActionsTaken(actions, n, some)
    BY <1>1
  <1>3. PICK after : after = CHOOSE f : ActionsTaken(actions, n, f)
    OBVIOUS
  <1>4. ActionsTaken(actions, n, after)
    BY <1>2, <1>3
  <1>5. ScopeActions(actions) = after[n]
    BY <1>3 DEF ScopeActions, ActionsTaken
  <1> QED
    BY <1>4, <1>5

\* The scopes that start among the first p actions, and the axis arguments
\* given to the scope that starts at i (0: to all)
ScopesIn(actions, p) == {j \in 1..p : actions[j][1] # "axis"}

GivenTo(actions, p, i) ==
  {j \in 1..p : actions[j][1] = "axis" /\ i < j /\ \A s \in ScopesIn(actions, p) : s <= i \/ j < s}

ArgsOf(actions, places) == {actions[j][2] : j \in places}

ScopedSoFar(actions, p, filters, starts) ==
  /\ filters = [global |-> filters.global, scopes |-> filters.scopes]
  /\ Sequence(filters.global)
  /\ Range(filters.global) = ArgsOf(actions, GivenTo(actions, p, 0))
  /\ Sequence(filters.scopes)
  /\ Ascending(starts) /\ Len(starts) = Len(filters.scopes)
  /\ Range(starts) = ScopesIn(actions, p)
  /\ \A s \in 1..Len(filters.scopes) :
       /\ filters.scopes[s] = [name |-> actions[starts[s]][2], axes |-> filters.scopes[s].axes]
       /\ Sequence(filters.scopes[s].axes)
       /\ Range(filters.scopes[s].axes) = ArgsOf(actions, GivenTo(actions, p, starts[s]))

\* What the next action gives to a scope that has started
LEMMA GivenNext ==
  ASSUME NEW actions, NEW p \in Nat, NEW i \in {0} \cup ScopesIn(actions, p)
  PROVE  /\ i \in 0..p
         /\ actions[p + 1][1] # "axis" =>
              /\ ScopesIn(actions, p + 1) = ScopesIn(actions, p) \cup {p + 1}
              /\ GivenTo(actions, p + 1, i) = GivenTo(actions, p, i)
              /\ GivenTo(actions, p + 1, p + 1) = {}
         /\ actions[p + 1][1] = "axis" =>
              /\ ScopesIn(actions, p + 1) = ScopesIn(actions, p)
              /\ GivenTo(actions, p + 1, i)
                   = IF \A s \in ScopesIn(actions, p) : s <= i
                     THEN GivenTo(actions, p, i) \cup {p + 1} ELSE GivenTo(actions, p, i)
  <1>1. i \in 0..p
    BY DEF ScopesIn
  <1>2. /\ \A j \in 1..(p + 1) : j \in 1..p \/ j = p + 1
        /\ \A j \in 1..p : j \in 1..(p + 1) /\ j < p + 1 /\ j # p + 1
        /\ p + 1 \in 1..(p + 1) /\ i < p + 1 /\ ~ (p + 1 <= i) /\ ~ (p + 1 < p + 1)
    BY <1>1
  <1>3. CASE actions[p + 1][1] # "axis"
    <2>1. ScopesIn(actions, p + 1) = ScopesIn(actions, p) \cup {p + 1}
      BY <1>2, <1>3 DEF ScopesIn
    <2>2. GivenTo(actions, p + 1, i) = GivenTo(actions, p, i)
      BY <1>2, <1>3, <2>1 DEF GivenTo
    <2>3. GivenTo(actions, p + 1, p + 1) = {}
      BY <1>2 DEF GivenTo
    <2> QED
      BY <1>1, <1>3, <2>1, <2>2, <2>3
  <1>4. CASE actions[p + 1][1] = "axis"
    <2>1. ScopesIn(actions, p + 1) = ScopesIn(actions, p)
      BY <1>2, <1>4 DEF ScopesIn
    <2>2. \A s \in ScopesIn(actions, p) : s \in 1..p
      BY DEF ScopesIn
    <2>3. (\A s \in ScopesIn(actions, p) : s <= i \/ p + 1 < s)
            <=> (\A s \in ScopesIn(actions, p) : s <= i)
      <3>1. \A s \in 1..p : ~ (p + 1 < s)
        OBVIOUS
      <3> QED
        BY <2>2, <3>1
    <2>4. p + 1 \in GivenTo(actions, p + 1, i) <=> \A s \in ScopesIn(actions, p) : s <= i
      BY <1>2, <1>4, <2>1, <2>3 DEF GivenTo
    <2>5. \A j \in 1..p : j \in GivenTo(actions, p + 1, i) <=> j \in GivenTo(actions, p, i)
      BY <1>2, <2>1 DEF GivenTo
    <2>6. /\ GivenTo(actions, p + 1, i) \in SUBSET (1..(p + 1))
          /\ GivenTo(actions, p, i) \in SUBSET (1..p)
      BY DEF GivenTo
    <2>7. PICK given : given = GivenTo(actions, p, i)
      OBVIOUS
    <2>8. PICK next : next = GivenTo(actions, p + 1, i)
      OBVIOUS
    <2>9. CASE \A s \in ScopesIn(actions, p) : s <= i
      <3>1. p + 1 \in next
        BY <2>4, <2>8, <2>9
      <3>2. next = given \cup {p + 1}
        BY <1>2, <2>5, <2>6, <2>7, <2>8, <3>1
      <3> QED
        BY <1>1, <1>4, <2>1, <2>7, <2>8, <2>9, <3>2
    <2>10. CASE ~ \A s \in ScopesIn(actions, p) : s <= i
      <3>1. p + 1 \notin next
        BY <2>4, <2>8, <2>10
      <3>2. next = given
        BY <1>2, <2>5, <2>6, <2>7, <2>8, <3>1
      <3> QED
        BY <1>1, <1>4, <2>1, <2>7, <2>8, <2>10, <3>2
    <2> QED
      BY <2>9, <2>10
  <1> QED
    BY <1>3, <1>4

\* A benchmark starts a scope that has no arguments yet.
LEMMA ScopeStarts ==
  ASSUME NEW actions, NEW p \in Nat, NEW filters, NEW starts,
         ScopedSoFar(actions, p, filters, starts), actions[p + 1][1] = "benchmark"
  PROVE  ScopedSoFar(actions, p + 1, WithAction(filters, actions[p + 1]), Append(starts, p + 1))
  <1>1. PICK scope : scope = [name |-> actions[p + 1][2], axes |-> <<>>]
    OBVIOUS
  <1>2. PICK next : next = WithAction(filters, actions[p + 1])
    OBVIOUS
  <1>3. PICK more : more = Append(starts, p + 1)
    OBVIOUS
  <1>4. next = [global |-> filters.global, scopes |-> Append(filters.scopes, scope)]
    <2>1. PICK global : global = filters.global
      OBVIOUS
    <2>2. PICK scopes : scopes = filters.scopes
      OBVIOUS
    <2>3. filters = [global |-> global, scopes |-> scopes]
      BY <2>1, <2>2 DEF ScopedSoFar
    <2>4. next = [filters EXCEPT !.scopes = Append(filters.scopes, scope)]
      BY <1>1, <1>2 DEF WithAction
    <2> QED
      BY <2>1, <2>2, <2>3, <2>4
  <1>5. PICK m \in Nat : m = Len(filters.scopes)
    BY Appended DEF ScopedSoFar
  <1>6. /\ Sequence(next.scopes) /\ Len(next.scopes) = m + 1
        /\ \A s \in 1..m : next.scopes[s] = filters.scopes[s]
        /\ next.scopes[m + 1] = scope
    BY <1>4, <1>5, Appended DEF ScopedSoFar
  <1>7. starts \in Seq(Nat) /\ Len(starts) = m /\ DOMAIN starts = 1..m
    BY <1>5, RangeOfPlaces DEF ScopedSoFar, Ascending
  <1>8. /\ more \in Seq(Nat) /\ Len(more) = m + 1 /\ DOMAIN more = 1..(m + 1)
        /\ \A s \in 1..m : more[s] = starts[s]
        /\ more[m + 1] = p + 1
    BY <1>3, <1>5, <1>7
  <1>9. actions[p + 1][1] # "axis"
    OBVIOUS
  <1>10. /\ ScopesIn(actions, p + 1) = ScopesIn(actions, p) \cup {p + 1}
         /\ \A i \in {0} \cup ScopesIn(actions, p) :
              /\ i \in 0..p
              /\ GivenTo(actions, p + 1, i) = GivenTo(actions, p, i)
         /\ GivenTo(actions, p + 1, p + 1) = {}
    <2>1. 0 \in {0} \cup ScopesIn(actions, p)
      OBVIOUS
    <2> QED
      BY <1>9, <2>1, GivenNext
  <1>11. \A s \in 1..m : starts[s] \in ScopesIn(actions, p)
    BY <1>7 DEF ScopedSoFar, Range
  <1>12. \A s \in 1..(m + 1) : s \in 1..m \/ s = m + 1
    OBVIOUS
  <1>13. Ascending(more)
    <2>1. \A s \in 1..m : starts[s] \in Nat /\ starts[s] < p + 1
      <3>1. \A s \in 1..m : starts[s] \in 0..p
        BY <1>10, <1>11
      <3> QED
        BY <3>1
    <2>2. \A s, t \in 1..m : s < t => starts[s] < starts[t]
      BY <1>7 DEF ScopedSoFar, Ascending
    <2>3. \A s, t \in 1..(m + 1) : s < t => s \in 1..m
      OBVIOUS
    <2> QED
      BY <1>8, <1>12, <2>1, <2>2, <2>3 DEF Ascending
  <1>14. Range(more) = ScopesIn(actions, p + 1)
    <2>1. Range(starts) = ScopesIn(actions, p)
      BY DEF ScopedSoFar
    <2>2. Sequence(starts)
      <3>1. starts = [s \in DOMAIN starts |-> starts[s]]
        BY <1>7
      <3> QED
        BY <1>7, <3>1, OnePlaceEach
    <2>3. \A e : Range(Append(starts, e)) = Range(starts) \cup {e}
      BY <2>2, Appended
    <2> QED
      BY <1>3, <1>10, <2>1, <2>3
  <1>15. Range(next.global) = ArgsOf(actions, GivenTo(actions, p + 1, 0))
    BY <1>4, <1>10 DEF ScopedSoFar
  <1>16. ASSUME NEW s \in 1..(m + 1)
         PROVE  /\ next.scopes[s] = [name |-> actions[more[s]][2], axes |-> next.scopes[s].axes]
                /\ Sequence(next.scopes[s].axes)
                /\ Range(next.scopes[s].axes) = ArgsOf(actions, GivenTo(actions, p + 1, more[s]))
    <2>1. CASE s \in 1..m
      BY <1>5, <1>6, <1>8, <1>10, <1>11, <2>1 DEF ScopedSoFar
    <2>2. CASE s = m + 1
      <3>1. Range(<<>>) = {} /\ Sequence(<<>>)
        BY DEF Range, Sequence
      <3> QED
        BY <1>1, <1>6, <1>8, <1>10, <2>2, <3>1 DEF ArgsOf
    <2> QED
      BY <1>12, <2>1, <2>2
  <1>17. next = [global |-> next.global, scopes |-> next.scopes] /\ Sequence(next.global)
    BY <1>4 DEF ScopedSoFar
  <1> QED
    BY <1>2, <1>3, <1>6, <1>8, <1>13, <1>14, <1>15, <1>16, <1>17 DEF ScopedSoFar

\* An axis argument joins those of the scope that started last.
LEMMA ArgumentJoins ==
  ASSUME NEW actions, NEW p \in Nat, NEW filters, NEW starts,
         ScopedSoFar(actions, p, filters, starts), actions[p + 1][1] = "axis"
  PROVE  ScopedSoFar(actions, p + 1, WithAction(filters, actions[p + 1]), starts)
  <1>1. PICK arg : arg = actions[p + 1][2]
    OBVIOUS
  <1>2. PICK next : next = WithAction(filters, actions[p + 1])
    OBVIOUS
  <1>3. PICK global : global = filters.global
    OBVIOUS
  <1>4. PICK scopes : scopes = filters.scopes
    OBVIOUS
  <1>5. filters = [global |-> global, scopes |-> scopes] /\ Sequence(global) /\ Sequence(scopes)
    BY <1>3, <1>4 DEF ScopedSoFar
  <1>6. PICK m \in Nat : m = Len(scopes) /\ DOMAIN scopes = 1..m
    BY <1>5, Appended
  <1>7. DOMAIN starts = 1..m /\ \A s \in 1..m : starts[s] \in ScopesIn(actions, p)
    BY <1>4, <1>6, RangeOfPlaces DEF ScopedSoFar, Range
  <1>8. /\ ScopesIn(actions, p + 1) = ScopesIn(actions, p)
        /\ \A i \in {0} \cup ScopesIn(actions, p) :
             /\ i \in 0..p
             /\ GivenTo(actions, p + 1, i)
                  = IF \A s \in ScopesIn(actions, p) : s <= i
                    THEN GivenTo(actions, p, i) \cup {p + 1} ELSE GivenTo(actions, p, i)
    <2>1. 0 \in {0} \cup ScopesIn(actions, p)
      OBVIOUS
    <2> QED
      BY <2>1, GivenNext
  <1>9. Range(starts) = ScopesIn(actions, p)
    BY DEF ScopedSoFar
  <1>10. \A places : ArgsOf(actions, places \cup {p + 1}) = ArgsOf(actions, places) \cup {arg}
    BY <1>1 DEF ArgsOf
  <1>11. CASE scopes = <<>>
    <2>1. m = 0 /\ ScopesIn(actions, p) = {}
      BY <1>6, <1>7, <1>9, <1>11 DEF Range
    <2>2. next = [filters EXCEPT !.global = Append(filters.global, arg)]
      BY <1>1, <1>2, <1>4, <1>11 DEF WithAction
    <2>3. next = [global |-> Append(global, arg), scopes |-> scopes]
      <3>1. PICK more : more = Append(global, arg)
        OBVIOUS
      <3>2. next = [filters EXCEPT !.global = more]
        BY <1>3, <2>2, <3>1
      <3>3. next = [global |-> more, scopes |-> scopes]
        BY <1>5, <3>2
      <3> QED
        BY <3>1, <3>3
    <2>4. Sequence(next.global) /\ Range(next.global) = Range(global) \cup {arg}
      BY <1>5, <2>3, Appended
    <2>5. GivenTo(actions, p + 1, 0) = GivenTo(actions, p, 0) \cup {p + 1}
      BY <1>8, <2>1
    <2>6. Range(next.global) = ArgsOf(actions, GivenTo(actions, p + 1, 0))
      BY <1>3, <1>10, <2>4, <2>5 DEF ScopedSoFar
    <2>7. /\ Ascending(starts) /\ Len(starts) = Len(next.scopes)
          /\ Range(starts) = ScopesIn(actions, p + 1) /\ Len(next.scopes) = 0
      BY <1>4, <1>6, <1>8, <2>1, <2>3 DEF ScopedSoFar
    <2>8. \A s \in 1..0 : FALSE
      OBVIOUS
    <2> QED
      BY <1>2, <1>5, <2>3, <2>4, <2>6, <2>7, <2>8 DEF ScopedSoFar
  <1>12. CASE scopes # <<>>
    <2>1. m \in 1..m
      <3>1. m # 0
        BY <1>5, <1>6, <1>12 DEF Sequence
      <3> QED
        BY <3>1
    <2>2. PICK last : last = scopes[m]
      OBVIOUS
    <2>3. PICK axes : axes = last.axes
      OBVIOUS
    <2>4. last = [name |-> actions[starts[m]][2], axes |-> axes] /\ Sequence(axes)
      BY <1>4, <1>6, <2>1, <2>2, <2>3 DEF ScopedSoFar
    <2>5. PICK wider : wider = [name |-> actions[starts[m]][2], axes |-> Append(axes, arg)]
      OBVIOUS
    <2>6. next = [global |-> global, scopes |-> [scopes EXCEPT ![m] = wider]]
      <3>1. next = [filters EXCEPT !.scopes[Len(filters.scopes)].axes = Append(@, arg)]
        BY <1>1, <1>2, <1>4, <1>12 DEF WithAction
      <3>2. next = [filters EXCEPT !.scopes = [scopes EXCEPT ![m].axes = Append(@, arg)]]
        BY <1>4, <1>6, <3>1
      <3>3. [scopes EXCEPT ![m].axes = Append(@, arg)] = [scopes EXCEPT ![m] = wider]
        <4>1. [last EXCEPT !.axes = Append(@, arg)] = wider
          <5>1. PICK name : name = actions[starts[m]][2]
            OBVIOUS
          <5>2. PICK more : more = Append(axes, arg)
            OBVIOUS
          <5>3. last = [name |-> name, axes |-> axes] /\ wider = [name |-> name, axes |-> more]
            BY <2>4, <2>5, <5>1, <5>2
          <5>4. [last EXCEPT !.axes = Append(@, arg)] = [last EXCEPT !.axes = more]
            BY <5>2, <5>3
          <5> QED
            BY <5>3, <5>4
        <4> QED
          BY <2>2, <4>1
      <3> QED
        BY <1>5, <3>2, <3>3
    <2>7. PICK changed : changed = next.scopes
      OBVIOUS
    <2>8. /\ DOMAIN changed = 1..m /\ Sequence(changed) /\ Len(changed) = m
          /\ changed[m] = wider
          /\ \A s \in 1..m : s # m => changed[s] = scopes[s]
      <3>1. changed = [scopes EXCEPT ![m] = wider]
        BY <2>6, <2>7
      <3>2. DOMAIN changed = 1..m /\ changed = [s \in DOMAIN changed |-> changed[s]]
        BY <1>6, <3>1
      <3>3. Sequence(changed) /\ Len(changed) = m
        BY <3>2, OnePlaceEach
      <3> QED
        BY <1>6, <2>1, <3>1, <3>2, <3>3
    <2>9. \A s \in 1..m : starts[s] <= starts[m] /\ (s # m => ~ (starts[m] <= starts[s]))
      <3> TAKE s \in 1..m
      <3>1. starts[s] \in Nat /\ starts[m] \in Nat
        <4>1. starts[s] \in 0..p /\ starts[m] \in 0..p
          BY <1>7, <1>8, <2>1
        <4> QED
          BY <4>1
      <3>2. s # m => s < m
        OBVIOUS
      <3>3. s # m => starts[s] < starts[m]
        BY <1>7, <2>1, <3>2 DEF ScopedSoFar, Ascending
      <3> QED
        BY <3>1, <3>3
    <2>10. /\ starts[m] \in ScopesIn(actions, p)
           /\ \A s \in ScopesIn(actions, p) : s <= starts[m]
           /\ ~ (starts[m] <= 0)
      <3>1. \A s \in ScopesIn(actions, p) : \E k \in 1..m : s = starts[k]
        BY <1>7, <1>9 DEF Range
      <3>2. ~ (starts[m] <= 0)
        BY <1>7, <2>1 DEF ScopesIn
      <3> QED
        BY <1>7, <2>1, <2>9, <3>1, <3>2
    <2>11. GivenTo(actions, p + 1, 0) = GivenTo(actions, p, 0)
      BY <1>8, <2>10
    <2>12. GivenTo(actions, p + 1, starts[m]) = GivenTo(actions, p, starts[m]) \cup {p + 1}
      BY <1>8, <2>10
    <2>13. \A s \in 1..m : s # m => GivenTo(actions, p + 1, starts[s]) = GivenTo(actions, p, starts[s])
      BY <1>7, <1>8, <2>9, <2>10
    <2>14. ASSUME NEW s \in 1..m
           PROVE  /\ changed[s] = [name |-> actions[starts[s]][2], axes |-> changed[s].axes]
                  /\ Sequence(changed[s].axes)
                  /\ Range(changed[s].axes) = ArgsOf(actions, GivenTo(actions, p + 1, starts[s]))
      <3>1. CASE s = m
        <4>1. /\ Sequence(Append(axes, arg)) /\ Range(Append(axes, arg)) = Range(axes) \cup {arg}
          BY <2>4, Appended
        <4>2. Range(axes) = ArgsOf(actions, GivenTo(actions, p, starts[m]))
          BY <1>4, <1>6, <2>1, <2>2, <2>3 DEF ScopedSoFar
        <4>3. ArgsOf(actions, GivenTo(actions, p + 1, starts[m])) = Range(axes) \cup {arg}
          BY <1>10, <2>12, <4>2
        <4>4. changed[s] = wider /\ wider.axes = Append(axes, arg)
          BY <2>5, <2>8, <3>1
        <4>5. wider = [name |-> actions[starts[s]][2], axes |-> wider.axes]
          BY <2>5, <3>1, <4>4
        <4> QED
          BY <3>1, <4>1, <4>3, <4>4, <4>5
      <3>2. CASE s # m
        BY <1>4, <1>6, <2>8, <2>13, <3>2 DEF ScopedSoFar
      <3> QED
        BY <3>1, <3>2
    <2>15. /\ next = [global |-> next.global, scopes |-> next.scopes]
           /\ Sequence(next.global)
           /\ Range(next.global) = ArgsOf(actions, GivenTo(actions, p + 1, 0))
      BY <1>3, <1>5, <2>6, <2>11 DEF ScopedSoFar
    <2>16. Ascending(starts) /\ Len(starts) = m /\ Range(starts) = ScopesIn(actions, p + 1)
      BY <1>4, <1>6, <1>8 DEF ScopedSoFar
    <2> QED
      BY <1>2, <2>7, <2>8, <2>14, <2>15, <2>16 DEF ScopedSoFar
  <1> QED
    BY <1>11, <1>12

\* After the last action, each scope has what was given to it.
LEMMA ScopesAsWritten ==
  ASSUME NEW actions, Sequence(actions),
         \A j \in DOMAIN actions : actions[j][1] \in {"axis", "benchmark"}
  PROVE  \E starts : ScopedSoFar(actions, Len(actions), ScopeActions(actions), starts)
  <1>1. PICK n \in Nat : n = Len(actions) /\ DOMAIN actions = 1..n
    BY Appended
  <1>2. PICK after : ActionsTaken(actions, n, after) /\ ScopeActions(actions) = after[n]
    BY <1>1, PlanOfActions
  <1>3. PICK P : P = {k \in 0..n : ~ \E starts : ScopedSoFar(actions, k, after[k], starts)}
    OBVIOUS
  <1>4. SUFFICES ASSUME P # {}
                 PROVE  FALSE
    BY <1>1, <1>2, <1>3
  <1>5. P \in SUBSET (0..n) /\ P \in SUBSET Nat
    BY <1>3
  <1>6. IsFiniteSet(0..n)
    BY FS_Interval
  <1>7. IsFiniteSet(P)
    BY <1>5, <1>6, FS_Subset
  <1>8. PICK k \in P : \A j \in P : k <= j
    BY <1>4, <1>5, <1>7, Least
  <1>9. CASE k = 0
    <2>1. after[0] = [global |-> <<>>, scopes |-> <<>>]
      BY <1>2 DEF ActionsTaken
    <2>2. /\ Range(<<>>) = {} /\ Sequence(<<>>) /\ Ascending(<<>>)
          /\ ScopesIn(actions, 0) = {} /\ GivenTo(actions, 0, 0) = {}
          /\ 1..Len(<<>>) = {}
      BY DEF Range, Sequence, Ascending, ScopesIn, GivenTo
    <2>3. PICK none : none = after[0]
      OBVIOUS
    <2>4. /\ none.global = <<>> /\ none.scopes = <<>>
          /\ none = [global |-> none.global, scopes |-> none.scopes]
          /\ 1..Len(none.scopes) = {} /\ Len(none.scopes) = Len(<<>>)
      BY <2>1, <2>2, <2>3
    <2>5. ArgsOf(actions, {}) = {}
      BY DEF ArgsOf
    <2>6. ScopedSoFar(actions, 0, none, <<>>)
      BY <2>2, <2>4, <2>5 DEF ScopedSoFar
    <2> QED
      BY <1>3, <1>9, <2>3, <2>6
  <1>10. CASE k # 0
    <2>1. PICK p \in 0..n : p = k - 1 /\ p \in Nat /\ p + 1 = k /\ ~ (k <= p) /\ k \in 1..n
      BY <1>5, <1>10
    <2>2. p \notin P
      BY <1>8, <2>1
    <2>3. PICK starts : ScopedSoFar(actions, p, after[p], starts)
      BY <1>3, <2>2
    <2>4. after[k] = WithAction(after[p], actions[p + 1])
      BY <1>2, <1>10, <2>1 DEF ActionsTaken
    <2>5. PICK filters : filters = after[p]
      OBVIOUS
    <2>6. \E more : ScopedSoFar(actions, p + 1, WithAction(filters, actions[p + 1]), more)
      <3>1. CASE actions[p + 1][1] = "benchmark"
        BY <2>1, <2>3, <2>5, <3>1, ScopeStarts
      <3>2. CASE actions[p + 1][1] = "axis"
        BY <2>1, <2>3, <2>5, <3>2, ArgumentJoins
      <3> QED
        BY <1>1, <2>1, <3>1, <3>2
    <2> QED
      BY <1>3, <2>1, <2>4, <2>5, <2>6
  <1> QED
    BY <1>9, <1>10

\* The filters of a benchmark ask for the states the command line asks for.
LEMMA FiltersAsWritten ==
  ASSUME cmd \in Commands, NEW filters, filters = build_benchmark_filter_plan(cmd.filter_actions),
         filters # Refused, NEW name
  PROVE  /\ axis_filter_groups_for_benchmark(name, filters) = {} <=> ~ AsksForBenchmark(name)
         /\ \A state : matches_axis_filter_groups(state, axis_filter_groups_for_benchmark(name, filters))
                        <=> AsksFor(name, state)
  <1>1. PICK actions : actions = cmd.filter_actions
    OBVIOUS
  <1>2. /\ Sequence(actions)
        /\ \A j \in DOMAIN actions : actions[j][1] \in {"axis", "benchmark"}
    BY <1>1, CommandAssumption
  <1>3. PICK n \in Nat : n = Len(actions) /\ DOMAIN actions = 1..n
    BY <1>2, Appended
  <1>4. PICK scoped : scoped = ScopeActions(actions)
    OBVIOUS
  <1>5. PICK starts : ScopedSoFar(actions, n, scoped, starts)
    BY <1>2, <1>3, <1>4, ScopesAsWritten
  <1>6. PICK m \in Nat : /\ m = Len(scoped.scopes) /\ DOMAIN scoped.scopes = 1..m
                         /\ DOMAIN starts = 1..m
    BY <1>5, Appended, RangeOfPlaces DEF ScopedSoFar
  <1>7. Scopes = ScopesIn(actions, n) /\ \A i : ScopeOf(i) = GivenTo(actions, n, i)
    BY <1>1, <1>2, <1>3 DEF Scopes, ScopesIn, ScopeOf, GivenTo, Actions, IsAxis
  <1>8. ASSUME NEW given, parse_axis_filters(given) # Refused
        PROVE  parse_axis_filters(given) = {AxisFilter(arg) : arg \in Range(given)}
    BY <1>8 DEF parse_axis_filters, Range
  <1>9. PICK global : global = parse_axis_filters(scoped.global)
    OBVIOUS
  <1>10. PICK scopes : scopes = [s \in 1..m |-> [name |-> scoped.scopes[s].name,
                                                filters |-> parse_axis_filters(scoped.scopes[s].axes)]]
    OBVIOUS
  <1>11. /\ filters = [global |-> global, scopes |-> scopes] /\ global # Refused
         /\ \A s \in 1..m : scopes[s].filters # Refused
    BY <1>1, <1>4, <1>6, <1>9, <1>10 DEF build_benchmark_filter_plan
  <1>12. global = {AxisFilter(arg) : arg \in ArgsOf(actions, ScopeOf(0))}
    BY <1>5, <1>7, <1>8, <1>9, <1>11 DEF ScopedSoFar
  <1>13. \A s \in 1..m : /\ scopes[s].name = actions[starts[s]][2]
                          /\ scopes[s].filters
                               = {AxisFilter(arg) : arg \in ArgsOf(actions, ScopeOf(starts[s]))}
    <2> TAKE s \in 1..m
    <2>1. PICK scope : scope = scoped.scopes[s]
      OBVIOUS
    <2>2. /\ scope = [name |-> actions[starts[s]][2], axes |-> scope.axes]
          /\ Range(scope.axes) = ArgsOf(actions, GivenTo(actions, n, starts[s]))
      BY <1>5, <1>6, <2>1 DEF ScopedSoFar
    <2>3. scopes[s] = [name |-> scope.name, filters |-> parse_axis_filters(scope.axes)]
      BY <1>10, <2>1
    <2>4. scopes[s].name = actions[starts[s]][2]
      BY <2>2, <2>3
    <2>5. scopes[s].filters = parse_axis_filters(scope.axes) /\ scopes[s].filters # Refused
      BY <1>11, <2>3
    <2> QED
      BY <1>7, <1>8, <2>2, <2>4, <2>5
  <1>14. Scopes = {starts[s] : s \in 1..m}
    BY <1>5, <1>6, <1>7 DEF ScopedSoFar, Range
  <1>15. ASSUME NEW state, NEW places
         PROVE  matches_axis_filters(state, {AxisFilter(arg) : arg \in ArgsOf(actions, places)})
                  <=> \A j \in places : Holds(j, state)
    <2>1. ASSUME NEW arg
          PROVE  (\E v \in Range(arg.values) :
                    state.axes[arg.name] = IF arg.pow2 THEN 2^v ELSE v)
                   <=> state.axes[arg.name] \in {IF arg.pow2 THEN 2^v ELSE v : v \in Range(arg.values)}
      OBVIOUS
    <2>2. ASSUME NEW j
          PROVE  Holds(j, state) <=> (LET f == AxisFilter(actions[j][2]) IN
                   f.name \in DOMAIN state.axes /\ state.axes[f.name] \in f.values)
      <3>1. PICK arg : arg = actions[j][2]
        OBVIOUS
      <3>2. PICK values : values = {IF arg.pow2 THEN 2^v ELSE v : v \in Range(arg.values)}
        OBVIOUS
      <3>3. AxisFilter(arg).name = arg.name /\ AxisFilter(arg).values = values
        BY <3>2 DEF AxisFilter
      <3> QED
        BY <1>1, <2>1, <3>1, <3>2, <3>3 DEF Holds, Actions
    <2> QED
      BY <2>2 DEF matches_axis_filters, ArgsOf
  <1>16. ASSUME NEW state, NEW S, NEW T
         PROVE  matches_axis_filters(state, S \cup T)
                  <=> matches_axis_filters(state, S) /\ matches_axis_filters(state, T)
    BY DEF matches_axis_filters
  <1>17. PICK groups : groups = axis_filter_groups_for_benchmark(name, filters)
    OBVIOUS
  <1>18. CASE m = 0
    <2>1. scopes = <<>> /\ Scopes = {}
      BY <1>10, <1>14, <1>18
    <2>2. groups = {global}
      BY <1>11, <1>17, <2>1 DEF axis_filter_groups_for_benchmark
    <2> QED
      BY <1>12, <1>15, <1>17, <2>1, <2>2 DEF AsksFor, AsksForBenchmark, matches_axis_filter_groups
  <1>19. CASE m # 0
    <2>1. DOMAIN scopes = 1..m /\ scopes # <<>> /\ Scopes # {}
      <3>1. 1 \in 1..m /\ DOMAIN <<>> = {}
        BY <1>19
      <3> QED
        BY <1>10, <1>14, <3>1
    <2>2. \A g : g \in groups <=> \E s \in 1..m : scopes[s].name = name /\ g = global \cup scopes[s].filters
      <3>1. PICK all : all = Range(scopes)
        OBVIOUS
      <3>2. \A x : x \in all <=> \E s \in 1..m : x = scopes[s]
        BY <2>1, <3>1 DEF Range
      <3>3. groups = {global \cup scope.filters : scope \in {x \in all : x.name = name}}
        BY <1>11, <1>17, <2>1, <3>1 DEF axis_filter_groups_for_benchmark
      <3>4. \A g : g \in groups <=> \E x \in all : x.name = name /\ g = global \cup x.filters
        BY <3>3
      <3> QED
        BY <3>2, <3>4
    <2>3. groups = {} <=> ~ AsksForBenchmark(name)
      <3>1. AsksForBenchmark(name) <=> \E s \in 1..m : actions[starts[s]][2] = name
        BY <1>1, <1>14, <2>1 DEF AsksForBenchmark, Actions
      <3>2. AsksForBenchmark(name) <=> \E s \in 1..m : scopes[s].name = name
        BY <1>13, <3>1
      <3>3. ASSUME NEW s \in 1..m, scopes[s].name = name
            PROVE  groups # {}
        <4>1. PICK g : g = global \cup scopes[s].filters
          OBVIOUS
        <4>2. g \in groups
          BY <2>2, <3>3, <4>1
        <4> QED
          BY <4>2
      <3>4. ASSUME groups # {}
            PROVE  \E s \in 1..m : scopes[s].name = name
        BY <2>2, <3>4
      <3> QED
        BY <3>2, <3>3, <3>4
    <2>4. ASSUME NEW state
          PROVE  matches_axis_filter_groups(state, groups) <=> AsksFor(name, state)
      <3>1. matches_axis_filter_groups(state, groups)
              <=> \E s \in 1..m : /\ scopes[s].name = name
                                  /\ matches_axis_filters(state, global \cup scopes[s].filters)
        <4>1. matches_axis_filter_groups(state, groups)
                <=> \E g \in groups : matches_axis_filters(state, g)
          BY DEF matches_axis_filter_groups
        <4>2. ASSUME NEW g \in groups, matches_axis_filters(state, g)
              PROVE  \E s \in 1..m : /\ scopes[s].name = name
                                     /\ matches_axis_filters(state, global \cup scopes[s].filters)
          <5>1. PICK s \in 1..m : scopes[s].name = name /\ g = global \cup scopes[s].filters
            BY <2>2, <4>2
          <5>2. matches_axis_filters(state, global \cup scopes[s].filters)
            BY <4>2, <5>1
          <5> QED
            BY <5>1, <5>2
        <4>3. ASSUME NEW s \in 1..m, scopes[s].name = name,
                     matches_axis_filters(state, global \cup scopes[s].filters)
              PROVE  \E g \in groups : matches_axis_filters(state, g)
          <5>1. PICK g : g = global \cup scopes[s].filters
            OBVIOUS
          <5>2. g \in groups
            BY <2>2, <4>3, <5>1
          <5> QED
            BY <4>3, <5>1, <5>2
        <4> QED
          BY <4>1, <4>2, <4>3
      <3>2. \A s \in 1..m : matches_axis_filters(state, global \cup scopes[s].filters)
              <=> /\ \A j \in ScopeOf(0) : Holds(j, state)
                  /\ \A j \in ScopeOf(starts[s]) : Holds(j, state)
        <4> TAKE s \in 1..m
        <4>1. matches_axis_filters(state, global) <=> \A j \in ScopeOf(0) : Holds(j, state)
          BY <1>12, <1>15
        <4>2. PICK given : given = {AxisFilter(arg) : arg \in ArgsOf(actions, ScopeOf(starts[s]))}
          OBVIOUS
        <4>3. matches_axis_filters(state, given) <=> \A j \in ScopeOf(starts[s]) : Holds(j, state)
          BY <1>15, <4>2
        <4>4. scopes[s].filters = given
          BY <1>13, <4>2
        <4> QED
          BY <1>16, <4>1, <4>3, <4>4
      <3>3. AsksFor(name, state)
              <=> /\ \A j \in ScopeOf(0) : Holds(j, state)
                  /\ \E s \in 1..m : /\ actions[starts[s]][2] = name
                                     /\ \A j \in ScopeOf(starts[s]) : Holds(j, state)
        BY <1>1, <1>14, <2>1 DEF AsksFor, Actions
      <3> QED
        BY <1>13, <3>1, <3>2, <3>3
    <2> QED
      BY <1>17, <2>3, <2>4
  <1> QED
    BY <1>18, <1>19

-----------------------------------------------------------------------------
(* Every state once *)

LEMMA SameSize ==
  ASSUME NEW S, NEW T, IsFiniteSet(T), NEW f, f \in [S -> T],
         \A x, y \in S : f[x] = f[y] => x = y, \A t \in T : \E x \in S : f[x] = t
  PROVE  IsFiniteSet(S) /\ Cardinality(S) = Cardinality(T)
  <1>1. f \in Injection(S, T)
    BY DEF Injection, IsInjective
  <1>2. f \in Surjection(S, T)
    BY DEF Surjection
  <1> QED
    BY <1>1, <1>2, FS_Injection

\* Sections with as many states of each key: no state of the reference is left
\* without a counterpart.
LEMMA CounterpartsCover ==
  ASSUME NEW theirs, NEW ref, Ascending(ref), NEW mine, NEW cmp, Ascending(cmp),
         SameGroups(theirs, ref, mine, cmp), NEW r \in Range(ref)
  PROVE  \E j \in DOMAIN cmp : CounterpartOf(theirs, ref, mine, cmp, j) = r
  <1>1. PICK key : key = state_comparison_key(theirs[r])
    OBVIOUS
  <1>2. PICK group : group = Group(theirs, ref, key)
    OBVIOUS
  <1>3. PICK same : same = OfKey(mine, cmp, key)
    OBVIOUS
  <1>4. key \in Keys(theirs, ref)
    BY <1>1 DEF Keys
  <1>5. PICK count \in Nat : /\ count = Cardinality(same) /\ IsFiniteSet(same)
                            /\ DOMAIN group = 1..count
    <2>1. Len(group) = Len(Group(mine, cmp, key))
      BY <1>2, <1>4 DEF SameGroups
    <2>2. /\ Len(Group(mine, cmp, key)) = Cardinality(same)
          /\ Cardinality(same) \in Nat /\ IsFiniteSet(same)
      BY <1>3, GroupOfKey
    <2>3. DOMAIN group = 1..Len(group)
      BY <1>2, GroupOfKey
    <2> QED
      BY <2>1, <2>2, <2>3
  <1>6. PICK p \in 1..count : group[p] = r
    <2>1. r \in OfKey(theirs, ref, key)
      BY <1>1 DEF OfKey
    <2>2. Range(group) = OfKey(theirs, ref, key)
      BY <1>2, GroupOfKey
    <2> QED
      BY <1>5, <2>1, <2>2 DEF Range
  <1>7. PICK J : J = {j \in DOMAIN cmp : KeyAt(mine, cmp, j) = key}
    OBVIOUS
  <1>8. Cardinality(J) = count
    <2>1. PICK f : f = [j \in J |-> cmp[j]]
      OBVIOUS
    <2>2. \A j \in J : f[j] = cmp[j] /\ cmp[j] \in same /\ j \in DOMAIN cmp
      BY <1>3, <1>7, <2>1 DEF OfKey, KeyAt, Range
    <2>3. \A i, j \in J : f[i] = f[j] => i = j
      BY <2>2, RangeOfPlaces
    <2>4. \A x \in same : \E j \in J : f[j] = x
      <3> TAKE x \in same
      <3>1. PICK j \in DOMAIN cmp : x = cmp[j]
        BY <1>3 DEF OfKey, Range
      <3>2. KeyAt(mine, cmp, j) = key
        BY <1>3, <3>1 DEF OfKey, KeyAt
      <3> QED
        BY <1>7, <2>2, <3>1, <3>2
    <2>5. f \in [J -> same]
      BY <2>1, <2>2
    <2>6. IsFiniteSet(same) /\ count = Cardinality(same)
      BY <1>5
    <2>7. Cardinality(J) = Cardinality(same)
      BY <2>3, <2>4, <2>5, <2>6, SameSize
    <2> QED
      BY <2>6, <2>7
  <1>9. PICK occ : occ = [j \in J |-> OccurrenceAt(mine, cmp, j)]
    OBVIOUS
  <1>10. occ \in Injection(J, 0..(count - 1))
    <2>1. \A j \in J : OccurrenceAt(mine, cmp, j) \in Nat /\ OccurrenceAt(mine, cmp, j) < count
      BY <1>3, <1>5, <1>7, Occurrences
    <2>2. \A j \in J : occ[j] \in 0..(count - 1)
      BY <1>9, <2>1
    <2>3. ASSUME NEW i \in J, NEW j \in J, occ[i] = occ[j]
          PROVE  i = j
      <3>1. i \in DOMAIN cmp /\ j \in DOMAIN cmp /\ KeyAt(mine, cmp, i) = KeyAt(mine, cmp, j)
        BY <1>7
      <3>2. i \in Nat /\ j \in Nat
        BY <3>1, RangeOfPlaces
      <3>3. /\ i < j => OccurrenceAt(mine, cmp, i) < OccurrenceAt(mine, cmp, j)
            /\ j < i => OccurrenceAt(mine, cmp, j) < OccurrenceAt(mine, cmp, i)
        BY <3>1, Occurrences
      <3> QED
        BY <1>9, <2>1, <2>3, <3>2, <3>3
    <2> QED
      BY <1>9, <2>2, <2>3 DEF Injection, IsInjective
  <1>11. occ \in Surjection(J, 0..(count - 1))
    <2>1. IsFiniteSet(0..(count - 1)) /\ Cardinality(0..(count - 1)) = count
      BY FS_Interval
    <2> QED
      BY <1>8, <1>10, <2>1, FS_Injection
  <1>12. PICK j \in J : occ[j] = p - 1
    <2>1. p - 1 \in 0..(count - 1)
      OBVIOUS
    <2> QED
      BY <1>11, <2>1 DEF Surjection
  <1>13. OccurrenceAt(mine, cmp, j) + 1 = p
    BY <1>9, <1>12
  <1>14. j \in DOMAIN cmp /\ CounterpartOf(theirs, ref, mine, cmp, j) = group[p]
    BY <1>2, <1>7, <1>13 DEF CounterpartOf
  <1> QED
    BY <1>6, <1>14

\* What the command line and the place of the loops say of each other
PlanAtHand ==
  /\ pc \in {"arguments", "files"} => at.file = 0
  /\ pc \notin {"arguments", "exited"} =>
       /\ plan.filters = build_benchmark_filter_plan(cmd.filter_actions)
       /\ plan.filters # Refused
       /\ Refused \notin {cmd.reference_devices, cmd.compare_devices}
  /\ pc = "bench" => at.pair = 1
  /\ pc \in {"section", "state"} => FilterGroups # {}

Finished == pc = "report" \/ Done

\* Between two pairs of files, all of the first one has been passed.
FilesPassed ==
  /\ (pc = "read" \/ Finished) =>
       \/ at.file = 0
       \/ /\ at.file \in DOMAIN todo /\ todo[at.file][2] # Unreadable
          /\ at.bench > Len(todo[at.file][2].benchmarks)
  /\ Finished => at.file = Len(todo) /\ Refused # cmd.compare_devices

Mine(f, b) == AskedDevices(todo[f][2].benchmarks[b], cmd.compare_devices)

\* What EveryStateAskedForOnce says of a pair of devices of a benchmark
Judged(f, b, k) ==
  LET cmp == todo[f][2].benchmarks[b]
      r == find_matching_bench(cmp, todo[f][1].benchmarks)
      ref == todo[f][1].benchmarks[r]
      theirs == AskedDevices(ref, cmd.reference_devices)
      here == Places(f, b, k)
  IN IF r = 0 \/ ~ AsksForBenchmark(cmp.name)
     THEN here = {}
     ELSE /\ {compared[i].cmp : i \in here} = Asked(cmp, Mine(f, b)[k])
          /\ {compared[i].ref : i \in here} = Asked(ref, theirs[k])
          /\ Cardinality(here) = Cardinality(Asked(cmp, Mine(f, b)[k]))

JudgedSoFar ==
  (Working \/ Finished) =>
    \A f \in DOMAIN todo : \A b \in DOMAIN todo[f][2].benchmarks : \A k \in DOMAIN Mine(f, b) :
      Before([file |-> f, bench |-> b, pair |-> k], at) => Judged(f, b, k)

ComparedApart ==
  \A i, j \in DOMAIN compared :
    (compared[i].at = compared[j].at /\ compared[i].cmp = compared[j].cmp) => i = j

\* The states the loop has passed have been compared.
SectionRecorded ==
  pc = "state" =>
    \A j \in 1..(section.next - 1) :
      \E i \in DOMAIN compared :
        compared[i].at = at /\ compared[i].cmp = section.cmp[j] /\ compared[i].ref = CounterpartAt(j)

\* At the end of its section, a pair of devices has been judged.
LEMMA SectionJudged ==
  ASSUME Standing, ComparedSoFar, PlanAtHand, ComparedApart, SectionRecorded,
         pc = "state", section.next > Len(section.cmp)
  PROVE  Judged(at.file, at.bench, at.pair)
  <1>1. PICK here : here = Places(at.file, at.bench, at.pair)
    OBVIOUS
  <1>2. PICK cmp : cmp = section.cmp
    OBVIOUS
  <1>3. PICK ref : ref = section.ref
    OBVIOUS
  <1>4. PICK mine : mine = CmpBench
    OBVIOUS
  <1>5. PICK theirs : theirs = RefBench
    OBVIOUS
  <1>6. here = {i \in DOMAIN compared : compared[i].at = at}
    <2>1. at = [file |-> at.file, bench |-> at.bench, pair |-> at.pair]
      BY DEF Standing, AtFile
    <2> QED
      BY <1>1, <2>1 DEF Places
  <1>7. /\ Ascending(cmp) /\ Ascending(ref)
        /\ SameGroups(theirs.states, ref, mine.states, cmp)
    BY <1>2, <1>3, <1>4, <1>5, SectionAscends DEF Standing, AtSection, GroupsMatch
  <1>8. PICK m \in Nat : DOMAIN cmp = 1..m /\ m + 1 = section.next
    <2>1. PICK m \in Nat : m = Len(cmp) /\ DOMAIN cmp = 1..m
      BY <1>7, RangeOfPlaces
    <2>2. section.next \in Nat /\ section.next <= m + 1
      BY <1>2, <2>1 DEF Standing, AtSection
    <2> QED
      BY <1>2, <2>1, <2>2
  <1>9. \A j \in 1..m : CounterpartAt(j) = CounterpartOf(theirs.states, ref, mine.states, cmp, j)
    BY <1>2, <1>3, <1>4, <1>5 DEF CounterpartAt
  <1>10. ASSUME NEW i \in here
         PROVE  \E j \in 1..m : /\ compared[i].cmp = cmp[j]
                                /\ compared[i].ref
                                     = CounterpartOf(theirs.states, ref, mine.states, cmp, j)
    <2>1. compared[i].at \in [file : Nat, bench : Nat, pair : Nat] /\ compared[i].at = at
      BY <1>6 DEF ComparedSoFar
    <2>2. ~ Before(compared[i].at, at)
      BY <2>1 DEF Before
    <2>3. OfThisSection(compared[i])
      BY <1>6, <2>2 DEF ComparedSoFar, Working
    <2>4. section.next - 1 = m
      BY <1>8
    <2> QED
      BY <1>2, <1>9, <2>3, <2>4 DEF OfThisSection
  <1>11. ASSUME NEW j \in 1..m
         PROVE  \E i \in here : /\ compared[i].cmp = cmp[j]
                                /\ compared[i].ref
                                     = CounterpartOf(theirs.states, ref, mine.states, cmp, j)
    <2>1. j \in 1..(section.next - 1)
      BY <1>8
    <2> QED
      BY <1>2, <1>6, <1>9, <2>1 DEF SectionRecorded
  <1>12. {compared[i].cmp : i \in here} = Range(cmp)
    BY <1>8, <1>10, <1>11 DEF Range
  <1>13. {compared[i].ref : i \in here} = Range(ref)
    <2>1. \A i \in here : compared[i].ref \in Range(ref)
      BY <1>7, <1>8, <1>10, Counterparts
    <2>2. \A r \in Range(ref) : \E i \in here : compared[i].ref = r
      <3> TAKE r \in Range(ref)
      <3>1. PICK j \in 1..m : CounterpartOf(theirs.states, ref, mine.states, cmp, j) = r
        BY <1>7, <1>8, CounterpartsCover
      <3> QED
        BY <1>11, <3>1
    <2> QED
      BY <2>1, <2>2
  <1>14. Cardinality(here) = Cardinality(Range(cmp))
    <2>1. PICK f : f = [i \in here |-> compared[i].cmp]
      OBVIOUS
    <2>2. IsFiniteSet(Range(cmp))
      BY <1>7, RangeOfPlaces
    <2>3. f \in [here -> Range(cmp)]
      BY <1>12, <2>1
    <2>4. \A x, y \in here : f[x] = f[y] => x = y
      BY <1>6, <2>1 DEF ComparedApart
    <2>5. \A t \in Range(cmp) : \E x \in here : f[x] = t
      BY <1>12, <2>1
    <2> QED
      BY <2>2, <2>3, <2>4, <2>5, SameSize
  <1>15. /\ Sequence(mine.states) /\ Sequence(theirs.states) /\ theirs.name = mine.name
         /\ mine = todo[at.file][2].benchmarks[at.bench]
         /\ theirs = todo[at.file][1].benchmarks[
                       find_matching_bench(mine, todo[at.file][1].benchmarks)]
    BY <1>4, <1>5, BothHaveStates
  <1>16. PICK groups : groups = FilterGroups
    OBVIOUS
  <1>17. /\ groups # {} /\ AsksForBenchmark(mine.name)
         /\ \A state : matches_axis_filter_groups(state, groups) <=> AsksFor(mine.name, state)
    <2>1. groups = axis_filter_groups_for_benchmark(mine.name, plan.filters)
      BY <1>4, <1>16 DEF FilterGroups
    <2>2. PICK filters : filters = plan.filters
      OBVIOUS
    <2>3. /\ cmd \in Commands /\ filters = build_benchmark_filter_plan(cmd.filter_actions)
          /\ filters # Refused /\ groups # {}
      BY <1>16, <2>2 DEF Standing, PlanAtHand
    <2> QED
      BY <2>1, <2>2, <2>3, FiltersAsWritten
  <1>18. ASSUME NEW bench, NEW id, Sequence(bench.states), bench.name = mine.name
         PROVE  Range(DeviceStates(bench.states, id, groups)) = Asked(bench, id)
    BY <1>17, <1>18, DeviceStatesAscend DEF Asked
  <1>19. /\ cmp = DeviceStates(mine.states, CmpIds[at.pair], groups)
         /\ ref = DeviceStates(theirs.states, RefIds[at.pair], groups)
    BY <1>2, <1>3, <1>4, <1>5, <1>16 DEF Standing, AtSection
  <1>20. /\ Range(cmp) = Asked(mine, CmpIds[at.pair])
         /\ Range(ref) = Asked(theirs, RefIds[at.pair])
    BY <1>15, <1>18, <1>19
  <1>21. /\ CmpIds = AskedDevices(mine, cmd.compare_devices)
         /\ RefIds = AskedDevices(theirs, cmd.reference_devices)
    BY <1>4, <1>5 DEF Standing, AtBench, CmpIds, RefIds, resolve_benchmark_device_ids,
                      AskedDevices
  <1>22. find_matching_bench(mine, todo[at.file][1].benchmarks) # 0
    BY <1>4 DEF Standing, AtBench, AtFile, RefPlace
  <1> QED
    BY <1>1, <1>12, <1>13, <1>14, <1>15, <1>17, <1>20, <1>21, <1>22 DEF Judged, Mine

LEMMA PlanStep ==
  ASSUME Standing, PlanAtHand, [Next]_vars
  PROVE  PlanAtHand'
  <1>1. CASE UNCHANGED vars
    <2>1. UNCHANGED <<cmd, pc, plan, inputs, at>>
      BY <1>1 DEF vars
    <2>2. FilterGroups' = FilterGroups
      BY <2>1, SameBenchmark
    <2> QED
      BY <2>1, <2>2 DEF PlanAtHand
  <1>2. CASE CheckArguments
    <2>1. UNCHANGED <<cmd, at>> /\ pc = "arguments" /\ pc' \in {"exited", "files"}
      BY <1>2 DEF CheckArguments, Exit, Goto
    <2>2. ASSUME pc' = "files"
          PROVE  /\ plan'.filters = build_benchmark_filter_plan(cmd.filter_actions)
                 /\ plan'.filters # Refused
                 /\ Refused \notin {cmd.reference_devices, cmd.compare_devices}
      <3>1. PICK filters : filters = build_benchmark_filter_plan(cmd.filter_actions)
        OBVIOUS
      <3>2. PICK thresholds :
              thresholds = resolve_comparison_thresholds(cmd.preset, cmd.config).thresholds
        OBVIOUS
      <3>3. /\ plan' = [thresholds |-> thresholds, filters |-> filters]
            /\ filters # Refused
            /\ Refused \notin {cmd.reference_devices, cmd.compare_devices}
        BY <1>2, <2>2, <3>1, <3>2 DEF CheckArguments, Exit, Goto
      <3> QED
        BY <3>1, <3>3
    <2> QED
      BY <2>1, <2>2 DEF PlanAtHand
  <1>3. CASE FindFiles
    BY <1>3 DEF FindFiles, Exit, Goto, PlanAtHand
  <1>4. CASE ReadInputs
    BY <1>4 DEF ReadInputs, Exit, Goto, PlanAtHand
  <1>5. CASE SkipBenchmark
    <2>1. at' = [at EXCEPT !.bench = @ + 1] /\ at \in [file : Nat, bench : Nat, pair : Nat]
      BY <1>5 DEF SkipBenchmark, Standing, AtFile
    <2>2. at'.pair = at.pair
      BY <2>1
    <2> QED
      BY <1>5, <2>2 DEF SkipBenchmark, PlanAtHand
  <1>6. CASE StartBenchmark
    <2>1. UNCHANGED <<cmd, plan, inputs, at>> /\ pc = "bench" /\ pc' \in {"exited", "section"}
      BY <1>6 DEF StartBenchmark, Exit, Goto
    <2>2. FilterGroups' = FilterGroups /\ FilterGroups # {}
      BY <1>6, <2>1, SameBenchmark DEF StartBenchmark
    <2> QED
      BY <2>1, <2>2 DEF PlanAtHand
  <1>7. CASE StartSection \/ CompareState
    <2>1. /\ UNCHANGED <<cmd, plan, inputs, at>> /\ pc \in {"section", "state"}
          /\ pc' \in {"exited", "state"}
      <3>1. CASE StartSection
        BY <3>1 DEF StartSection, Exit, Goto
      <3>2. CASE CompareState
        <4>1. PICK centers : centers = Centers(RefBench.states[PairedPlace], CmpState)
          OBVIOUS
        <4>2. PICK judged : judged = DecisionOf(RefBench.states[PairedPlace], CmpState)
          OBVIOUS
        <4>3. UNCHANGED <<cmd, plan, inputs, at>> /\ pc = "state" /\ Judge(judged, centers)
          BY <3>2, <4>1, <4>2 DEF CompareState
        <4> QED
          BY <4>3 DEF Judge, RefusePoint, RecordState, Exit, Goto
      <3> QED
        BY <1>7, <3>1, <3>2
    <2>2. FilterGroups' = FilterGroups
      BY <2>1, SameBenchmark
    <2> QED
      BY <2>1, <2>2 DEF PlanAtHand
  <1>8. CASE EndBenchmark
    <2>1. /\ at' = [at EXCEPT !.bench = @ + 1, !.pair = 1]
          /\ at \in [file : Nat, bench : Nat, pair : Nat]
      BY <1>8 DEF EndBenchmark, Standing, AtFile
    <2>2. at'.pair = 1
      BY <2>1
    <2> QED
      BY <1>8, <2>2 DEF EndBenchmark, Goto, PlanAtHand
  <1>9. CASE EndSection
    <2>1. /\ UNCHANGED <<cmd, plan, inputs>> /\ pc = "state" /\ pc' \in {"exited", "section"}
          /\ at' = [at EXCEPT !.pair = @ + 1] /\ at \in [file : Nat, bench : Nat, pair : Nat]
      BY <1>9 DEF EndSection, SavePlot, Exit, Goto, Standing, AtFile
    <2>2. at'.bench = at.bench
      BY <2>1
    <2>3. FilterGroups' = FilterGroups
      BY <2>1, <2>2, SameBenchmark
    <2> QED
      BY <2>1, <2>3 DEF PlanAtHand
  <1>10. CASE EndFile \/ Report
    <2>1. /\ UNCHANGED <<cmd, plan, at>> /\ pc \in {"bench", "report"}
          /\ pc' \in {"exited", "read", "report"}
      BY <1>10 DEF EndFile, Report, SavePlot, Exit, Goto
    <2> QED
      BY <2>1 DEF PlanAtHand
  <1>11. CASE Terminating
    BY <1>1, <1>11 DEF Terminating
  <1> QED
    BY <1>1, <1>2, <1>3, <1>4, <1>5, <1>6, <1>7, <1>8, <1>9, <1>10, <1>11 DEF Next

LEMMA FilesStep ==
  ASSUME Standing, PlanAtHand, FilesPassed, [Next]_vars
  PROVE  FilesPassed'
  <1>1. CASE UNCHANGED vars
    BY <1>1 DEF vars, FilesPassed, Finished, Done
  <1>2. CASE CheckArguments
    <2>1. UNCHANGED <<cmd>> /\ pc' \in {"exited", "files"} /\ (pc' = "exited" => exit' = 1 \/ cmd.dump_config)
      BY <1>2 DEF CheckArguments, Exit, Goto
    <2> QED
      BY <2>1 DEF FilesPassed, Finished, Done
  <1>3. CASE FindFiles
    <2>1. /\ pc = "files" /\ at' = at /\ pc' \in {"exited", "read"}
          /\ pc' = "exited" => exit' = 1
      BY <1>3 DEF FindFiles, Exit, Goto
    <2> QED
      BY <2>1 DEF FilesPassed, Finished, Done, PlanAtHand
  <1>4. CASE ReadInputs \/ SkipBenchmark \/ StartBenchmark \/ StartSection \/ EndBenchmark
             \/ EndSection
    <2>1. pc' \in {"exited", "bench", "section", "state"} /\ (pc' = "exited" => exit' = 1)
      BY <1>4 DEF ReadInputs, SkipBenchmark, StartBenchmark, StartSection, EndBenchmark,
                  EndSection, SavePlot, Exit, Goto
    <2> QED
      BY <2>1 DEF FilesPassed, Finished, Done
  <1>5. CASE CompareState
    <2>1. PICK centers : centers = Centers(RefBench.states[PairedPlace], CmpState)
      OBVIOUS
    <2>2. PICK judged : judged = DecisionOf(RefBench.states[PairedPlace], CmpState)
      OBVIOUS
    <2>3. Judge(judged, centers)
      BY <1>5, <2>1, <2>2 DEF CompareState
    <2>4. pc' \in {"exited", "state"} /\ (pc' = "exited" => exit' = 1)
      BY <2>3 DEF Judge, RefusePoint, RecordState, Exit, Goto
    <2> QED
      BY <2>4 DEF FilesPassed, Finished, Done
  <1>6. CASE EndFile
    <2>1. /\ UNCHANGED <<cmd, todo, at>> /\ pc = "bench" /\ at.bench > Len(inputs.cmp)
          /\ pc' \in {"exited", "read", "report"} /\ (pc' = "exited" => exit' = 1)
          /\ pc' = "report" => at.file = Len(todo)
      BY <1>6 DEF EndFile, SavePlot, Exit, Goto
    <2>2. /\ at.file \in DOMAIN todo /\ todo[at.file][2] # Unreadable
          /\ inputs.cmp = todo[at.file][2].benchmarks
      BY <2>1 DEF Standing, AtFile
    <2> QED
      BY <2>1, <2>2 DEF FilesPassed, Finished, Done, PlanAtHand
  <1>7. CASE Report
    <2>1. UNCHANGED <<cmd, todo, at>> /\ pc = "report" /\ pc' = "exited"
      BY <1>7 DEF Report, Exit
    <2> QED
      BY <2>1 DEF FilesPassed, Finished, Done
  <1>8. CASE Terminating
    BY <1>1, <1>8 DEF Terminating
  <1> QED
    BY <1>1, <1>2, <1>3, <1>4, <1>5, <1>6, <1>7, <1>8 DEF Next

LEMMA RecordedStep ==
  ASSUME Standing, ComparedSoFar, ComparedApart, SectionRecorded, [Next]_vars
  PROVE  ComparedApart' /\ SectionRecorded'
  <1>1. CASE UNCHANGED vars
    <2>1. UNCHANGED <<cmd, pc, plan, inputs, at, section, compared>>
      BY <1>1 DEF vars
    <2>2. CmpBench' = CmpBench /\ RefBench' = RefBench
      BY <2>1, SameBenchmark
    <2> QED
      BY <2>1, <2>2 DEF ComparedApart, SectionRecorded, CounterpartAt
  <1>2. CASE StartSection
    <2>1. /\ UNCHANGED compared /\ pc' \in {"exited", "state"}
          /\ pc' = "state" => section'.next = 1
      BY <1>2 DEF StartSection, Results, Exit, Goto
    <2>2. \A j \in 1..(1 - 1) : FALSE
      OBVIOUS
    <2> QED
      BY <2>1, <2>2 DEF ComparedApart, SectionRecorded
  <1>3. CASE CompareState
    <2>1. /\ UNCHANGED <<cmd, plan, inputs, at>> /\ pc = "state"
          /\ section.next <= Len(section.cmp)
          /\ Judge(DecisionOf(RefBench.states[PairedPlace], CmpState),
                   Centers(RefBench.states[PairedPlace], CmpState))
      BY <1>3 DEF CompareState
    <2>2. PICK centers : centers = Centers(RefBench.states[PairedPlace], CmpState)
      OBVIOUS
    <2>3. PICK judged : judged = DecisionOf(RefBench.states[PairedPlace], CmpState)
      OBVIOUS
    <2>4. CASE RefusePoint
      BY <2>4 DEF RefusePoint, Exit, ComparedApart, SectionRecorded
    <2>5. CASE RecordState(judged, centers, Shown(judged.status, centers))
      <3>1. PICK shown : shown = Shown(judged.status, centers)
        OBVIOUS
      <3>2. PICK c : c = [at |-> at, ref |-> PairedPlace, cmp |-> CmpPlace,
                          status |-> judged.status, shown |-> shown]
        OBVIOUS
      <3>3. /\ compared' = Append(compared, c) /\ section'.next = section.next + 1
            /\ section'.cmp = section.cmp /\ section'.ref = section.ref
        BY <2>1, <2>5, <3>1, <3>2 DEF RecordState, Standing, AtSection
      <3>4. PICK n \in Nat : n = Len(compared)
        BY Appended DEF ComparedSoFar
      <3>5. /\ DOMAIN compared = 1..n /\ DOMAIN compared' = 1..(n + 1)
            /\ \A i \in 1..n : compared'[i] = compared[i]
            /\ compared'[n + 1] = c
            /\ \A i \in 1..(n + 1) : i \in 1..n \/ i = n + 1
        BY <3>3, <3>4, Appended DEF ComparedSoFar
      <3>6. PICK k \in Nat \ {0} : k = section.next
        BY <2>1 DEF Standing, AtSection
      <3>7. /\ Ascending(section.cmp) /\ k \in DOMAIN section.cmp
            /\ c.at = at /\ c.cmp = section.cmp[k] /\ c.ref = CounterpartAt(k)
        BY <2>1, <3>2, <3>6, SectionAscends, StateAtHand
      <3>8. ASSUME NEW i \in 1..n, compared[i].at = at
            PROVE  compared[i].cmp # section.cmp[k]
        <4>1. compared[i].at \in [file : Nat, bench : Nat, pair : Nat]
          BY <3>5 DEF ComparedSoFar
        <4>2. ~ Before(compared[i].at, at)
          BY <3>8, <4>1 DEF Before
        <4>3. OfThisSection(compared[i])
          BY <2>1, <3>5, <4>2 DEF ComparedSoFar, Working
        <4>4. PICK j \in 1..(k - 1) : compared[i].cmp = section.cmp[j]
          BY <3>6, <4>3 DEF OfThisSection
        <4>5. j \in DOMAIN section.cmp /\ j # k
          <5>1. PICK m \in Nat : DOMAIN section.cmp = 1..m
            BY <3>7, RangeOfPlaces
          <5> QED
            BY <3>7, <5>1
        <4> QED
          BY <3>7, <4>4, <4>5, RangeOfPlaces
      <3>9. ComparedApart'
        <4>1. PICK all : all = compared'
          OBVIOUS
        <4>2. \A i, j \in 1..n : (all[i].at = all[j].at /\ all[i].cmp = all[j].cmp) => i = j
          BY <3>5, <4>1 DEF ComparedApart
        <4>3. \A i \in 1..n : ~ (all[i].at = c.at /\ all[i].cmp = c.cmp)
          BY <3>5, <3>7, <3>8, <4>1
        <4>4. \A i, j \in 1..(n + 1) : (all[i].at = all[j].at /\ all[i].cmp = all[j].cmp) => i = j
          BY <3>5, <4>1, <4>2, <4>3
        <4> QED
          BY <3>5, <4>1, <4>4 DEF ComparedApart
      <3>10. CmpBench' = CmpBench /\ RefBench' = RefBench
        BY <2>1, SameBenchmark
      <3>11. ASSUME NEW j \in 1..(section'.next - 1)
             PROVE  \E i \in DOMAIN compared' :
                      /\ compared'[i].at = at' /\ compared'[i].cmp = section'.cmp[j]
                      /\ compared'[i].ref = CounterpartOf(RefBench'.states, section'.ref,
                                                         CmpBench'.states, section'.cmp, j)
        <4>1. j \in 1..(k - 1) \/ j = k
          BY <3>3, <3>6
        <4>2. CASE j \in 1..(k - 1)
          <5>1. PICK i \in 1..n :
                  /\ compared[i].at = at /\ compared[i].cmp = section.cmp[j]
                  /\ compared[i].ref = CounterpartOf(RefBench.states, section.ref,
                                                     CmpBench.states, section.cmp, j)
            BY <2>1, <3>5, <3>6, <4>2 DEF SectionRecorded, CounterpartAt
          <5>2. i \in 1..(n + 1)
            OBVIOUS
          <5> QED
            BY <2>1, <3>3, <3>5, <3>10, <5>1, <5>2
        <4>3. CASE j = k
          <5>1. c.ref = CounterpartOf(RefBench.states, section.ref,
                                      CmpBench.states, section.cmp, k)
            BY <3>7 DEF CounterpartAt
          <5>2. n + 1 \in 1..(n + 1)
            OBVIOUS
          <5> QED
            BY <2>1, <3>3, <3>5, <3>7, <3>10, <4>3, <5>1, <5>2
        <4> QED
          BY <4>1, <4>2, <4>3
      <3>12. SectionRecorded'
        BY <3>11 DEF SectionRecorded, CounterpartAt
      <3> QED
        BY <3>9, <3>12
    <2> QED
      BY <2>1, <2>2, <2>3, <2>4, <2>5 DEF Judge
  <1>4. ASSUME UNCHANGED compared, pc' # "state"
        PROVE  ComparedApart' /\ SectionRecorded'
    BY <1>4 DEF ComparedApart, SectionRecorded
  <1>5. CASE CheckArguments \/ FindFiles \/ ReadInputs \/ SkipBenchmark \/ StartBenchmark
             \/ EndBenchmark \/ EndSection \/ EndFile \/ Report
    <2>1. UNCHANGED compared /\ pc' # "state"
      BY <1>5 DEF CheckArguments, FindFiles, ReadInputs, SkipBenchmark, StartBenchmark,
                  EndBenchmark, EndSection, SavePlot, EndFile, Report, Results, Exit, Goto
    <2> QED
      BY <1>4, <2>1
  <1> QED
    BY <1>1, <1>2, <1>3, <1>5 DEF Next, Terminating

\* What the command line asks for stays as it is.
LEMMA SameAsked ==
  ASSUME UNCHANGED cmd
  PROVE  /\ \A name : AsksForBenchmark(name)' <=> AsksForBenchmark(name)
         /\ \A bench, id : Asked(bench, id)' = Asked(bench, id)
  <1>1. Actions' = Actions
    BY DEF Actions
  <1>2. Scopes' = Scopes /\ \A i : IsAxis(i)' <=> IsAxis(i)
    BY <1>1 DEF Scopes, IsAxis
  <1>3. \A i : ScopeOf(i)' = ScopeOf(i)
    BY <1>1, <1>2 DEF ScopeOf
  <1>4. \A j, state : Holds(j, state)' <=> Holds(j, state)
    BY <1>1 DEF Holds
  <1>5. \A name : AsksForBenchmark(name)' <=> AsksForBenchmark(name)
    BY <1>1, <1>2 DEF AsksForBenchmark
  <1>6. \A name, state : AsksFor(name, state)' <=> AsksFor(name, state)
    BY <1>1, <1>2, <1>3, <1>4 DEF AsksFor
  <1>7. \A bench, id : Asked(bench, id)' = Asked(bench, id)
    BY <1>6 DEF Asked
  <1> QED
    BY <1>5, <1>7

LEMMA JudgedStays ==
  ASSUME UNCHANGED <<cmd, todo>>, NEW f, NEW b, NEW k, Judged(f, b, k),
         Places(f, b, k)' = Places(f, b, k),
         \A i \in Places(f, b, k) : compared'[i] = compared[i]
  PROVE  Judged(f, b, k)'
  <1>1. PICK here : here = Places(f, b, k) /\ here = Places(f, b, k)'
    OBVIOUS
  <1>2. PICK cmp : cmp = todo[f][2].benchmarks[b]
    OBVIOUS
  <1>3. PICK r : r = find_matching_bench(cmp, todo[f][1].benchmarks)
    OBVIOUS
  <1>4. PICK ref : ref = todo[f][1].benchmarks[r]
    OBVIOUS
  <1>5. PICK mine : mine = AskedDevices(cmp, cmd.compare_devices)
    OBVIOUS
  <1>6. PICK theirs : theirs = AskedDevices(ref, cmd.reference_devices)
    OBVIOUS
  <1>7. PICK asked : asked = [cmp |-> Asked(cmp, mine[k]), ref |-> Asked(ref, theirs[k])]
    OBVIOUS
  <1>8. /\ AsksForBenchmark(cmp.name) <=> AsksForBenchmark(cmp.name)'
        /\ asked.cmp = Asked(cmp, mine[k])' /\ asked.ref = Asked(ref, theirs[k])'
    BY <1>7, SameAsked
  <1>9. /\ {compared'[i].cmp : i \in here} = {compared[i].cmp : i \in here}
        /\ {compared'[i].ref : i \in here} = {compared[i].ref : i \in here}
    BY <1>1
  <1>10. IF r = 0 \/ ~ AsksForBenchmark(cmp.name)
         THEN here = {}
         ELSE /\ {compared[i].cmp : i \in here} = asked.cmp
              /\ {compared[i].ref : i \in here} = asked.ref
              /\ Cardinality(here) = Cardinality(asked.cmp)
    BY <1>1, <1>2, <1>3, <1>4, <1>5, <1>6, <1>7 DEF Judged, Mine
  <1> QED
    BY <1>1, <1>2, <1>3, <1>4, <1>5, <1>6, <1>8, <1>9, <1>10 DEF Judged, Mine

\* The benchmarks of a file that was read and their devices are sequences.
LEMMA PairsOfDevices ==
  ASSUME Standing, NEW f \in DOMAIN todo, todo[f][2] # Unreadable,
         Refused # cmd.compare_devices, NEW b \in DOMAIN todo[f][2].benchmarks
  PROVE  /\ b \in Nat \ {0} /\ b <= Len(todo[f][2].benchmarks)
         /\ Len(todo[f][2].benchmarks) \in Nat
         /\ DOMAIN Mine(f, b) = 1..Len(Mine(f, b)) /\ Len(Mine(f, b)) \in Nat
  <1>1. PICK file : file = todo[f][2]
    OBVIOUS
  <1>2. ResultFile(file)
    <2>1. 2 \in 1..2
      OBVIOUS
    <2> QED
      BY <1>1, <2>1 DEF Standing, FilesRead
  <1>3. /\ Sequence(file.benchmarks) /\ Sequence(file.benchmarks[b].devices)
    BY <1>1, <1>2 DEF ResultFile
  <1>4. DOMAIN file.benchmarks = 1..Len(file.benchmarks) /\ Len(file.benchmarks) \in Nat
    BY <1>3 DEF Sequence
  <1>5. PICK mine : mine = Mine(f, b)
    OBVIOUS
  <1>6. Sequence(mine)
    <2>1. mine = IF cmd.compare_devices = None THEN file.benchmarks[b].devices
                 ELSE cmd.compare_devices
      BY <1>1, <1>5 DEF Mine, AskedDevices
    <2>2. cmd.compare_devices # None => Sequence(cmd.compare_devices)
      BY CommandAssumption DEF Standing
    <2> QED
      BY <1>3, <2>1, <2>2
  <1>7. DOMAIN mine = 1..Len(mine) /\ Len(mine) \in Nat
    BY <1>6 DEF Sequence
  <1> QED
    BY <1>1, <1>4, <1>5, <1>7

\* The loops go on to a place when everything before it has been judged.
LEMMA JudgedOnward ==
  ASSUME JudgedSoFar, Working \/ Finished, UNCHANGED <<cmd, todo, compared>>,
         \A f \in DOMAIN todo : \A b \in DOMAIN todo[f][2].benchmarks :
           \A k \in DOMAIN Mine(f, b) :
             LET p == [file |-> f, bench |-> b, pair |-> k]
             IN Before(p, at') => Before(p, at) \/ Judged(f, b, k)
  PROVE  JudgedSoFar'
  <1> SUFFICES ASSUME NEW f \in DOMAIN todo, NEW b \in DOMAIN todo[f][2].benchmarks,
                      NEW k \in DOMAIN Mine(f, b),
                      Before([file |-> f, bench |-> b, pair |-> k], at')
               PROVE  Judged(f, b, k)'
    <2>1. \A f, b : Mine(f, b)' = Mine(f, b)
      BY DEF Mine, AskedDevices
    <2>2. \A p : Before(p, at)' <=> Before(p, at')
      BY DEF Before
    <2> QED
      BY <2>1, <2>2 DEF JudgedSoFar
  <1>1. Judged(f, b, k)
    BY DEF JudgedSoFar
  <1>2. Places(f, b, k)' = Places(f, b, k)
    BY DEF Places
  <1> QED
    BY <1>1, <1>2, JudgedStays

LEMMA JudgedStep ==
  ASSUME Standing, Standing', ComparedSoFar, PlanAtHand, FilesPassed, ComparedApart,
         SectionRecorded, JudgedSoFar, [Next]_vars
  PROVE  JudgedSoFar'
  <1>1. at \in [file : Nat, bench : Nat, pair : Nat]
    BY DEF Standing, AtFile
  <1>2. \A f \in DOMAIN todo : f \in Nat \ {0}
    BY DEF Standing, FilesRead
  <1>3. ASSUME Working \/ Finished, UNCHANGED <<cmd, todo, compared, at>>
        PROVE  JudgedSoFar'
    BY <1>3, JudgedOnward
  <1>4. CASE UNCHANGED vars
    <2>1. Working' <=> Working
      BY <1>4 DEF vars, Working
    <2>2. Finished' <=> Finished
      BY <1>4 DEF vars, Finished, Done
    <2> QED
      BY <1>3, <1>4, <2>1, <2>2 DEF vars, JudgedSoFar
  <1>5. CASE CheckArguments
    <2>1. /\ UNCHANGED cmd /\ pc' \in {"exited", "files"}
          /\ (pc' = "exited" => exit' = 1 \/ cmd.dump_config)
      BY <1>5 DEF CheckArguments, Exit, Goto
    <2> QED
      BY <2>1 DEF JudgedSoFar, Working, Finished, Done
  <1>6. CASE FindFiles
    <2>1. UNCHANGED <<cmd, at>> /\ at.file = 0
      BY <1>6 DEF FindFiles, PlanAtHand
    <2>2. \A f \in DOMAIN todo' : f \in Nat \ {0}
      BY DEF Standing, FilesRead
    <2>3. ASSUME NEW f \in DOMAIN todo', NEW b, NEW k
          PROVE  ~ Before([file |-> f, bench |-> b, pair |-> k], at')
      BY <2>1, <2>2 DEF Before
    <2> QED
      BY <2>3 DEF JudgedSoFar, Before
  <1>7. CASE ReadInputs
    <2>1. /\ UNCHANGED <<cmd, todo, compared>> /\ pc = "read" /\ pc' \in {"exited", "bench"}
          /\ (pc' = "exited" => exit' = 1)
          /\ at' = [file |-> at.file + 1, bench |-> 1, pair |-> 1]
      BY <1>7 DEF ReadInputs, Exit, Goto
    <2>2. CASE pc' = "exited"
      BY <2>1, <2>2 DEF JudgedSoFar, Working, Finished, Done
    <2>3. CASE pc' = "bench"
      <3>1. /\ todo[at.file + 1][2] # Unreadable /\ Refused # cmd.compare_devices
        <4>1. 2 \in 1..2
          OBVIOUS
        <4>2. todo[at.file + 1][2] # Unreadable
          BY <2>1, <2>3, <4>1 DEF Standing, AtFile
        <4> QED
          BY <2>1, <4>2 DEF PlanAtHand
      <3>2. ASSUME NEW f \in DOMAIN todo, NEW b \in DOMAIN todo[f][2].benchmarks,
                   NEW k \in DOMAIN Mine(f, b),
                   Before([file |-> f, bench |-> b, pair |-> k], at')
            PROVE  Before([file |-> f, bench |-> b, pair |-> k], at)
        <4>1. f < at.file \/ f = at.file \/ f = at.file + 1
          BY <1>1, <1>2, <2>1, <3>2 DEF Before
        <4>2. CASE f < at.file
          BY <4>2 DEF Before
        <4>3. CASE f = at.file
          <5>1. todo[f][2] # Unreadable /\ at.bench > Len(todo[f][2].benchmarks)
            BY <1>2, <2>1, <4>3 DEF FilesPassed
          <5>2. /\ b \in Nat /\ b <= Len(todo[f][2].benchmarks)
                /\ Len(todo[f][2].benchmarks) \in Nat
            BY <3>1, <5>1, PairsOfDevices
          <5>3. b < at.bench
            BY <1>1, <5>1, <5>2
          <5> QED
            BY <4>3, <5>3 DEF Before
        <4>4. CASE f = at.file + 1
          <5>1. /\ b \in Nat \ {0} /\ DOMAIN Mine(f, b) = 1..Len(Mine(f, b))
                /\ Len(Mine(f, b)) \in Nat
            BY <3>1, <4>4, PairsOfDevices
          <5>2. k \in Nat \ {0}
            BY <5>1
          <5> QED
            BY <1>1, <2>1, <3>2, <4>4, <5>1, <5>2 DEF Before
        <4> QED
          BY <4>1, <4>2, <4>3, <4>4
      <3> QED
        BY <2>1, <3>2, JudgedOnward DEF Working
    <2> QED
      BY <2>1, <2>2, <2>3
  <1>8. ASSUME pc \in {"bench", "section", "state"},
               NEW f \in DOMAIN todo, f = at.file,
               NEW b \in DOMAIN todo[f][2].benchmarks, NEW k \in DOMAIN Mine(f, b)
        PROVE  /\ b \in Nat \ {0} /\ k \in Nat \ {0}
               /\ k <= Len(Mine(f, b)) /\ Len(Mine(f, b)) \in Nat
    <2>1. todo[f][2] # Unreadable /\ Refused # cmd.compare_devices
      <3>1. 2 \in 1..2
        OBVIOUS
      <3> QED
        BY <1>8, <3>1 DEF Standing, AtFile, PlanAtHand
    <2>2. /\ b \in Nat \ {0} /\ DOMAIN Mine(f, b) = 1..Len(Mine(f, b))
          /\ Len(Mine(f, b)) \in Nat
      BY <2>1, PairsOfDevices
    <2> QED
      BY <2>2
  <1>9. CASE SkipBenchmark
    <2>1. /\ UNCHANGED <<cmd, todo, compared>> /\ pc = "bench" /\ at.pair = 1
          /\ (RefPlace = 0 \/ FilterGroups = {})
          /\ at'.file = at.file /\ at'.bench = at.bench + 1 /\ at'.pair = at.pair
      BY <1>1, <1>9 DEF SkipBenchmark, Results, PlanAtHand
    <2>2. ASSUME NEW f \in DOMAIN todo, NEW b \in DOMAIN todo[f][2].benchmarks,
                 NEW k \in DOMAIN Mine(f, b),
                 Before([file |-> f, bench |-> b, pair |-> k], at')
          PROVE  Before([file |-> f, bench |-> b, pair |-> k], at) \/ Judged(f, b, k)
      <3>1. CASE f # at.file
        BY <2>1, <2>2, <3>1 DEF Before
      <3>2. CASE f = at.file
        <4>1. b \in Nat \ {0} /\ k \in Nat \ {0}
          BY <1>8, <2>1, <3>2
        <4>2. b < at.bench \/ b = at.bench
          BY <1>1, <2>1, <2>2, <3>2, <4>1 DEF Before
        <4>3. CASE b = at.bench
          <5>1. PICK cmp : cmp = todo[f][2].benchmarks[b]
            OBVIOUS
          <5>2. inputs.ref = todo[f][1].benchmarks /\ inputs.cmp = todo[f][2].benchmarks
            BY <2>1, <3>2 DEF Standing, AtFile
          <5>3. cmp = CmpBench
            BY <4>3, <5>1, <5>2 DEF CmpBench
          <5>4. \/ find_matching_bench(cmp, todo[f][1].benchmarks) = 0
                \/ ~ AsksForBenchmark(cmp.name)
            <6>1. CASE RefPlace = 0
              BY <5>2, <5>3, <6>1 DEF RefPlace
            <6>2. CASE FilterGroups = {}
              <7>1. PICK filters : filters = plan.filters
                OBVIOUS
              <7>2. /\ cmd \in Commands /\ filters # Refused
                    /\ filters = build_benchmark_filter_plan(cmd.filter_actions)
                BY <2>1, <7>1 DEF Standing, PlanAtHand
              <7>3. axis_filter_groups_for_benchmark(cmp.name, filters) = {}
                BY <5>3, <6>2, <7>1 DEF FilterGroups
              <7> QED
                BY <7>2, <7>3, FiltersAsWritten
            <6> QED
              BY <2>1, <6>1, <6>2
          <5>5. Places(f, b, k) = {}
            <6> SUFFICES ASSUME NEW i \in DOMAIN compared,
                                compared[i].at = [file |-> f, bench |-> b, pair |-> k]
                         PROVE  FALSE
              BY DEF Places
            <6>1. Before(compared[i].at, at)
              BY <2>1 DEF ComparedSoFar, Working, OfThisSection
            <6> QED
              BY <1>1, <2>1, <3>2, <4>1, <4>3, <6>1 DEF Before
          <5> QED
            BY <5>1, <5>4, <5>5 DEF Judged
        <4> QED
          BY <3>2, <4>2, <4>3 DEF Before
      <3> QED
        BY <3>1, <3>2
    <2> QED
      BY <2>1, <2>2, JudgedOnward DEF Working
  <1>10. CASE StartBenchmark \/ StartSection
    BY <1>3, <1>10 DEF StartBenchmark, StartSection, Results, Working
  <1>11. ASSUME pc \in {"section", "state"}
         PROVE  /\ CmpIds = Mine(at.file, at.bench)
                /\ Len(CmpIds) = Len(Mine(at.file, at.bench))
    <2>1. CmpBench = todo[at.file][2].benchmarks[at.bench]
      BY <1>11, BothHaveStates
    <2> QED
      BY <1>11, <2>1 DEF Standing, AtBench, CmpIds, resolve_benchmark_device_ids, Mine,
                         AskedDevices
  <1>12. CASE EndBenchmark
    <2>1. /\ UNCHANGED <<cmd, todo, compared>> /\ pc = "section" /\ at.pair > Len(CmpIds)
          /\ at'.file = at.file /\ at'.bench = at.bench + 1 /\ at'.pair = 1
      BY <1>1, <1>12 DEF EndBenchmark, Results
    <2>2. ASSUME NEW f \in DOMAIN todo, NEW b \in DOMAIN todo[f][2].benchmarks,
                 NEW k \in DOMAIN Mine(f, b),
                 Before([file |-> f, bench |-> b, pair |-> k], at')
          PROVE  Before([file |-> f, bench |-> b, pair |-> k], at)
      <3>1. CASE f # at.file
        BY <2>1, <2>2, <3>1 DEF Before
      <3>2. CASE f = at.file
        <4>1. /\ b \in Nat \ {0} /\ k \in Nat \ {0}
              /\ k <= Len(Mine(f, b)) /\ Len(Mine(f, b)) \in Nat
          BY <1>8, <2>1, <3>2
        <4>2. b < at.bench \/ b = at.bench
          BY <1>1, <2>1, <2>2, <3>2, <4>1 DEF Before
        <4>3. CASE b = at.bench
          <5>1. at.pair > Len(Mine(f, b))
            BY <1>11, <2>1, <3>2, <4>3
          <5>2. k < at.pair
            BY <1>1, <4>1, <5>1
          <5> QED
            BY <3>2, <4>3, <5>2 DEF Before
        <4> QED
          BY <3>2, <4>2, <4>3 DEF Before
      <3> QED
        BY <3>1, <3>2
    <2> QED
      BY <2>1, <2>2, JudgedOnward DEF Working
  <1>13. CASE EndSection
    <2>1. /\ UNCHANGED <<cmd, todo, compared>> /\ pc = "state" /\ section.next > Len(section.cmp)
          /\ at'.file = at.file /\ at'.bench = at.bench /\ at'.pair = at.pair + 1
      BY <1>1, <1>13 DEF EndSection
    <2>2. ASSUME NEW f \in DOMAIN todo, NEW b \in DOMAIN todo[f][2].benchmarks,
                 NEW k \in DOMAIN Mine(f, b),
                 Before([file |-> f, bench |-> b, pair |-> k], at')
          PROVE  Before([file |-> f, bench |-> b, pair |-> k], at) \/ Judged(f, b, k)
      <3>1. CASE f # at.file \/ b # at.bench
        BY <2>1, <2>2, <3>1 DEF Before
      <3>2. CASE f = at.file /\ b = at.bench
        <4>1. k \in Nat \ {0}
          BY <1>8, <2>1, <3>2
        <4>2. k < at.pair \/ k = at.pair
          BY <1>1, <2>1, <2>2, <3>2, <4>1 DEF Before
        <4>3. CASE k = at.pair
          BY <2>1, <3>2, <4>3, SectionJudged
        <4> QED
          BY <3>2, <4>2, <4>3 DEF Before
      <3> QED
        BY <3>1, <3>2
    <2> QED
      BY <2>1, <2>2, JudgedOnward DEF Working
  <1>14. CASE EndFile \/ Report
    <2>1. UNCHANGED <<cmd, todo, compared, at>> /\ pc \in {"bench", "report"}
      BY <1>14 DEF EndFile, SavePlot, Report, Results
    <2> QED
      BY <1>3, <2>1 DEF Working, Finished
  <1>15. CASE CompareState
    <2>1. /\ UNCHANGED <<cmd, todo, at>> /\ pc = "state"
          /\ Judge(DecisionOf(RefBench.states[PairedPlace], CmpState),
                   Centers(RefBench.states[PairedPlace], CmpState))
      BY <1>15 DEF CompareState
    <2>2. PICK centers : centers = Centers(RefBench.states[PairedPlace], CmpState)
      OBVIOUS
    <2>3. PICK judged : judged = DecisionOf(RefBench.states[PairedPlace], CmpState)
      OBVIOUS
    <2>4. CASE RefusePoint
      BY <1>3, <2>1, <2>4 DEF RefusePoint, Working
    <2>5. CASE RecordState(judged, centers, Shown(judged.status, centers))
      <3>1. PICK shown : shown = Shown(judged.status, centers)
        OBVIOUS
      <3>2. PICK c : c = [at |-> at, ref |-> PairedPlace, cmp |-> CmpPlace,
                          status |-> judged.status, shown |-> shown]
        OBVIOUS
      <3>3. compared' = Append(compared, c)
        BY <2>5, <3>1, <3>2 DEF RecordState
      <3>4. PICK n \in Nat : n = Len(compared)
        BY Appended DEF ComparedSoFar
      <3>5. /\ DOMAIN compared = 1..n /\ DOMAIN compared' = 1..(n + 1)
            /\ \A i \in 1..n : compared'[i] = compared[i]
            /\ compared'[n + 1] = c
        BY <3>3, <3>4, Appended DEF ComparedSoFar
      <3>6. ASSUME NEW f \in DOMAIN todo, NEW b \in DOMAIN todo[f][2].benchmarks,
                   NEW k \in DOMAIN Mine(f, b),
                   Before([file |-> f, bench |-> b, pair |-> k], at)
            PROVE  Judged(f, b, k)'
        <4>1. Judged(f, b, k)
          BY <2>1, <3>6 DEF JudgedSoFar, Working
        <4>2. c.at # [file |-> f, bench |-> b, pair |-> k]
          BY <1>1, <3>2, <3>6 DEF Before
        <4>3. Places(f, b, k)' = Places(f, b, k)
          <5>1. PICK all : all = compared'
            OBVIOUS
          <5>2. PICK p : p = [file |-> f, bench |-> b, pair |-> k]
            OBVIOUS
          <5>3. {i \in 1..(n + 1) : all[i].at = p} = {i \in 1..n : compared[i].at = p}
            <6>1. \A i \in 1..(n + 1) : i \in 1..n \/ i = n + 1
              OBVIOUS
            <6>2. \A i \in 1..n : i \in 1..(n + 1)
              OBVIOUS
            <6> QED
              BY <3>5, <4>2, <5>1, <5>2, <6>1, <6>2
          <5> QED
            BY <3>5, <5>1, <5>2, <5>3 DEF Places
        <4>4. \A i \in Places(f, b, k) : compared'[i] = compared[i]
          BY <3>5 DEF Places
        <4> QED
          BY <2>1, <4>1, <4>3, <4>4, JudgedStays
      <3>7. \A f, b : Mine(f, b)' = Mine(f, b)
        BY <2>1 DEF Mine, AskedDevices
      <3>8. \A p : Before(p, at)' <=> Before(p, at)
        BY <2>1 DEF Before
      <3> QED
        BY <2>1, <3>6, <3>7, <3>8 DEF JudgedSoFar
    <2> QED
      BY <2>1, <2>2, <2>3, <2>4, <2>5 DEF Judge
  <1>16. CASE Terminating
    BY <1>4, <1>16 DEF Terminating
  <1> QED
    BY <1>4, <1>5, <1>6, <1>7, <1>9, <1>10, <1>12, <1>13, <1>14, <1>15, <1>16 DEF Next

\* When the tool reports success, it has passed every pair of devices of every
\* benchmark of every pair of files.
LEMMA EverythingPassed ==
  ASSUME Standing, FilesPassed, JudgedSoFar, Done,
         NEW f \in DOMAIN todo, NEW b \in DOMAIN todo[f][2].benchmarks,
         NEW k \in DOMAIN Mine(f, b)
  PROVE  Judged(f, b, k)
  <1>1. /\ at \in [file : Nat, bench : Nat, pair : Nat] /\ f \in 1..Len(todo)
        /\ Len(todo) \in Nat /\ at.file = Len(todo) /\ Refused # cmd.compare_devices
    BY DEF Standing, AtFile, FilesRead, FilesPassed, Finished
  <1>2. Before([file |-> f, bench |-> b, pair |-> k], at)
    <2>1. CASE f < at.file
      BY <2>1 DEF Before
    <2>2. CASE f = at.file
      <3>1. todo[f][2] # Unreadable /\ at.bench > Len(todo[f][2].benchmarks)
        BY <1>1, <2>2 DEF FilesPassed, Finished
      <3>2. b \in Nat /\ b <= Len(todo[f][2].benchmarks) /\ Len(todo[f][2].benchmarks) \in Nat
        BY <1>1, <3>1, PairsOfDevices
      <3>3. b < at.bench
        BY <1>1, <3>1, <3>2
      <3> QED
        BY <2>2, <3>3 DEF Before
    <2> QED
      BY <1>1, <2>1, <2>2
  <1> QED
    BY <1>2 DEF JudgedSoFar, Finished

\* When the tool reports success, every state the command line asks for, of
\* either file, in every pair of devices of every benchmark both have, was
\* compared exactly once, and no other one (BenchmarkFilterPlan, compare_benches).
THEOREM StatesAreComparedOnce == Spec => []EveryStateAskedForOnce
  <1> DEFINE Inv == /\ PlanAtHand /\ FilesPassed /\ ComparedApart /\ SectionRecorded
                    /\ JudgedSoFar
  <1>1. Init => Inv
    <2> SUFFICES ASSUME Init
                 PROVE  Inv
      OBVIOUS
    <2>1. DOMAIN <<>> = {}
      OBVIOUS
    <2> QED
      BY <2>1 DEF Init, PlanAtHand, FilesPassed, ComparedApart, SectionRecorded, JudgedSoFar,
                  Working, Finished, Done
  <1>2. /\ Standing /\ ComparedSoFar /\ Standing' /\ Inv /\ [Next]_vars
        => Inv'
    BY PlanStep, FilesStep, RecordedStep, JudgedStep
  <1>3. Standing /\ Inv => EveryStateAskedForOnce
    <2> SUFFICES ASSUME Standing, Inv, Done,
                        NEW f \in DOMAIN todo, NEW b \in DOMAIN todo[f][2].benchmarks
                 PROVE  LET cmp == todo[f][2].benchmarks[b]
                            r == find_matching_bench(cmp, todo[f][1].benchmarks)
                            mine == AskedDevices(cmp, cmd.compare_devices)
                        IN IF r = 0 \/ ~ AsksForBenchmark(cmp.name)
                           THEN \A k \in DOMAIN mine : Places(f, b, k) = {}
                           ELSE LET ref == todo[f][1].benchmarks[r]
                                    theirs == AskedDevices(ref, cmd.reference_devices)
                                IN \A k \in DOMAIN mine :
                                     LET here == Places(f, b, k) IN
                                       /\ {compared[i].cmp : i \in here} = Asked(cmp, mine[k])
                                       /\ {compared[i].ref : i \in here} = Asked(ref, theirs[k])
                                       /\ Cardinality(here) = Cardinality(Asked(cmp, mine[k]))
      BY DEF EveryStateAskedForOnce
    <2>1. \A k \in DOMAIN Mine(f, b) : Judged(f, b, k)
      BY EverythingPassed
    <2> QED
      BY <2>1 DEF Judged, Mine
  <1> QED
    BY <1>1, <1>2, <1>3, StandingAlways, PTL DEF Spec

-----------------------------------------------------------------------------
(* The legacy tool *)

\* A pair of devices is only entered when the benchmark has it.
PairAtHand ==
  /\ pc \in {"section", "state"} => at.pair > 0
  /\ pc = "state" => at.pair <= Len(CmpIds)

IsPlace(p) ==
  /\ p.file \in DOMAIN todo
  /\ p.bench \in DOMAIN todo[p.file][2].benchmarks
  /\ p.pair \in DOMAIN Mine(p.file, p.bench)

\* Every comparison belongs to a pair of files, a benchmark and a pair of
\* devices that there are.
ComparedWhereItIs == \A i \in DOMAIN compared : IsPlace(compared[i].at)

\* The comparison at hand belongs to what there is.
LEMMA AtIsPlace ==
  ASSUME Standing, PlanAtHand, PairAtHand, pc = "state"
  PROVE  IsPlace(at)
  <1>1. PICK mine : mine = CmpBench
    OBVIOUS
  <1>2. /\ mine = todo[at.file][2].benchmarks[at.bench] /\ at.file \in DOMAIN todo
    BY <1>1, BothHaveStates
  <1>3. /\ todo[at.file][2] # Unreadable /\ inputs.cmp = todo[at.file][2].benchmarks
        /\ at.bench \in DOMAIN inputs.cmp
    <2>1. 2 \in 1..2
      OBVIOUS
    <2> QED
      BY <2>1 DEF Standing, AtFile, AtBench
  <1>4. CmpIds = Mine(at.file, at.bench)
    BY <1>1, <1>2 DEF Standing, AtBench, CmpIds, resolve_benchmark_device_ids, AskedDevices, Mine
  <1>5. Refused # cmd.compare_devices
    BY DEF PlanAtHand
  <1>6. /\ DOMAIN Mine(at.file, at.bench) = 1..Len(Mine(at.file, at.bench))
        /\ Len(Mine(at.file, at.bench)) \in Nat
    BY <1>2, <1>3, <1>5, PairsOfDevices
  <1>7. at.pair \in Nat /\ at.pair > 0 /\ at.pair <= Len(CmpIds)
    BY DEF PairAtHand, Standing, AtFile
  <1> QED
    BY <1>2, <1>3, <1>4, <1>6, <1>7 DEF IsPlace

LEMMA PairStep ==
  ASSUME Standing, PlanAtHand, PairAtHand, [Next]_vars
  PROVE  PairAtHand'
  <1>1. at \in [file : Nat, bench : Nat, pair : Nat]
    BY DEF Standing, AtFile
  <1>2. ASSUME UNCHANGED <<cmd, plan, inputs, at>>
        PROVE  CmpIds' = CmpIds
    BY <1>2, SameBenchmark
  <1>3. CASE UNCHANGED vars
    <2>1. UNCHANGED <<cmd, pc, plan, inputs, at>>
      BY <1>3 DEF vars
    <2> QED
      BY <1>2, <2>1 DEF PairAtHand
  <1>4. CASE StartBenchmark
    <2>1. UNCHANGED at /\ pc = "bench" /\ pc' \in {"exited", "section"}
      BY <1>4 DEF StartBenchmark, Exit, Goto
    <2> QED
      BY <2>1 DEF PairAtHand, PlanAtHand
  <1>5. CASE StartSection
    <2>1. /\ UNCHANGED <<cmd, plan, inputs, at>> /\ pc = "section" /\ at.pair <= Len(CmpIds)
          /\ pc' \in {"exited", "state"}
      BY <1>5 DEF StartSection, Exit, Goto
    <2> QED
      BY <1>2, <2>1 DEF PairAtHand
  <1>6. CASE CompareState
    <2>1. PICK centers : centers = Centers(RefBench.states[PairedPlace], CmpState)
      OBVIOUS
    <2>2. PICK judged : judged = DecisionOf(RefBench.states[PairedPlace], CmpState)
      OBVIOUS
    <2>3. UNCHANGED <<cmd, plan, inputs, at>> /\ pc = "state" /\ Judge(judged, centers)
      BY <1>6, <2>1, <2>2 DEF CompareState
    <2>4. pc' \in {"exited", "state"}
      BY <2>3 DEF Judge, RefusePoint, RecordState, Exit, Goto
    <2> QED
      BY <1>2, <2>3, <2>4 DEF PairAtHand
  <1>7. CASE EndSection
    <2>1. /\ pc = "state" /\ pc' \in {"exited", "section"} /\ at' = [at EXCEPT !.pair = @ + 1]
      BY <1>7 DEF EndSection, SavePlot, Exit, Goto
    <2>2. at'.pair = at.pair + 1 /\ at.pair \in Nat
      BY <1>1, <2>1
    <2> QED
      BY <2>1, <2>2 DEF PairAtHand
  <1>8. CASE CheckArguments \/ FindFiles \/ ReadInputs \/ SkipBenchmark \/ EndBenchmark
             \/ EndFile \/ Report
    <2>1. pc' \notin {"section", "state"}
      BY <1>8 DEF CheckArguments, FindFiles, ReadInputs, SkipBenchmark, EndBenchmark, EndFile,
                  Report, SavePlot, Exit, Goto
    <2> QED
      BY <2>1 DEF PairAtHand
  <1> QED
    BY <1>3, <1>4, <1>5, <1>6, <1>7, <1>8 DEF Next, Terminating

LEMMA PlacesStep ==
  ASSUME Standing, ComparedSoFar, PlanAtHand, PairAtHand, ComparedWhereItIs, [Next]_vars
  PROVE  ComparedWhereItIs'
  <1>1. ASSUME UNCHANGED <<cmd, todo, compared>>
        PROVE  ComparedWhereItIs'
    BY <1>1 DEF ComparedWhereItIs, IsPlace, Mine, AskedDevices
  <1>2. CASE UNCHANGED vars
    BY <1>1, <1>2 DEF vars
  <1>3. CASE FindFiles
    <2>1. compared = <<>> /\ UNCHANGED compared
      BY <1>3 DEF FindFiles, Results, ComparedSoFar
    <2>2. DOMAIN compared' = {}
      BY <2>1
    <2> QED
      BY <2>2 DEF ComparedWhereItIs
  <1>4. CASE CompareState
    <2>1. PICK centers : centers = Centers(RefBench.states[PairedPlace], CmpState)
      OBVIOUS
    <2>2. PICK judged : judged = DecisionOf(RefBench.states[PairedPlace], CmpState)
      OBVIOUS
    <2>3. UNCHANGED <<cmd, todo>> /\ pc = "state" /\ Judge(judged, centers)
      BY <1>4, <2>1, <2>2 DEF CompareState
    <2>4. CASE RefusePoint
      BY <1>1, <2>3, <2>4 DEF RefusePoint
    <2>5. CASE RecordState(judged, centers, Shown(judged.status, centers))
      <3>1. PICK c : c = [at |-> at, ref |-> PairedPlace, cmp |-> CmpPlace,
                          status |-> judged.status, shown |-> Shown(judged.status, centers)]
        OBVIOUS
      <3>2. compared' = Append(compared, c) /\ c.at = at
        BY <2>5, <3>1 DEF RecordState
      <3>3. PICK n \in Nat : n = Len(compared)
        BY Appended DEF ComparedSoFar
      <3>4. /\ DOMAIN compared = 1..n /\ DOMAIN compared' = 1..(n + 1)
            /\ \A i \in 1..n : compared'[i] = compared[i]
            /\ compared'[n + 1] = c
            /\ \A i \in 1..(n + 1) : i \in 1..n \/ i = n + 1
        BY <3>2, <3>3, Appended DEF ComparedSoFar
      <3>5. IsPlace(at)
        BY <2>3, AtIsPlace
      <3>6. \A i \in DOMAIN compared' : IsPlace(compared'[i].at)
        BY <3>2, <3>4, <3>5 DEF ComparedWhereItIs
      <3> QED
        BY <2>3, <3>6 DEF ComparedWhereItIs, IsPlace, Mine, AskedDevices
    <2> QED
      BY <2>3, <2>4, <2>5 DEF Judge
  <1>5. CASE CheckArguments \/ ReadInputs \/ SkipBenchmark \/ StartBenchmark \/ StartSection
             \/ EndBenchmark \/ EndSection \/ EndFile \/ Report
    <2>1. UNCHANGED <<cmd, todo, compared>>
      BY <1>5 DEF CheckArguments, ReadInputs, SkipBenchmark, StartBenchmark, StartSection,
                  EndBenchmark, EndSection, EndFile, Report, Results
    <2> QED
      BY <1>1, <2>1
  <1> QED
    BY <1>2, <1>3, <1>4, <1>5 DEF Next, Terminating

\* When no axis argument follows a benchmark, they all hold for every one.
LEMMA AxesForAll ==
  ASSUME cmd \in Commands, \A i \in Scopes : ScopeOf(i) = {}
  PROVE  ScopeOf(0) = {j \in DOMAIN Actions : IsAxis(j)}
  <1>1. PICK n \in Nat : DOMAIN Actions = 1..n
    <2>1. Sequence(Actions)
      BY CommandAssumption DEF Actions
    <2> QED
      BY <2>1, Appended
  <1>2. ASSUME NEW j \in DOMAIN Actions, IsAxis(j), NEW s \in Scopes, ~ (s <= 0 \/ j < s)
        PROVE  FALSE
    <2>1. j \in 1..n /\ s \in 1..n /\ s < j
      <3>1. s \in 1..n /\ ~ IsAxis(s)
        BY <1>1 DEF Scopes
      <3> QED
        BY <1>1, <1>2, <3>1
    <2>2. PICK gaps : gaps = {d \in 1..n : j - d \in Scopes}
      OBVIOUS
    <2>3. gaps \in SUBSET Nat /\ gaps \in SUBSET (1..n)
      BY <2>2
    <2>4. IsFiniteSet(gaps)
      <3>1. IsFiniteSet(1..n)
        BY FS_Interval
      <3> QED
        BY <2>3, <3>1, FS_Subset
    <2>5. j - s \in 1..n /\ j - (j - s) = s
      BY <2>1
    <2>6. gaps # {}
      BY <1>2, <2>2, <2>5
    <2>7. PICK d \in gaps : \A e \in gaps : d <= e
      BY <2>3, <2>4, <2>6, Least
    <2>8. PICK last : last = j - d
      OBVIOUS
    <2>9. last \in Scopes /\ last < j /\ d \in 1..n
      BY <2>1, <2>2, <2>3, <2>7, <2>8
    <2>10. ASSUME NEW t \in Scopes
           PROVE  t <= last \/ j < t
      <3>1. t \in 1..n /\ ~ IsAxis(t)
        BY <1>1 DEF Scopes
      <3>2. t # j
        BY <1>2, <3>1
      <3>3. CASE t < j
        <4>1. j - t \in 1..n /\ j - (j - t) = t
          BY <2>1, <3>1, <3>3
        <4>2. j - t \in gaps
          BY <2>2, <4>1
        <4>3. d <= j - t
          BY <2>7, <4>2
        <4> QED
          BY <2>1, <2>8, <2>9, <3>1, <4>3
      <3> QED
        BY <2>1, <3>1, <3>2, <3>3
    <2>11. j \in ScopeOf(last)
      BY <1>2, <2>9, <2>10 DEF ScopeOf
    <2> QED
      BY <2>9, <2>11
  <1>3. \A j \in DOMAIN Actions : 0 < j
    BY <1>1
  <1> QED
    BY <1>2, <1>3 DEF ScopeOf

\* The filters of the legacy tool, where they mean the same to both
LEMMA LegacyFiltersAsWritten ==
  ASSUME cmd \in Commands, \A i \in Scopes : ScopeOf(i) = {},
         NEW filters, filters = LegacyFilters(Actions), filters # Refused, NEW name
  PROVE  /\ AsksForBenchmark(name)
              <=> (BenchmarkNames(Actions) = {} \/ name \in BenchmarkNames(Actions))
         /\ AsksForBenchmark(name) =>
              \A state : AsksFor(name, state) <=> matches_axis_filters(state, filters)
  <1>1. PICK actions : actions = Actions
    OBVIOUS
  <1>2. \A j \in DOMAIN actions : actions[j][1] \in {"axis", "benchmark"}
    BY <1>1, CommandAssumption DEF Actions
  <1>3. PICK axes : axes = {j \in DOMAIN actions : actions[j][1] = "axis"}
    OBVIOUS
  <1>4. PICK given : given = [j \in axes |-> actions[j][2]]
    OBVIOUS
  <1>5. filters = parse_axis_filters(given)
    BY <1>1, <1>3, <1>4 DEF LegacyFilters, AxisArgs
  <1>6. filters = {AxisFilter(given[j]) : j \in DOMAIN given}
    BY <1>5 DEF parse_axis_filters
  <1>7. filters = {AxisFilter(actions[j][2]) : j \in axes}
    BY <1>4, <1>6
  <1>8. ScopeOf(0) = axes
    BY <1>1, <1>3, AxesForAll DEF IsAxis
  <1>9. ASSUME NEW state
        PROVE  matches_axis_filters(state, filters) <=> \A j \in axes : Holds(j, state)
    <2>1. ASSUME NEW j
          PROVE  Holds(j, state) <=> (LET f == AxisFilter(actions[j][2]) IN
                   f.name \in DOMAIN state.axes /\ state.axes[f.name] \in f.values)
      <3>1. PICK arg : arg = actions[j][2]
        OBVIOUS
      <3>2. PICK values : values = {IF arg.pow2 THEN 2^v ELSE v : v \in Range(arg.values)}
        OBVIOUS
      <3>3. AxisFilter(arg).name = arg.name /\ AxisFilter(arg).values = values
        BY <3>2 DEF AxisFilter
      <3>4. (\E v \in Range(arg.values) : state.axes[arg.name] = IF arg.pow2 THEN 2^v ELSE v)
              <=> state.axes[arg.name] \in values
        BY <3>2
      <3> QED
        BY <1>1, <3>1, <3>3, <3>4 DEF Holds
    <2> QED
      BY <1>7, <2>1 DEF matches_axis_filters
  <1>10. \A name_, state : AsksFor(name_, state)
           <=> AsksForBenchmark(name_) /\ \A j \in axes : Holds(j, state)
    BY <1>8 DEF AsksFor, AsksForBenchmark
  <1>11. AsksForBenchmark(name)
           <=> (BenchmarkNames(Actions) = {} \/ name \in BenchmarkNames(Actions))
    <2>1. Scopes = {j \in DOMAIN actions : actions[j][1] = "benchmark"}
      BY <1>1, <1>2 DEF Scopes, IsAxis
    <2>2. BenchmarkNames(Actions) = {actions[j][2] : j \in Scopes}
      BY <1>1, <2>1 DEF BenchmarkNames
    <2> QED
      BY <1>1, <2>2 DEF AsksForBenchmark
  <1> QED
    BY <1>9, <1>10, <1>11

\* Where names are unique, the first state of that name is the one.
LEMMA OnlyOfItsName ==
  ASSUME NEW states, Sequence(states),
         \A i, j \in DOMAIN states : states[i].name = states[j].name => i = j,
         NEW i \in DOMAIN states, NEW state, state.name = states[i].name
  PROVE  LegacyRefPlace(states, state) = i /\ i # 0
  <1>1. PICK n \in Nat : DOMAIN states = 1..n
    BY DEF Sequence
  <1>2. i \in Nat /\ i # 0
    BY <1>1
  <1>3. {j \in DOMAIN states : states[j].name = state.name} = {i}
    OBVIOUS
  <1>4. Min({i}) = i
    BY <1>2 DEF Min
  <1> QED
    BY <1>2, <1>3, <1>4 DEF LegacyRefPlace

\* A benchmark that both tools understand: one device, and states named after it
PlainBenchmark(bench, id) ==
  /\ bench.devices = <<id>> /\ Sequence(bench.states)
  /\ \A i \in DOMAIN bench.states :
       /\ ResultState(bench.states[i])
       /\ bench.states[i].device = id /\ bench.states[i].name.prefix = id
  /\ \A i, j \in DOMAIN bench.states : bench.states[i].name = bench.states[j].name => i = j

\* Such files hold nothing but such benchmarks.
LEMMA PlainFiles ==
  ASSUME Standing, Plain, NEW ref, ref = todo[1][1], NEW cmp, cmp = todo[1][2],
         Unreadable \notin {ref, cmp}
  PROVE  /\ DOMAIN todo = {1}
         /\ \E id : \A file \in {ref, cmp} : \A b \in DOMAIN file.benchmarks :
              PlainBenchmark(file.benchmarks[b], id)
         /\ \A bench : /\ AskedDevices(bench, cmd.reference_devices) = bench.devices
                       /\ AskedDevices(bench, cmd.compare_devices) = bench.devices
         /\ \A bench : find_matching_bench(bench, ref.benchmarks)
                         \in DOMAIN ref.benchmarks \cup {0}
  <1>1. DOMAIN todo = {1}
    <2>1. DOMAIN todo = 1..1
      BY DEF Standing, FilesRead, Plain
    <2> QED
      BY <2>1
  <1>2. ResultFile(ref) /\ ResultFile(cmp)
    <2>1. 1 \in 1..2 /\ 2 \in 1..2
      OBVIOUS
    <2> QED
      BY <1>1, <2>1 DEF Standing, FilesRead
  <1>3. PICK id : id = ref.devices[1].id
    OBVIOUS
  <1>4. None = cmd.reference_devices /\ None = cmd.compare_devices
    BY DEF Plain
  <1>5. ASSUME NEW file \in {ref, cmp}, NEW b \in DOMAIN file.benchmarks, NEW bench,
               bench = file.benchmarks[b]
        PROVE  PlainBenchmark(bench, id)
    <2>1. Sequence(bench.states) /\ \A i \in DOMAIN bench.states : ResultState(bench.states[i])
      BY <1>2, <1>5 DEF ResultFile
    <2>2. \E side \in 1..2 : file = todo[1][side]
      <3>1. 1 \in 1..2 /\ 2 \in 1..2
        OBVIOUS
      <3> QED
        BY <3>1
    <2>3. PICK side \in 1..2 : file = todo[1][side]
      BY <2>2
    <2>4. bench \in Range(todo[1][side].benchmarks)
      BY <1>5, <2>3 DEF Range
    <2>5. /\ bench.devices = <<todo[1][1].devices[1].id>>
          /\ \A i \in DOMAIN bench.states :
               LET state == bench.states[i] IN
                 state.device = bench.devices[1] /\ state.name.prefix = state.device
          /\ \A i, j \in DOMAIN bench.states :
               bench.states[i].name = bench.states[j].name => i = j
      BY <2>4 DEF Plain
    <2>6. bench.devices = <<id>> /\ bench.devices[1] = id
      BY <1>3, <2>5
    <2> QED
      BY <2>1, <2>5, <2>6 DEF PlainBenchmark
  <1>6. ASSUME NEW bench, find_matching_bench(bench, ref.benchmarks) # 0
        PROVE  find_matching_bench(bench, ref.benchmarks) \in DOMAIN ref.benchmarks
    <2>1. Sequence(ref.benchmarks)
      BY <1>2 DEF ResultFile
    <2> QED
      BY <1>6, <2>1, ReferenceIsOne
  <1>7. \A file \in {ref, cmp} : \A b \in DOMAIN file.benchmarks :
          PlainBenchmark(file.benchmarks[b], id)
    BY <1>5
  <1> QED
    BY <1>1, <1>4, <1>6, <1>7 DEF AskedDevices

\* A state of the compared file that both tools judge is judged against the
\* same one.
LEMMA SameCounterpart ==
  ASSUME Standing, ComparedSoFar, PairedWithItsCounterpart, EveryStateAskedForOnce,
         ComparedWhereItIs,
         Done, Plain, Unreadable \notin {todo[1][1], todo[1][2]}, NEW i \in DOMAIN compared
  PROVE  LET c == compared[i]
             mine == todo[1][2].benchmarks[c.at.bench]
             r == find_matching_bench(mine, todo[1][1].benchmarks)
         IN /\ c.at.bench \in DOMAIN todo[1][2].benchmarks /\ r # 0
            /\ AsksForBenchmark(mine.name)
            /\ c.cmp \in DOMAIN mine.states /\ AsksFor(mine.name, mine.states[c.cmp])
            /\ c.ref = LegacyRefPlace(todo[1][1].benchmarks[r].states, mine.states[c.cmp])
            /\ c.ref # 0
  <1> SUFFICES ASSUME NEW ref, ref = todo[1][1], NEW cmp, cmp = todo[1][2],
                      NEW c, c = compared[i], NEW mine, mine = cmp.benchmarks[c.at.bench],
                      NEW r, r = find_matching_bench(mine, ref.benchmarks)
               PROVE  /\ c.at.bench \in DOMAIN cmp.benchmarks /\ r # 0
                      /\ AsksForBenchmark(mine.name)
                      /\ c.cmp \in DOMAIN mine.states /\ AsksFor(mine.name, mine.states[c.cmp])
                      /\ c.ref = LegacyRefPlace(ref.benchmarks[r].states, mine.states[c.cmp])
                      /\ c.ref # 0
    OBVIOUS
  <1>1. PICK b : b = c.at.bench
    OBVIOUS
  <1>2. PICK k : k = c.at.pair
    OBVIOUS
  <1>3. PICK theirs : theirs = ref.benchmarks[r]
    OBVIOUS
  <1>4. DOMAIN todo = {1}
    BY PlainFiles
  <1>5. c.at.file = 1 /\ b \in DOMAIN cmp.benchmarks /\ k \in DOMAIN Mine(1, b)
    BY <1>1, <1>2, <1>4 DEF ComparedWhereItIs, IsPlace
  <1>6. PICK id : \A file \in {ref, cmp} : \A j \in DOMAIN file.benchmarks :
                    PlainBenchmark(file.benchmarks[j], id)
    BY PlainFiles
  <1>7. i \in Places(1, b, k)
    <2>1. c.at \in [file : Nat, bench : Nat, pair : Nat]
      BY DEF ComparedSoFar
    <2>2. c.at = [file |-> 1, bench |-> b, pair |-> k]
      BY <1>1, <1>2, <1>5, <2>1
    <2> QED
      BY <2>2 DEF Places
  <1>8. /\ r # 0 /\ AsksForBenchmark(mine.name)
        /\ {compared[j].cmp : j \in Places(1, b, k)} = Asked(mine, Mine(1, b)[k])
        /\ {compared[j].ref : j \in Places(1, b, k)}
             = Asked(theirs, AskedDevices(theirs, cmd.reference_devices)[k])
    <2>1. 1 \in DOMAIN todo /\ b \in DOMAIN todo[1][2].benchmarks
      BY <1>4, <1>5
    <2>2. k \in DOMAIN AskedDevices(mine, cmd.compare_devices)
      BY <1>1, <1>5 DEF Mine
    <2>3. IF r = 0 \/ ~ AsksForBenchmark(mine.name)
          THEN Places(1, b, k) = {}
          ELSE /\ {compared[j].cmp : j \in Places(1, b, k)}
                    = Asked(mine, AskedDevices(mine, cmd.compare_devices)[k])
               /\ {compared[j].ref : j \in Places(1, b, k)}
                    = Asked(theirs, AskedDevices(theirs, cmd.reference_devices)[k])
      BY <1>1, <1>3, <2>1, <2>2 DEF EveryStateAskedForOnce
    <2> QED
      BY <1>1, <1>7, <2>3 DEF Mine
  <1>9. /\ c.cmp \in Asked(mine, Mine(1, b)[k])
        /\ c.ref \in Asked(theirs, AskedDevices(theirs, cmd.reference_devices)[k])
    BY <1>7, <1>8
  <1>10. /\ c.cmp \in DOMAIN mine.states /\ AsksFor(mine.name, mine.states[c.cmp])
         /\ c.ref \in DOMAIN theirs.states
    BY <1>9 DEF Asked
  <1>11. PlainBenchmark(mine, id) /\ PlainBenchmark(theirs, id)
    <2>1. r \in DOMAIN ref.benchmarks
      BY <1>8, PlainFiles
    <2> QED
      BY <1>1, <1>3, <1>5, <1>6, <2>1
  <1>12. PICK s : s = mine.states[c.cmp]
    OBVIOUS
  <1>13. PICK t : t = theirs.states[c.ref]
    OBVIOUS
  <1>14. s.name.rest = t.name.rest
    BY <1>1, <1>3, <1>5, <1>12, <1>13 DEF PairedWithItsCounterpart
  <1>15. s.name = t.name
    <2>1. /\ s.name = [prefix |-> s.name.prefix, rest |-> s.name.rest] /\ s.name.prefix = id
      BY <1>10, <1>11, <1>12 DEF PlainBenchmark, ResultState
    <2>2. /\ t.name = [prefix |-> t.name.prefix, rest |-> t.name.rest] /\ t.name.prefix = id
      BY <1>10, <1>11, <1>13 DEF PlainBenchmark, ResultState
    <2> QED
      BY <1>14, <2>1, <2>2
  <1>16. LegacyRefPlace(theirs.states, s) = c.ref /\ c.ref # 0
    <2>1. PICK states : states = theirs.states
      OBVIOUS
    <2>2. /\ Sequence(states)
          /\ \A m, n \in DOMAIN states : states[m].name = states[n].name => m = n
      BY <1>11, <2>1 DEF PlainBenchmark
    <2>3. PICK place : place = c.ref
      OBVIOUS
    <2>4. place \in DOMAIN states /\ s.name = states[place].name
      BY <1>10, <1>13, <1>15, <2>1, <2>3
    <2>5. LegacyRefPlace(states, s) = place /\ place # 0
      BY <2>2, <2>4, OnlyOfItsName
    <2> QED
      BY <2>1, <2>3, <2>5
  <1> QED
    BY <1>1, <1>3, <1>5, <1>8, <1>10, <1>12, <1>16

LEMMA FirstOfOne ==
  ASSUME NEW x
  PROVE  1 \in DOMAIN <<x>>
  OBVIOUS

\* A pair is judged by the one tool if and only if it is by the other.
LEMMA LegacyJudgesAlike ==
  ASSUME Standing, ComparedSoFar, PairedWithItsCounterpart, EveryStateAskedForOnce,
         ComparedWhereItIs
  PROVE  LegacyJudgesTheSamePairs
  <1>1. PICK ref : ref = todo[1][1]
    OBVIOUS
  <1>2. PICK cmp : cmp = todo[1][2]
    OBVIOUS
  <1>3. PICK legacy : legacy = LegacyOutcome(ref, cmp, Actions, cmd.ignore_devices)
    OBVIOUS
  <1> DEFINE find(b) == find_matching_bench(cmp.benchmarks[b], ref.benchmarks)
             judged == {d \in Range(compared) :
                          /\ HasLegacySummaries(ref.benchmarks[find(d.at.bench)].states[d.ref])
                          /\ HasLegacySummaries(cmp.benchmarks[d.at.bench].states[d.cmp])}
  <1> SUFFICES ASSUME Done, Plain, legacy.ended = "reported"
               PROVE  {<<p.bench, p.ref, p.cmp>> : p \in legacy.pairs}
                        = {<<c.at.bench, c.ref, c.cmp>> : c \in judged}
    BY <1>1, <1>2, <1>3 DEF LegacyJudgesTheSamePairs
  <1>4. PICK filters : filters = LegacyFilters(Actions)
    OBVIOUS
  <1>5. PICK names : names = BenchmarkNames(Actions)
    OBVIOUS
  <1>6. /\ Unreadable \notin {ref, cmp} /\ filters # Refused
        /\ legacy.pairs = LegacyPairs(ref.benchmarks, cmp.benchmarks, filters, names)
    <2>1. PICK pairs : pairs = LegacyPairs(ref.benchmarks, cmp.benchmarks, filters, names)
      OBVIOUS
    <2>2. LegacyReport(ref, cmp, pairs).ended = "reported"
            => LegacyReport(ref, cmp, pairs).pairs = pairs
      BY DEF LegacyReport
    <2> QED
      BY <1>3, <1>4, <1>5, <2>1, <2>2 DEF LegacyOutcome
  <1>7. PICK id : \A file \in {ref, cmp} : \A b \in DOMAIN file.benchmarks :
                    PlainBenchmark(file.benchmarks[b], id)
    BY <1>1, <1>2, <1>6, PlainFiles
  <1>8. \A name : /\ AsksForBenchmark(name) <=> (names = {} \/ name \in names)
                  /\ AsksForBenchmark(name) =>
                       \A state : AsksFor(name, state) <=> matches_axis_filters(state, filters)
    <2>1. cmd \in Commands /\ \A i \in Scopes : ScopeOf(i) = {}
      BY DEF Standing, Plain
    <2> QED
      BY <1>4, <1>5, <1>6, <2>1, LegacyFiltersAsWritten
  <1>9. \A x : x \in legacy.pairs <=>
          \E b \in DOMAIN cmp.benchmarks : \E k \in DOMAIN cmp.benchmarks[b].devices :
            \E j \in DOMAIN cmp.benchmarks[b].states :
              LET mine == cmp.benchmarks[b]
                  theirs == ref.benchmarks[find(b)].states
                  r == LegacyRefPlace(theirs, mine.states[j])
              IN /\ find(b) # 0 /\ AsksForBenchmark(mine.name)
                 /\ r # 0 /\ matches_axis_filters(mine.states[j], filters)
                 /\ HasLegacySummaries(mine.states[j]) /\ HasLegacySummaries(theirs[r])
                 /\ x = [bench |-> b, pair |-> k, cmp |-> j, ref |-> r]
    <2>1. ASSUME NEW b \in DOMAIN cmp.benchmarks
          PROVE  b \in LegacySelected(ref.benchmarks, cmp.benchmarks, names)
                   <=> find(b) # 0 /\ AsksForBenchmark(cmp.benchmarks[b].name)
      BY <1>8 DEF LegacySelected
    <2>2. ASSUME NEW theirs, NEW mine, NEW q
          PROVE  q \in LegacyDevicePairs(theirs, mine, filters) <=>
                   \E j \in DOMAIN mine :
                     /\ LegacyRefPlace(theirs, mine[j]) # 0
                     /\ matches_axis_filters(mine[j], filters)
                     /\ HasLegacySummaries(mine[j])
                     /\ HasLegacySummaries(theirs[LegacyRefPlace(theirs, mine[j])])
                     /\ q = [ref |-> LegacyRefPlace(theirs, mine[j]), cmp |-> j]
      BY DEF LegacyDevicePairs
    <2>3. ASSUME NEW x
          PROVE  x \in legacy.pairs <=>
                   \E b \in LegacySelected(ref.benchmarks, cmp.benchmarks, names) :
                   \E k \in DOMAIN cmp.benchmarks[b].devices :
                   \E q \in LegacyDevicePairs(ref.benchmarks[find(b)].states,
                                             cmp.benchmarks[b].states, filters) :
                     x = [bench |-> b, pair |-> k, ref |-> q.ref, cmp |-> q.cmp]
      BY <1>6 DEF LegacyPairs
    <2>4. LegacySelected(ref.benchmarks, cmp.benchmarks, names) \subseteq DOMAIN cmp.benchmarks
      BY DEF LegacySelected
    <2>5. ASSUME NEW x, NEW b \in DOMAIN cmp.benchmarks, NEW k, NEW mine,
                 mine = cmp.benchmarks[b], NEW theirs, theirs = ref.benchmarks[find(b)].states
          PROVE  (\E q \in LegacyDevicePairs(theirs, mine.states, filters) :
                    x = [bench |-> b, pair |-> k, ref |-> q.ref, cmp |-> q.cmp])
                   <=> \E j \in DOMAIN mine.states :
                         /\ LegacyRefPlace(theirs, mine.states[j]) # 0
                         /\ matches_axis_filters(mine.states[j], filters)
                         /\ HasLegacySummaries(mine.states[j])
                         /\ HasLegacySummaries(theirs[LegacyRefPlace(theirs, mine.states[j])])
                         /\ x = [bench |-> b, pair |-> k, cmp |-> j,
                                 ref |-> LegacyRefPlace(theirs, mine.states[j])]
      <3>1. PICK given : given = LegacyDevicePairs(theirs, mine.states, filters)
        OBVIOUS
      <3>2. \A q : q \in given <=>
              \E j \in DOMAIN mine.states :
                /\ LegacyRefPlace(theirs, mine.states[j]) # 0
                /\ matches_axis_filters(mine.states[j], filters)
                /\ HasLegacySummaries(mine.states[j])
                /\ HasLegacySummaries(theirs[LegacyRefPlace(theirs, mine.states[j])])
                /\ q = [ref |-> LegacyRefPlace(theirs, mine.states[j]), cmp |-> j]
        BY <2>2, <3>1
      <3>3. ASSUME NEW q \in given, x = [bench |-> b, pair |-> k, ref |-> q.ref, cmp |-> q.cmp]
            PROVE  \E j \in DOMAIN mine.states :
                     /\ LegacyRefPlace(theirs, mine.states[j]) # 0
                     /\ matches_axis_filters(mine.states[j], filters)
                     /\ HasLegacySummaries(mine.states[j])
                     /\ HasLegacySummaries(theirs[LegacyRefPlace(theirs, mine.states[j])])
                     /\ x = [bench |-> b, pair |-> k, cmp |-> j,
                             ref |-> LegacyRefPlace(theirs, mine.states[j])]
        <4>1. PICK j \in DOMAIN mine.states :
                /\ LegacyRefPlace(theirs, mine.states[j]) # 0
                /\ matches_axis_filters(mine.states[j], filters)
                /\ HasLegacySummaries(mine.states[j])
                /\ HasLegacySummaries(theirs[LegacyRefPlace(theirs, mine.states[j])])
                /\ q = [ref |-> LegacyRefPlace(theirs, mine.states[j]), cmp |-> j]
          BY <3>2
        <4>2. x = [bench |-> b, pair |-> k, cmp |-> j,
                   ref |-> LegacyRefPlace(theirs, mine.states[j])]
          BY <3>3, <4>1
        <4> QED
          BY <4>1, <4>2
      <3>4. ASSUME NEW j \in DOMAIN mine.states,
                   LegacyRefPlace(theirs, mine.states[j]) # 0,
                   matches_axis_filters(mine.states[j], filters),
                   HasLegacySummaries(mine.states[j]),
                   HasLegacySummaries(theirs[LegacyRefPlace(theirs, mine.states[j])]),
                   x = [bench |-> b, pair |-> k, cmp |-> j,
                        ref |-> LegacyRefPlace(theirs, mine.states[j])]
            PROVE  \E q \in given : x = [bench |-> b, pair |-> k, ref |-> q.ref, cmp |-> q.cmp]
        <4>1. PICK q : q = [ref |-> LegacyRefPlace(theirs, mine.states[j]), cmp |-> j]
          OBVIOUS
        <4>2. q \in given
          BY <3>2, <3>4, <4>1
        <4>3. x = [bench |-> b, pair |-> k, ref |-> q.ref, cmp |-> q.cmp]
          BY <3>4, <4>1
        <4> QED
          BY <4>2, <4>3
      <3> QED
        BY <3>1, <3>3, <3>4
    <2> HIDE DEF find
    <2> QED
      BY <2>1, <2>3, <2>4, <2>5
  <1>10. ASSUME NEW d \in judged
         PROVE  \E p \in legacy.pairs : /\ p.bench = d.at.bench
                                        /\ p.ref = d.ref /\ p.cmp = d.cmp
    <2>1. PICK i \in DOMAIN compared : d = compared[i]
      BY DEF Range
    <2>2. PICK b : b = d.at.bench
      OBVIOUS
    <2>3. PICK mine : mine = cmp.benchmarks[b]
      OBVIOUS
    <2>4. PICK theirs : theirs = ref.benchmarks[find(b)].states
      OBVIOUS
    <2>5. /\ b \in DOMAIN cmp.benchmarks /\ find(b) # 0 /\ AsksForBenchmark(mine.name)
          /\ d.cmp \in DOMAIN mine.states /\ AsksFor(mine.name, mine.states[d.cmp])
          /\ d.ref = LegacyRefPlace(theirs, mine.states[d.cmp]) /\ d.ref # 0
      <3>1. PICK r : r = find_matching_bench(mine, ref.benchmarks)
        OBVIOUS
      <3>2. mine = cmp.benchmarks[d.at.bench] /\ r = find(b) /\ theirs = ref.benchmarks[r].states
        BY <2>2, <2>3, <2>4, <3>1
      <3>3. /\ d.at.bench \in DOMAIN cmp.benchmarks /\ r # 0 /\ AsksForBenchmark(mine.name)
            /\ d.cmp \in DOMAIN mine.states /\ AsksFor(mine.name, mine.states[d.cmp])
            /\ d.ref = LegacyRefPlace(ref.benchmarks[r].states, mine.states[d.cmp])
            /\ d.ref # 0
        BY <1>1, <1>2, <1>6, <2>1, <3>1, <3>2, SameCounterpart
      <3> QED
        BY <2>2, <3>2, <3>3
    <2>6. HasLegacySummaries(theirs[d.ref]) /\ HasLegacySummaries(mine.states[d.cmp])
      BY <2>2, <2>3, <2>4
    <2>7. matches_axis_filters(mine.states[d.cmp], filters)
      BY <1>8, <2>5
    <2>8. 1 \in DOMAIN mine.devices
      <3>1. mine.devices = <<id>>
        BY <1>7, <2>3, <2>5 DEF PlainBenchmark
      <3>2. 1 \in DOMAIN <<id>>
        BY FirstOfOne
      <3> QED
        BY <3>1, <3>2
    <2>9. PICK p : p = [bench |-> b, pair |-> 1, ref |-> d.ref, cmp |-> d.cmp]
      OBVIOUS
    <2>10. p \in legacy.pairs
      BY <1>9, <2>3, <2>4, <2>5, <2>6, <2>7, <2>8, <2>9
    <2> QED
      BY <2>2, <2>9, <2>10
  <1>11. ASSUME NEW p \in legacy.pairs
         PROVE  \E d \in judged : /\ p.bench = d.at.bench
                                  /\ p.ref = d.ref /\ p.cmp = d.cmp
    <2> DEFINE Gives(b, k, j) ==
                 LET mine == cmp.benchmarks[b]
                     theirs == ref.benchmarks[find(b)].states
                     r == LegacyRefPlace(theirs, mine.states[j])
                 IN /\ find(b) # 0 /\ AsksForBenchmark(mine.name)
                    /\ r # 0 /\ matches_axis_filters(mine.states[j], filters)
                    /\ HasLegacySummaries(mine.states[j]) /\ HasLegacySummaries(theirs[r])
                    /\ p = [bench |-> b, pair |-> k, ref |-> r, cmp |-> j]
    <2>1. PICK b \in DOMAIN cmp.benchmarks :
            \E k \in DOMAIN cmp.benchmarks[b].devices :
              \E j \in DOMAIN cmp.benchmarks[b].states : Gives(b, k, j)
      BY <1>9
    <2>2. PICK k : \E j \in DOMAIN cmp.benchmarks[b].states : Gives(b, k, j)
      BY <2>1
    <2>3. PICK j \in DOMAIN cmp.benchmarks[b].states : Gives(b, k, j)
      BY <2>2
    <2>4. PICK mine : mine = cmp.benchmarks[b]
      OBVIOUS
    <2>5. PICK theirs : theirs = ref.benchmarks[find(b)].states
      OBVIOUS
    <2>6. PICK r : r = LegacyRefPlace(theirs, mine.states[j])
      OBVIOUS
    <2>7. /\ find(b) # 0 /\ AsksForBenchmark(mine.name)
          /\ r # 0 /\ matches_axis_filters(mine.states[j], filters)
          /\ HasLegacySummaries(mine.states[j]) /\ HasLegacySummaries(theirs[r])
          /\ p.bench = b /\ p.ref = r /\ p.cmp = j
      BY <2>3, <2>4, <2>5, <2>6
    <2>8. /\ mine.devices = <<id>> /\ mine.states[j].device = id
          /\ Mine(1, b) = mine.devices /\ DOMAIN todo = {1}
      <3>1. PlainBenchmark(mine, id)
        BY <1>7, <2>4
      <3>2. AskedDevices(mine, cmd.compare_devices) = mine.devices /\ DOMAIN todo = {1}
        BY <1>1, <1>2, <1>6, PlainFiles
      <3> QED
        BY <1>2, <2>4, <3>1, <3>2 DEF PlainBenchmark, Mine
    <2>9. j \in Asked(mine, id)
      BY <1>8, <2>4, <2>7, <2>8 DEF Asked
    <2>10. {compared[i].cmp : i \in Places(1, b, 1)} = Asked(mine, id)
      <3>1. 1 \in DOMAIN todo /\ 1 \in DOMAIN AskedDevices(mine, cmd.compare_devices)
            /\ AskedDevices(mine, cmd.compare_devices)[1] = id
            /\ b \in DOMAIN todo[1][2].benchmarks /\ mine = todo[1][2].benchmarks[b]
            /\ find_matching_bench(mine, todo[1][1].benchmarks) # 0
        BY <1>1, <1>2, <2>4, <2>7, <2>8 DEF Mine
      <3> QED
        BY <2>7, <3>1 DEF EveryStateAskedForOnce
    <2>11. PICK i \in Places(1, b, 1) : compared[i].cmp = j
      BY <2>9, <2>10
    <2>12. PICK d : d = compared[i]
      OBVIOUS
    <2>13. i \in DOMAIN compared /\ d.at.bench = b /\ d.cmp = j
      BY <2>11, <2>12 DEF Places
    <2>14. d.ref = LegacyRefPlace(theirs, mine.states[j])
      BY <1>1, <1>2, <1>6, <2>4, <2>5, <2>12, <2>13, SameCounterpart
    <2>15. d \in judged
      <3>1. d \in Range(compared)
        BY <2>12, <2>13 DEF Range
      <3> QED
        BY <2>4, <2>5, <2>6, <2>7, <2>13, <2>14, <3>1
    <2> HIDE DEF judged
    <2> QED
      BY <2>6, <2>7, <2>13, <2>14, <2>15
  <1> HIDE DEF judged
  <1> QED
    BY <1>10, <1>11

\* On files both tools understand (one device, unique names, filters that mean the
\* same to both), nvbench-compare-legacy, when it ends in order, judges the pairs
\* of states nvbench-compare-robust compares, but for those without the summaries
\* it reads (compare_benches of both).
THEOREM LegacyAlwaysJudgesTheSamePairs == Spec => []LegacyJudgesTheSamePairs
  <1> DEFINE Inv == PlanAtHand /\ PairAtHand /\ ComparedWhereItIs
  <1>1. Init => Inv
    <2> SUFFICES ASSUME Init
                 PROVE  Inv
      OBVIOUS
    <2>1. DOMAIN <<>> = {}
      OBVIOUS
    <2> QED
      BY <2>1 DEF Init, PlanAtHand, PairAtHand, ComparedWhereItIs
  <1>2. Standing /\ ComparedSoFar /\ Inv /\ [Next]_vars => Inv'
    BY PlanStep, PairStep, PlacesStep
  <1>3. /\ Standing /\ ComparedSoFar /\ PairedWithItsCounterpart /\ EveryStateAskedForOnce
        /\ Inv
        => LegacyJudgesTheSamePairs
    BY LegacyJudgesAlike
  <1> QED
    BY <1>1, <1>2, <1>3, StandingAlways, CounterpartsAreCompared, StatesAreComparedOnce, PTL
    DEF Spec

=============================================================================
