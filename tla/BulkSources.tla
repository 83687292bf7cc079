----------------------------- MODULE BulkSources -----------------------------
(***************************************************************************)
(* nvbench-compare-robust: a state's binary files become sources, whose    *)
(* values are read from the disk the first time a verdict asks for them.   *)
(* Refused ends the comparison; None is a source that is unavailable.      *)
(***************************************************************************)
EXTENDS BenchmarkResult

read_nvbench_json_root(d, path) == read_json(d, path)

\* A summary without one of its fields is an error of the document.
extract_binary_meta(state, kind) ==
  IF state[kind] # None /\ (state[kind].size = None \/ state[kind].filename = None)
  THEN Refused ELSE state[kind]

extract_float32_binary_source(state, kind, dir) ==
  LET meta == extract_binary_meta(state, kind) IN
    IF meta \in {None, Refused} THEN meta
    ELSE [count |-> meta.size, filename |-> meta.filename, json_dir |-> dir]

\* Both kinds, or neither when they announce different counts
extract_gpu_timing_data(state, dir) ==
  LET sources == [kind \in {"samples", "freqs"} |-> extract_float32_binary_source(state, kind, dir)]
      s == sources.samples  f == sources.freqs
  IN IF Refused \in {s, f} THEN Refused
     ELSE IF None \notin {s, f} /\ s.count # f.count THEN [samples |-> None, freqs |-> None]
     ELSE sources

\* The path of an older document ends, from its directory of binary files on,
\* in the path relative to the document.
resolve_legacy_jsonbin_filename(filename) ==
  LET sidecars == {SidecarDirectory(kind) : kind \in {"samples", "freqs"}}
      found == {i \in DOMAIN filename : filename[i] \in sidecars}
  IN IF found = {} THEN None ELSE SubSeq(filename, First(found), Len(filename))

\* Next to the document, at the end of an older path, next to its directory;
\* never in the working directory
resolve_binary_filename(d, source) ==
  LET json_relative == source.json_dir \o source.filename
      legacy == resolve_legacy_jsonbin_filename(source.filename)
      parent == Front(source.json_dir) \o source.filename
  IN FirstExisting(d, <<json_relative,
                        IF legacy = None THEN json_relative ELSE source.json_dir \o legacy,
                        parent>>, json_relative)

\* Mutant: a file that cannot be read is an error.
MissingIsAnError(d, source) ==
  LET path == resolve_binary_filename(d, source) IN
    IF path \notin DOMAIN d THEN Refused
    ELSE IF d[path].size \div float32 # source.count THEN None
    ELSE Array(d[path], source.count)

\* Whole values only; an unreadable file or another count is unavailable
read_float32_binary(d, source) ==
  LET path == resolve_binary_filename(d, source) IN
    IF path \notin DOMAIN d THEN None
    ELSE IF d[path].size \div float32 # source.count THEN None
    ELSE Array(d[path], source.count)

\* Mutant: the payload is looked for without the name of the document.
LooksNextToTheDocument(d, source) ==
  /\ source.count > 0
  /\ LET path == FirstExisting(d, <<source.json_dir \o source.filename,
                                    Front(source.json_dir) \o source.filename>>,
                               source.json_dir \o source.filename)
     IN path \in DOMAIN d /\ d[path].size > 0

has_material_payload(d, source) ==
  /\ source.count > 0
  /\ LET path == resolve_binary_filename(d, source) IN path \in DOMAIN d /\ d[path].size > 0

has_material_bulk_source(d, source) == source # None /\ has_material_payload(d, source)

\* Mutant: the script is given the name as recorded, next to the document.
RecordedName(d, source) ==
  IF source = None THEN None ELSE source.json_dir \o source.filename

\* A row of the bulk debug script: where each file was found, and its count
resolve_bulk_source_filename(d, source) ==
  IF source = None THEN None ELSE resolve_binary_filename(d, source)

make_bulk_debug_row(d, sources) ==
  [kind \in {"samples", "freqs"} |->
     [filename |-> resolve_bulk_source_filename(d, sources[kind]),
      count |-> IF sources[kind] = None THEN None ELSE sources[kind].count]]

\* read_float32 of the script itself: another count and a missing file raise
ScriptReads(d, file) ==
  IF file.filename = None THEN None
  ELSE IF file.filename \notin DOMAIN d \/ d[file.filename].size \div float32 # file.count
  THEN Refused ELSE Array(d[file.filename], file.count)
=============================================================================
