--------------------------- MODULE BenchmarkResult ---------------------------
(***************************************************************************)
(* cuda.bench.results: BenchmarkResult.from_json reads the document and,   *)
(* at once, every binary file it names.  A read gives an array (its source *)
(* and its length), None, or Refused: the whole result is.                 *)
(***************************************************************************)
EXTENDS ResultFiles

Refused == [refused |-> TRUE]

\* A document that is empty or cut off is no JSON.
read_json(d, path) == IF path \in DOMAIN d /\ d[path].type = "json" THEN d[path].document ELSE Refused

Array(content, length) == [of |-> content.of, length |-> length]

\* extract_filename and extract_size raise when the field is missing.
parse_binary_meta(state, kind) ==
  IF state[kind] = Unwritten THEN Refused ELSE state[kind]

First(positions) == CHOOSE i \in positions : \A j \in positions : i <= j

FirstExisting(d, paths, default) ==
  LET found == {i \in DOMAIN paths : paths[i] \in DOMAIN d}
  IN IF found = {} THEN default ELSE paths[First(found)]

\* Next to the document, next to its directory, in the working directory
resolve_recorded_filename(d, json_dir, cwd, filename) ==
  FirstExisting(d, <<json_dir \o filename, Front(json_dir) \o filename, cwd \o filename>>,
                json_dir \o filename)

parse_float32_binary(d, meta, json_dir, cwd) ==
  LET path == resolve_recorded_filename(d, json_dir, cwd, meta.filename) IN
    IF path \notin DOMAIN d THEN None
    ELSE LET content == d[path] IN
           IF content.size % float32 # 0 \/ content.size \div float32 # meta.size THEN Refused
           ELSE Array(content, meta.size)

ParseBinary(d, state, kind, json_dir, cwd) ==
  LET meta == parse_binary_meta(state, kind) IN
    IF meta \in {None, Refused} THEN meta ELSE parse_float32_binary(d, meta, json_dir, cwd)

\* The samples of a state are read first, then its frequencies.
Mismatched(samples, frequencies) ==
  None \notin {samples, frequencies} /\ samples.length # frequencies.length

ParseKind(d, state, kind, json_dir, cwd, samples) ==
  LET values == ParseBinary(d, state, kind, json_dir, cwd) IN
    IF values # Refused /\ kind = "freqs" /\ Mismatched(samples, values) THEN Refused ELSE values
=============================================================================
