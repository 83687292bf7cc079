------------------------- MODULE ResultReadersProofs -------------------------
(***************************************************************************)
(* What a reading of a result gives, however many programs wrote to the    *)
(* same names, wherever directories were moved, whatever was lost.         *)
(***************************************************************************)
EXTENDS ResultReaders, FiniteSetTheorems, SequenceTheorems, WellFoundedInduction, TLAPS

-----------------------------------------------------------------------------
(* The inductive invariant *)

\* The names of the files next to a document
SidecarNames ==
  UNION {{FileName(Sidecars(p.states), i) : i \in DOMAIN Sidecars(p.states)} : p \in Plans}

SidecarAt(d, p, i) == d \o FileName(Sidecars(p.states), i)

WholeFile(r, p, i) ==
  Binary(r, Sidecars(p.states)[i].state, Sidecars(p.states)[i].kind,
         WholeSize(p, Sidecars(p.states)[i].state))

\* What a run prints that could write the files oks says
IsDocument(doc, oks) ==
  /\ doc.run \in Nat /\ doc.plan \in Plans
  /\ oks \in Seq(BOOLEAN) /\ Len(oks) = Len(Sidecars(doc.plan.states))
  /\ doc = ResultDocument(doc.run, doc.plan, oks)

\* What stands next to the document in d where it names a file: that file, or
\* nothing if files were deleted.
Backed(files, gone, d, doc) ==
  /\ doc.plan.dir # Cwd => d # Cwd
  /\ \E oks \in [DOMAIN Sidecars(doc.plan.states) -> BOOLEAN] :
       /\ IsDocument(doc, oks)
       /\ \A i \in DOMAIN oks : oks[i] =>
            LET path == SidecarAt(d, doc.plan, i)
            IN /\ path \in DOMAIN files => files[path] = WholeFile(doc.run, doc.plan, i)
               /\ gone \/ path \in DOMAIN files

IsBinary(content) ==
  /\ content.of \in Nat \X Nat \X Kinds /\ content.size \in Nat
  /\ content = Binary(content.of[1], content.of[2], content.of[3], content.size)

IsResult(files, gone, d, content) ==
  \/ content = NotJson
  \/ content = Document(content.document) /\ Backed(files, gone, d, content.document)

Filed(files, gone) ==
  \A p \in DOMAIN files :
    \/ \E d \in Directories : p = Json(d) /\ IsResult(files, gone, d, files[p])
    \/ \E d \in Directories, f \in SidecarNames : p = d \o f /\ IsBinary(files[p])

\* A program that runs has emptied its document, and written what it says it has.
Programming ==
  /\ phase \in {"idle", "measure", "writing"} /\ run \in Nat
  /\ phase # "idle" =>
       /\ plan \in Plans
       /\ written \in Seq(BOOLEAN) /\ Len(written) <= Len(Files)
       /\ phase = "writing" => Len(written) < Len(Files)
       /\ Json(plan.dir) \in DOMAIN disk /\ disk[Json(plan.dir)] = NotJson
       /\ \A i \in DOMAIN written : written[i] =>
            /\ SidecarAt(plan.dir, plan, i) \in DOMAIN disk
            /\ disk[SidecarAt(plan.dir, plan, i)] = WholeFile(run, plan, i)

\* A reading that has opened its document
HasDocument(doc) ==
  \E oks \in [DOMAIN Sidecars(doc.plan.states) -> BOOLEAN] : IsDocument(doc, oks)
NothingRead == sources = None /\ values = NoFiles /\ material = NoFiles /\ rows = NoFiles /\ script = None

SourcesOf(doc, d, s) == extract_gpu_timing_data(doc.states[s], d)

Reads ==
  /\ stage \in {"idle", "reading", "refused", "done"} /\ steady \in BOOLEAN
  /\ stage = "idle" => document = None /\ NothingRead /\ at = 1
  /\ stage # "idle" =>
       /\ tool \in {"eager", "lazy"} /\ dir \in Directories
       /\ \/ document = None /\ stage = "refused" /\ NothingRead
          \/ /\ HasDocument(document)
             /\ steady => Json(dir) \in DOMAIN disk /\ disk[Json(dir)] = Document(document)

\* What the verdicts have asked about belongs to the state at hand or to one
\* that has its row.
Asked ==
  /\ at \in Nat \ {0}
  /\ sources # None => at \in DOMAIN document.states /\ sources = SourcesOf(document, dir, at) /\ sources # Refused
  /\ \A r \in DOMAIN rows : r \in DOMAIN document.states /\ SourcesOf(document, dir, r) # Refused
  /\ tool = "lazy" =>
       \A p \in DOMAIN values \cup DOMAIN material :
         p \in (DOMAIN rows \cup (IF sources = None THEN {} ELSE {at})) \X Kinds
  /\ tool = "eager" =>
       /\ sources = None /\ rows = NoFiles /\ material = NoFiles
       /\ \A p \in DOMAIN values : p \in (DOMAIN document.states) \X Kinds
  /\ stage = "done" => sources = None /\ at \notin DOMAIN document.states
  /\ script # None => tool = "lazy" /\ stage = "done"

\* An array has the announced length.
Lengths ==
  \A p \in DOMAIN values :
    Present(values[p]) => values[p].length = document.plan.states[p[1]].count

\* As long as nothing has happened to the disk, what was read is what a reading
\* gives now.
Fresh ==
  /\ tool = "eager" =>
       \A p \in DOMAIN values :
         values[p] = ParseBinary(disk, document.states[p[1]], p[2], dir, cwd) /\ values[p] # Refused
  /\ tool = "lazy" =>
       /\ \A p \in DOMAIN values : values[p] = Values(disk, SourcesOf(document, dir, p[1])[p[2]])
       /\ \A p \in DOMAIN material :
            material[p] = has_material_bulk_source(disk, SourcesOf(document, dir, p[1])[p[2]])
       /\ \A r \in DOMAIN rows : rows[r] = make_bulk_debug_row(disk, SourcesOf(document, dir, r))
       /\ script # None =>
            script = [r \in DOMAIN rows |-> [kind \in Kinds |-> ScriptReads(disk, rows[r][kind])]]

\* Why a result was refused
Refusal ==
  stage = "refused" /\ document # None =>
    /\ tool = "lazy" => \E s \in DOMAIN document.states : SourcesOf(document, dir, s) = Refused
    /\ tool = "eager" /\ steady =>
         \E s \in DOMAIN document.states, kind \in Kinds :
           \E samples \in {None, ParseBinary(disk, document.states[s], "samples", dir, cwd)} :
             samples # Refused /\ ParseKind(disk, document.states[s], kind, dir, cwd, samples) = Refused

OnDisk ==
  /\ Filed(disk, discards # 0) /\ discards \in Nat
  /\ Programming

IInv ==
  /\ OnDisk
  /\ Reads
  /\ Asked
  /\ Lengths
  /\ steady => Fresh
  /\ Refusal
-----------------------------------------------------------------------------
(* Numbers *)

\* A set of numbers that is not empty has a least one.
LEMMA Least ==
  ASSUME NEW P \in SUBSET Nat, P # {}
  PROVE  \E i \in P : \A j \in P : i <= j
  <1>1. PICK R : R = OpToRel(<, Nat)
    OBVIOUS
  <1>2. IsWellFoundedOn(R, Nat)
    BY <1>1, NatLessThanWellFounded
  <1>3. PICK i \in P : \A j \in P : ~ (<<j, i>> \in R)
    BY <1>2, WFMin
  <1>4. \A j \in P : ~ (j < i)
    BY <1>1, <1>3 DEF OpToRel
  <1> QED
    BY <1>4

LEMMA FirstIs ==
  ASSUME NEW P \in SUBSET Nat, NEW i \in P, \A j \in P : i <= j
  PROVE  First(P) = i
  <1> DEFINE Lowest(k) == k \in P /\ \A j \in P : k <= j
  <1>1. Lowest(i) /\ First(P) = CHOOSE k : Lowest(k)
    BY DEF First
  <1> HIDE DEF Lowest
  <1>2. Lowest(First(P))
    BY <1>1
  <1>3. First(P) \in P /\ First(P) <= i /\ i <= First(P)
    BY <1>2 DEF Lowest
  <1>4. First(P) \in Nat /\ i \in Nat
    BY <1>3
  <1> QED
    BY <1>3, <1>4

-----------------------------------------------------------------------------
(* Paths *)

\* A name is a string; nothing more is needed of one.
Name == STRING
Path == Seq(Name)

\* Names of one length at the end of a path, and what they stand in
LEMMA Split ==
  ASSUME NEW d \in Path, NEW e \in Path, NEW f \in Path, NEW g \in Path,
         Len(f) = Len(g), d \o f = e \o g
  PROVE  d = e /\ f = g
  <1> USE DEF Path
  <1>1. /\ Len(d) \in Nat /\ Len(e) \in Nat /\ Len(f) \in Nat
        /\ Len(d \o f) = Len(d) + Len(f) /\ Len(e \o g) = Len(e) + Len(g)
    BY ConcatProperties
  <1>2. Len(d) = Len(e)
    BY <1>1
  <1>3. \A i \in 1..Len(d) : d[i] = e[i]
    <2> TAKE i \in 1..Len(d)
    <2>1. i \in 1..(Len(d) + Len(f)) /\ i \in 1..(Len(e) + Len(g)) /\ i <= Len(d) /\ i <= Len(e)
      BY <1>1, <1>2
    <2>2. (d \o f)[i] = d[i] /\ (e \o g)[i] = e[i]
      BY <2>1, ConcatProperties
    <2> QED
      BY <2>2
  <1>4. \A i \in 1..Len(f) : f[i] = g[i]
    <2> TAKE i \in 1..Len(f)
    <2> DEFINE j == Len(d) + i
    <2>1. j \in 1..(Len(d) + Len(f)) /\ j \in 1..(Len(e) + Len(g)) /\ ~ (j <= Len(d)) /\ ~ (j <= Len(e))
      BY <1>1, <1>2
    <2>2. (d \o f)[j] = f[j - Len(d)] /\ (e \o g)[j] = g[j - Len(e)]
      <3> HIDE DEF j
      <3> QED
        BY <2>1, ConcatProperties
    <2>3. j - Len(d) = i /\ j - Len(e) = i
      BY <1>1, <1>2
    <2> QED
      BY <2>2, <2>3
  <1>5. d = e
    BY <1>2, <1>3, SeqEqual
  <1>6. f = g
    BY <1>4, SeqEqual
  <1> QED
    BY <1>5, <1>6

LEMMA SplitPath ==
  \A d, e, f, g \in Path : Len(f) = Len(g) /\ d \o f = e \o g => d = e
  BY Split

LEMMA SplitEnd ==
  \A d, e, f, g \in Path : Len(f) = Len(g) /\ d \o f = e \o g => f = g
  BY Split

LEMMA JsonPath ==
  ASSUME NEW d \in Path
  PROVE  Json(d) = d \o <<JsonName>> /\ Json(d) \in Path /\ <<JsonName>> \in Path
  <1>1. JsonName \in Name
    BY NamesAssumption, Zenon DEF Name
  <1>2. <<JsonName>> \in Path /\ Len(<<JsonName>>) = 1 /\ <<JsonName>>[1] = JsonName
    BY <1>1 DEF Path
  <1>3. /\ Json(d) \in Path /\ Len(d) \in Nat /\ Len(Json(d)) = Len(d) + 1
        /\ \A i \in 1..(Len(d) + 1) : Json(d)[i] = IF i <= Len(d) THEN d[i] ELSE JsonName
    BY <1>1 DEF Path, Json
  <1>4. /\ d \o <<JsonName>> \in Path /\ Len(d \o <<JsonName>>) = Len(d) + 1
        /\ \A i \in 1..(Len(d) + 1) :
             (d \o <<JsonName>>)[i] = IF i <= Len(d) THEN d[i] ELSE <<JsonName>>[i - Len(d)]
    BY <1>2, ConcatProperties DEF Path
  <1>5. \A i \in 1..(Len(d) + 1) : ~ (i <= Len(d)) => i - Len(d) = 1
    BY <1>3
  <1>6. \A i \in 1..Len(Json(d)) : Json(d)[i] = (d \o <<JsonName>>)[i]
    BY <1>2, <1>3, <1>4, <1>5
  <1>7. Json(d) = d \o <<JsonName>>
    BY <1>3, <1>4, <1>6, SeqEqual DEF Path
  <1> QED
    BY <1>2, <1>3, <1>7

LEMMA JsonOfOne ==
  ASSUME NEW d \in Path, NEW e \in Path, Json(d) = Json(e)
  PROVE  d = e
  BY JsonPath, SplitPath

\* The names of a binary file next to its document
IsSidecar(f) ==
  /\ f \in Path /\ Len(f) = 2
  /\ \E kind \in Kinds : f[1] = SidecarDirectory(kind)
  /\ f[2] # JsonName

LEMMA JsonIsNoSidecar ==
  ASSUME NEW d \in Path, NEW e \in Path, NEW f, IsSidecar(f)
  PROVE  Json(d) # e \o f
  <1>1. f \in Path /\ Len(f) = 2 /\ f[2] # JsonName
    BY DEF IsSidecar
  <1>2. Len(d) \in Nat /\ Len(e) \in Nat
    BY DEF Path
  <1>3. SUFFICES ASSUME Json(d) = e \o f
                 PROVE  FALSE
    OBVIOUS
  <1>4. Len(d) + 1 = Len(e) + 2 /\ (e \o f)[Len(d) + 1] = JsonName
    <2>1. Len(Json(d)) = Len(d) + 1 /\ Json(d)[Len(d) + 1] = JsonName
      BY <1>2 DEF Path, Json
    <2>2. Len(e \o f) = Len(e) + Len(f)
      BY <1>1, ConcatProperties DEF Path
    <2> QED
      BY <1>1, <1>2, <1>3, <2>1, <2>2
  <1>5. Len(e) + 2 \in 1..(Len(e) + Len(f)) /\ ~ (Len(e) + 2 <= Len(e)) /\ Len(e) + 2 - Len(e) = 2
    BY <1>1, <1>2
  <1>6. (e \o f)[Len(e) + 2] = f[Len(e) + 2 - Len(e)]
    <2> DEFINE k == Len(e) + 2
    <2>1. e \in Seq(Name) /\ f \in Seq(Name)
      BY <1>1 DEF Path
    <2>2. k \in 1..(Len(e) + Len(f)) /\ ~ (k <= Len(e))
      BY <1>5
    <2> HIDE DEF k
    <2>3. (e \o f)[k] = f[k - Len(e)]
      BY <2>1, <2>2, ConcatProperties
    <2> QED
      BY <2>3 DEF k
  <1> QED
    BY <1>1, <1>4, <1>5, <1>6

\* A sidecar of another directory is another file.
LEMMA SidecarOfOne ==
  ASSUME NEW d \in Path, NEW e \in Path, NEW f, NEW g, IsSidecar(f), IsSidecar(g), d \o f = e \o g
  PROVE  d = e /\ f = g
  <1>1. f \in Path /\ g \in Path /\ Len(f) = Len(g)
    BY DEF IsSidecar
  <1> QED
    BY <1>1, SplitPath, SplitEnd

-----------------------------------------------------------------------------
(* The files of a run *)

\* Flattened from the first sequence to the last
Flattened(seqs, n, f) ==
  f = [i \in 1..n |-> IF i = 1 THEN seqs[i] ELSE f[i - 1] \o seqs[i]]

LEMMA Flatten ==
  ASSUME NEW S, NEW seqs \in Seq(Seq(S))
  PROVE  /\ FlattenSeq(seqs) \in Seq(S)
         /\ \A i \in DOMAIN seqs : \A j \in DOMAIN seqs[i] :
              \E k \in DOMAIN FlattenSeq(seqs) : FlattenSeq(seqs)[k] = seqs[i][j]
  <1>0. PICK n : n = Len(seqs)
    OBVIOUS
  <1>1. n \in Nat /\ DOMAIN seqs = 1..n /\ \A i \in 1..n : seqs[i] \in Seq(S)
    BY <1>0
  <1>2. CASE n = 0
    <2>1. FlattenSeq(seqs) = seqs
      BY <1>0, <1>2 DEF FlattenSeq
    <2>2. seqs = <<>>
      BY <1>0, <1>2, EmptySeq
    <2> QED
      BY <1>1, <1>2, <2>1, <2>2
  <1>3. CASE n # 0
    <2>1. ASSUME NEW m \in 1..n
          PROVE  \E f : Flattened(seqs, m, f)
      <3>1. PICK P : P = {k \in 1..n : ~ \E f : Flattened(seqs, k, f)}
        OBVIOUS
      <3>2. SUFFICES ASSUME P # {}
                     PROVE  FALSE
        BY <3>1
      <3>3. P \in SUBSET (1..n) /\ P \in SUBSET Nat
        BY <1>1, <3>1
      <3>4. PICK k \in P : \A j \in P : k <= j
        BY <3>2, <3>3, Least
      <3>5. CASE k = 1
        <4>1. PICK f : f = [i \in 1..1 |-> seqs[i]]
          OBVIOUS
        <4>2. f = [i \in 1..1 |-> IF i = 1 THEN seqs[i] ELSE f[i - 1] \o seqs[i]]
          <5>1. \A i \in 1..1 : i = 1
            OBVIOUS
          <5> QED
            BY <4>1, <5>1
        <4> QED
          BY <3>1, <3>5, <4>2 DEF Flattened
      <3>6. CASE k # 1
        <4>1. k \in Nat /\ k - 1 \in 1..n /\ ~ (k <= k - 1)
          BY <1>1, <3>3, <3>6
        <4>2. k - 1 \notin P
          BY <3>4, <4>1
        <4>3. PICK before : Flattened(seqs, k - 1, before)
          BY <3>1, <4>1, <4>2
        <4>4. PICK f : f = [i \in 1..k |-> IF i = 1 THEN seqs[i] ELSE before[i - 1] \o seqs[i]]
          OBVIOUS
        <4>5. ASSUME NEW i \in 1..(k - 1)
              PROVE  f[i] = before[i]
          <5>1. i \in 1..k
            BY <4>1
          <5> QED
            BY <4>3, <4>4, <5>1 DEF Flattened
        <4>6. \A i \in 1..k : i # 1 => i - 1 \in 1..(k - 1)
          BY <4>1
        <4>7. \A i \in 1..k : f[i] = IF i = 1 THEN seqs[i] ELSE f[i - 1] \o seqs[i]
          BY <4>4, <4>5, <4>6
        <4>8. f = [i \in 1..k |-> IF i = 1 THEN seqs[i] ELSE f[i - 1] \o seqs[i]]
          BY <4>4, <4>7
        <4> QED
          BY <3>1, <4>8 DEF Flattened
      <3> QED
        BY <3>5, <3>6
    <2>2. PICK f : f = CHOOSE g : Flattened(seqs, n, g)
      OBVIOUS
    <2>3. Flattened(seqs, n, f)
      <3>1. n \in 1..n
        BY <1>1, <1>3
      <3>2. \E g : Flattened(seqs, n, g)
        BY <2>1, <3>1
      <3> QED
        BY <2>2, <3>2
    <2>4. FlattenSeq(seqs) = f[n]
      BY <1>0, <1>3, <2>2 DEF FlattenSeq, Flattened
    <2>5. \A i \in 1..n : f[i] = IF i = 1 THEN seqs[i] ELSE f[i - 1] \o seqs[i]
      BY <2>3 DEF Flattened
    <2> DEFINE Good(k) == /\ f[k] \in Seq(S)
                          /\ \A i \in 1..k : \A j \in DOMAIN seqs[i] :
                               \E l \in DOMAIN f[k] : f[k][l] = seqs[i][j]
    <2> HIDE DEF Good
    <2>6. ASSUME NEW m \in 1..n
          PROVE  Good(m)
      <3>1. PICK P : P = {k \in 1..n : ~ Good(k)}
        OBVIOUS
      <3>2. SUFFICES ASSUME P # {}
                     PROVE  FALSE
        BY <3>1
      <3>3. P \in SUBSET (1..n) /\ P \in SUBSET Nat
        BY <1>1, <3>1
      <3>4. PICK k \in P : \A j \in P : k <= j
        BY <3>2, <3>3, Least
      <3>5. CASE k = 1
        <4>1. 1 \in 1..n /\ f[1] = seqs[1]
          BY <2>5, <3>3, <3>5
        <4>2. \A i \in 1..1 : i = 1
          OBVIOUS
        <4>3. Good(1)
          BY <1>1, <4>1, <4>2 DEF Good
        <4> QED
          BY <3>1, <3>5, <4>3
      <3>6. CASE k # 1
        <4>1. k \in Nat /\ k \in 1..n /\ k - 1 \in 1..n /\ ~ (k <= k - 1)
          BY <1>1, <3>3, <3>6
        <4>2. Good(k - 1)
          BY <3>1, <3>4, <4>1
        <4>3. f[k] = f[k - 1] \o seqs[k]
          BY <2>5, <3>6, <4>1
        <4>4. PICK a \in Seq(S), b \in Seq(S) : a = f[k - 1] /\ b = seqs[k]
          BY <1>1, <4>1, <4>2 DEF Good
        <4>8. f[k] = a \o b
          BY <4>3, <4>4
        <4>5. /\ f[k] \in Seq(S) /\ DOMAIN f[k] = 1..(Len(a) + Len(b))
              /\ \A i \in 1..(Len(a) + Len(b)) : f[k][i] = IF i <= Len(a) THEN a[i] ELSE b[i - Len(a)]
          BY <4>8, ConcatProperties
        <4>6. ASSUME NEW i \in 1..k, NEW j \in DOMAIN seqs[i]
              PROVE  \E l \in DOMAIN f[k] : f[k][l] = seqs[i][j]
          <5>1. CASE i = k
            <6>1. /\ j \in 1..Len(b) /\ Len(a) \in Nat /\ Len(b) \in Nat
              BY <4>4, <5>1
            <6>2. /\ Len(a) + j \in 1..(Len(a) + Len(b)) /\ ~ (Len(a) + j <= Len(a))
                  /\ Len(a) + j - Len(a) = j
              BY <6>1
            <6>3. f[k][Len(a) + j] = b[Len(a) + j - Len(a)]
              BY <4>5, <6>1, <6>2
            <6> QED
              BY <4>4, <4>5, <5>1, <6>2, <6>3
          <5>2. CASE i # k
            <6>1. i \in 1..(k - 1)
              BY <4>1, <5>2
            <6>2. PICK l \in DOMAIN a : a[l] = seqs[i][j]
              BY <4>2, <4>4, <6>1 DEF Good
            <6>3. l \in 1..Len(a) /\ Len(a) \in Nat /\ Len(b) \in Nat
              BY <6>2
            <6>4. l \in 1..(Len(a) + Len(b)) /\ l <= Len(a)
              BY <6>3
            <6> QED
              BY <4>5, <6>2, <6>4
          <5> QED
            BY <5>1, <5>2
        <4>7. Good(k)
          BY <4>5, <4>6 DEF Good
        <4> QED
          BY <3>1, <4>7
      <3> QED
        BY <3>5, <3>6
    <2> QED
      BY <1>1, <1>3, <2>4, <2>6 DEF Good
  <1> QED
    BY <1>2, <1>3

StateTypes == [type : {"cold", "cpu", "skipped"}, count : Nat]

LEMMA PlanParts ==
  ASSUME NEW p \in Plans
  PROVE  /\ p.dir \in Directories /\ p.states \in Seq(StateTypes) /\ p.recorded \in {"json", "cwd"}
         /\ \A s \in DOMAIN p.states : p.states[s].type = "cold" => p.states[s].count > 0
  BY PlansAssumption, DirectoriesAssumption, Zenon DEF PlanType, StateTypes

LEMMA DirectoryIsPath ==
  ASSUME NEW d \in Directories
  PROVE  d \in Path
  BY DirectoriesAssumption, Zenon DEF Path, Name

\* A run's files are of its states; a cold state has one of each kind.
LEMMA SidecarsListed ==
  ASSUME NEW p \in Plans
  PROVE  /\ Sidecars(p.states) \in Seq([state : DOMAIN p.states, kind : Kinds])
         /\ \A s \in DOMAIN p.states, kind \in Kinds : p.states[s].type = "cold" =>
              \E i \in DOMAIN Sidecars(p.states) : Sidecars(p.states)[i] = [state |-> s, kind |-> kind]
  <1>1. PICK states \in Seq(StateTypes) : states = p.states
    BY PlanParts
  <1>2. PICK S : S = [state : DOMAIN states, kind : Kinds]
    OBVIOUS
  <1>3. PICK seqs : seqs = [s \in DOMAIN states |-> StateSidecars(states, s)]
    OBVIOUS
  <1>4. ASSUME NEW s \in DOMAIN states
        PROVE  /\ seqs[s] \in Seq(S)
               /\ states[s].type = "cold" =>
                    \A kind \in Kinds : \E j \in DOMAIN seqs[s] : seqs[s][j] = [state |-> s, kind |-> kind]
    <2>1. seqs[s] = StateSidecars(states, s)
      BY <1>3
    <2>2. /\ [state |-> s, kind |-> "samples"] \in S /\ [state |-> s, kind |-> "freqs"] \in S
      BY <1>2 DEF Kinds
    <2>3. CASE states[s].type = "cold"
      <3>1. seqs[s] = <<[state |-> s, kind |-> "samples"], [state |-> s, kind |-> "freqs"]>>
        BY <2>1, <2>3 DEF StateSidecars
      <3>2. ASSUME NEW kind \in Kinds
            PROVE  \E j \in DOMAIN seqs[s] : seqs[s][j] = [state |-> s, kind |-> kind]
        <4>1. 1 \in DOMAIN seqs[s] /\ 2 \in DOMAIN seqs[s]
          BY <3>1
        <4>2. kind = "samples" \/ kind = "freqs"
          BY DEF Kinds
        <4> QED
          BY <3>1, <4>1, <4>2
      <3> QED
        BY <2>2, <3>1, <3>2
    <2>4. CASE states[s].type # "cold"
      <3>1. seqs[s] = <<[state |-> s, kind |-> "samples"]>> \/ seqs[s] = <<>>
        BY <2>1, <2>4 DEF StateSidecars
      <3>2. PICK r \in S : r = [state |-> s, kind |-> "samples"]
        BY <2>2
      <3>3. <<r>> \in Seq(S) /\ <<>> \in Seq(S)
        OBVIOUS
      <3> QED
        BY <2>4, <3>1, <3>2, <3>3
    <2> QED
      BY <2>3, <2>4
  <1>5. seqs \in Seq(Seq(S)) /\ DOMAIN seqs = DOMAIN states
    <2>1. PICK n : n = Len(states) /\ n \in Nat /\ DOMAIN states = 1..n
      OBVIOUS
    <2>2. seqs \in [1..n -> Seq(S)]
      BY <1>3, <1>4, <2>1
    <2> QED
      BY <1>3, <2>1, <2>2, SeqDef
  <1>6. Sidecars(states) = FlattenSeq(seqs)
    BY <1>3 DEF Sidecars
  <1>7. /\ FlattenSeq(seqs) \in Seq(S)
        /\ \A i \in DOMAIN seqs : \A j \in DOMAIN seqs[i] :
             \E k \in DOMAIN FlattenSeq(seqs) : FlattenSeq(seqs)[k] = seqs[i][j]
    BY <1>5, Flatten
  <1>8. ASSUME NEW s \in DOMAIN states, NEW kind \in Kinds, states[s].type = "cold"
        PROVE  \E i \in DOMAIN Sidecars(states) : Sidecars(states)[i] = [state |-> s, kind |-> kind]
    <2>1. PICK j \in DOMAIN seqs[s] : seqs[s][j] = [state |-> s, kind |-> kind]
      BY <1>4, <1>8
    <2>2. PICK k \in DOMAIN FlattenSeq(seqs) : FlattenSeq(seqs)[k] = seqs[s][j]
      BY <1>5, <1>7
    <2> QED
      BY <1>6, <2>1, <2>2
  <1> QED
    BY <1>1, <1>2, <1>6, <1>7, <1>8

\* The files of a run that come before its i-th
LEMMA BeforeCounted ==
  ASSUME NEW files, NEW n \in Nat, NEW i \in 1..n
  PROVE  /\ IsFiniteSet(Before(files, i))
         /\ Cardinality(Before(files, i)) \in 0..n
  <1>1. 1..n = 1..n /\ IsFiniteSet(1..n) /\ Cardinality(1..n) = n
    BY FS_Interval
  <1>2. Before(files, i) \in SUBSET (1..n)
    BY DEF Before
  <1>3. IsFiniteSet(Before(files, i)) /\ Cardinality(Before(files, i)) <= n
    BY <1>1, <1>2, FS_Subset
  <1>4. Cardinality(Before(files, i)) \in Nat
    BY <1>3, FS_CardinalityType
  <1> QED
    BY <1>3, <1>4

LEMMA CountedDiffer ==
  ASSUME NEW files, NEW n \in Nat, NEW i \in 1..n, NEW j \in 1..n, i < j, files[i].kind = files[j].kind
  PROVE  Cardinality(Before(files, i)) # Cardinality(Before(files, j))
  <1>1. Before(files, i) \in SUBSET Before(files, j)
    BY DEF Before
  <1>2. i \in Before(files, j) /\ i \notin Before(files, i)
    BY DEF Before
  <1>3. IsFiniteSet(Before(files, j))
    BY BeforeCounted
  <1> QED
    BY <1>1, <1>2, <1>3, FS_Subset

LEMMA SidecarParts ==
  ASSUME NEW p \in Plans, NEW i \in DOMAIN Sidecars(p.states)
  PROVE  /\ Sidecars(p.states)[i].kind \in Kinds /\ Sidecars(p.states)[i].state \in DOMAIN p.states
         /\ Sidecars(p.states)[i] = [state |-> Sidecars(p.states)[i].state,
                                    kind |-> Sidecars(p.states)[i].kind]
  <1>1. PICK S : S = [state : DOMAIN p.states, kind : Kinds]
    OBVIOUS
  <1>2. PICK files \in Seq(S) : files = Sidecars(p.states)
    BY <1>1, SidecarsListed
  <1>3. i \in 1..Len(files)
    BY <1>2
  <1>4. files[i] \in S
    BY <1>3, ElementOfSeq
  <1> QED
    BY <1>1, <1>2, <1>4

LEMMA FileNames ==
  ASSUME NEW p \in Plans, NEW i \in DOMAIN Sidecars(p.states)
  PROVE  IsSidecar(FileName(Sidecars(p.states), i))
  <1>1. PICK files : files = Sidecars(p.states)
    OBVIOUS
  <1>10. files \in Seq([state : DOMAIN p.states, kind : Kinds])
    BY <1>1, SidecarsListed
  <1>2. PICK n : n = Len(files) /\ n \in Nat /\ DOMAIN files = 1..n
    BY <1>10
  <1>3. files[i].kind \in Kinds
    BY <1>1, SidecarParts
  <1>4. PICK c : c = Cardinality(Before(files, i)) /\ c \in 0..n
    BY <1>1, <1>2, BeforeCounted
  <1>5. PICK f : f = FileName(files, i)
    OBVIOUS
  <1>6. f = <<SidecarDirectory(files[i].kind), BinaryName(c)>>
    BY <1>4, <1>5 DEF FileName
  <1>7. SidecarDirectory(files[i].kind) \in Name
    BY <1>3, NamesAssumption, Zenon DEF Name, Kinds
  <1>8. BinaryName(c) \in Name /\ BinaryName(c) # JsonName
    <2>1. c \in 0..Len(Sidecars(p.states))
      BY <1>1, <1>2, <1>4
    <2>2. BinaryName(c) \in STRING \ {JsonName}
      BY <2>1, NamesAssumption, Zenon
    <2> QED
      BY <2>2, Zenon DEF Name
  <1>9. f \in Path /\ Len(f) = 2 /\ f[1] = SidecarDirectory(files[i].kind) /\ f[2] # JsonName
    BY <1>6, <1>7, <1>8 DEF Path
  <1> QED
    BY <1>1, <1>3, <1>5, <1>9 DEF IsSidecar

LEMMA SidecarNamesAre ==
  ASSUME NEW f \in SidecarNames
  PROVE  IsSidecar(f)
  BY FileNames DEF SidecarNames

LEMMA NameOfOne ==
  ASSUME NEW p \in Plans, NEW i \in DOMAIN Sidecars(p.states)
  PROVE  FileName(Sidecars(p.states), i) \in SidecarNames
  BY DEF SidecarNames

\* No run writes two files of one name.
LEMMA NamesDiffer ==
  ASSUME NEW p \in Plans, NEW i \in DOMAIN Sidecars(p.states), NEW j \in DOMAIN Sidecars(p.states), i # j
  PROVE  FileName(Sidecars(p.states), i) # FileName(Sidecars(p.states), j)
  <1>1. PICK files : files = Sidecars(p.states)
    OBVIOUS
  <1>10. files \in Seq([state : DOMAIN p.states, kind : Kinds])
    BY <1>1, SidecarsListed
  <1>2. PICK n : n = Len(files) /\ n \in Nat /\ DOMAIN files = 1..n
    BY <1>10
  <1>3. files[i].kind \in Kinds /\ files[j].kind \in Kinds
    BY <1>1, SidecarParts
  <1>4. PICK c \in 0..n, e \in 0..n : c = Cardinality(Before(files, i)) /\ e = Cardinality(Before(files, j))
    BY <1>1, <1>2, BeforeCounted
  <1>5. SUFFICES ASSUME FileName(files, i) = FileName(files, j)
                 PROVE  FALSE
    BY <1>1
  <1>6. SidecarDirectory(files[i].kind) = SidecarDirectory(files[j].kind) /\ BinaryName(c) = BinaryName(e)
    BY <1>4, <1>5 DEF FileName
  <1>7. files[i].kind = files[j].kind
    BY <1>3, <1>6, NamesAssumption, Zenon DEF Kinds
  <1>8. c = e
    <2>1. c \in 0..Len(Sidecars(p.states)) /\ e \in 0..Len(Sidecars(p.states))
      BY <1>1, <1>2
    <2> QED
      BY <1>6, <2>1, NamesAssumption, Zenon
  <1>9. i \in 1..n /\ j \in 1..n /\ (i < j \/ j < i)
    BY <1>1, <1>2
  <1> QED
    BY <1>2, <1>4, <1>7, <1>8, <1>9, CountedDiffer

-----------------------------------------------------------------------------
(* What stands where on the disk *)

\* What e holds of the name f is what d held, and unless files were deleted it
\* holds all that d held.
Follows(files, new, later, d, e, f) ==
  /\ e \o f \in DOMAIN new => d \o f \in DOMAIN files /\ new[e \o f] = files[d \o f]
  /\ ~ later /\ d \o f \in DOMAIN files => e \o f \in DOMAIN new

LEMMA ResultKept ==
  ASSUME NEW files, NEW new, NEW gone \in BOOLEAN, NEW later \in BOOLEAN,
         NEW d, NEW e, NEW content,
         gone => later, d # Cwd => e # Cwd,
         \A f \in SidecarNames : Follows(files, new, later, d, e, f),
         IsResult(files, gone, d, content)
  PROVE  IsResult(new, later, e, content)
  <1>1. CASE content = NotJson
    BY <1>1 DEF IsResult
  <1>2. CASE content # NotJson
    <2>1. PICK doc : doc = content.document
      OBVIOUS
    <2>2. content = Document(doc) /\ Backed(files, gone, d, doc)
      BY <1>2, <2>1 DEF IsResult
    <2>3. PICK oks \in [DOMAIN Sidecars(doc.plan.states) -> BOOLEAN] :
            /\ IsDocument(doc, oks)
            /\ \A i \in DOMAIN oks : oks[i] =>
                 LET path == SidecarAt(d, doc.plan, i)
                 IN /\ path \in DOMAIN files => files[path] = WholeFile(doc.run, doc.plan, i)
                    /\ gone \/ path \in DOMAIN files
      BY <2>2 DEF Backed
    <2>4. doc.plan \in Plans
      BY <2>3 DEF IsDocument
    <2>5. ASSUME NEW i \in DOMAIN oks, oks[i]
          PROVE  /\ SidecarAt(e, doc.plan, i) \in DOMAIN new =>
                      new[SidecarAt(e, doc.plan, i)] = WholeFile(doc.run, doc.plan, i)
                 /\ later \/ SidecarAt(e, doc.plan, i) \in DOMAIN new
      <3>1. PICK f : f = FileName(Sidecars(doc.plan.states), i)
        OBVIOUS
      <3>2. f \in SidecarNames
        BY <2>4, <3>1 DEF SidecarNames
      <3>3. SidecarAt(e, doc.plan, i) = e \o f /\ SidecarAt(d, doc.plan, i) = d \o f
        BY <3>1 DEF SidecarAt
      <3>4. Follows(files, new, later, d, e, f)
        BY <3>2
      <3>5. /\ d \o f \in DOMAIN files => files[d \o f] = WholeFile(doc.run, doc.plan, i)
            /\ gone \/ d \o f \in DOMAIN files
        BY <2>3, <2>5, <3>3
      <3> QED
        BY <3>3, <3>4, <3>5 DEF Follows
    <2>6. doc.plan.dir # Cwd => e # Cwd
      BY <2>2 DEF Backed
    <2>7. Backed(new, later, e, doc)
      BY <2>3, <2>5, <2>6 DEF Backed
    <2> QED
      BY <2>1, <2>2, <2>7 DEF IsResult
  <1> QED
    BY <1>1, <1>2

LEMMA FiledDocument ==
  ASSUME NEW files, NEW gone, Filed(files, gone), NEW d \in Path, Json(d) \in DOMAIN files
  PROVE  d \in Directories /\ IsResult(files, gone, d, files[Json(d)])
  <1>1. PICK p : p = Json(d) /\ p \in DOMAIN files
    OBVIOUS
  <1>2. CASE \E e \in Directories : p = Json(e) /\ IsResult(files, gone, e, files[p])
    <2>1. PICK e \in Directories : p = Json(e) /\ IsResult(files, gone, e, files[p])
      BY <1>2
    <2>2. d = e
      BY <1>1, <2>1, DirectoryIsPath, JsonOfOne
    <2> QED
      BY <1>1, <2>1, <2>2
  <1>3. CASE \E e \in Directories, f \in SidecarNames : p = e \o f /\ IsBinary(files[p])
    BY <1>1, <1>3, DirectoryIsPath, SidecarNamesAre, JsonIsNoSidecar
  <1> QED
    BY <1>1, <1>2, <1>3 DEF Filed

LEMMA FiledSidecar ==
  ASSUME NEW files, NEW gone, Filed(files, gone), NEW d \in Path, NEW f, IsSidecar(f),
         d \o f \in DOMAIN files
  PROVE  d \in Directories /\ f \in SidecarNames /\ IsBinary(files[d \o f])
  <1>1. PICK p : p = d \o f /\ p \in DOMAIN files
    OBVIOUS
  <1>2. CASE \E e \in Directories : p = Json(e) /\ IsResult(files, gone, e, files[p])
    BY <1>1, <1>2, DirectoryIsPath, JsonIsNoSidecar
  <1>3. CASE \E e \in Directories, g \in SidecarNames : p = e \o g /\ IsBinary(files[p])
    <2>1. PICK e \in Directories, g \in SidecarNames : p = e \o g /\ IsBinary(files[p])
      BY <1>3
    <2>2. d = e /\ f = g
      BY <1>1, <2>1, DirectoryIsPath, SidecarNamesAre, SidecarOfOne
    <2> QED
      BY <1>1, <2>1, <2>2
  <1> QED
    BY <1>1, <1>2, <1>3 DEF Filed

\* A document is written: its files are those that the one before left.
LEMMA WriteDocument ==
  ASSUME NEW files, NEW new, NEW gone \in BOOLEAN, Filed(files, gone),
         NEW d \in Directories, NEW content,
         new = [p \in DOMAIN files \cup {Json(d)} |-> IF p = Json(d) THEN content ELSE files[p]],
         IsResult(files, gone, d, content)
  PROVE  Filed(new, gone)
  <1>1. ASSUME NEW e \in Directories, NEW f \in SidecarNames
        PROVE  Follows(files, new, gone, e, e, f)
    <2>1. e \o f # Json(d)
      BY DirectoryIsPath, SidecarNamesAre, JsonIsNoSidecar
    <2> QED
      BY <2>1 DEF Follows
  <1>2. ASSUME NEW p \in DOMAIN new, p = Json(d)
        PROVE  IsResult(new, gone, d, new[p])
    <2>1. new[p] = content
      BY <1>2
    <2> QED
      BY <1>1, <2>1, ResultKept
  <1>3. ASSUME NEW p \in DOMAIN new, p # Json(d)
        PROVE  \/ \E e \in Directories : p = Json(e) /\ IsResult(new, gone, e, new[p])
               \/ \E e \in Directories, f \in SidecarNames : p = e \o f /\ IsBinary(new[p])
    <2>1. p \in DOMAIN files /\ new[p] = files[p]
      BY <1>3
    <2>2. CASE \E e \in Directories : p = Json(e) /\ IsResult(files, gone, e, files[p])
      <3>1. PICK e \in Directories : p = Json(e) /\ IsResult(files, gone, e, files[p])
        BY <2>2
      <3>2. \A f \in SidecarNames : Follows(files, new, gone, e, e, f)
        BY <1>1
      <3>3. IsResult(new, gone, e, files[p])
        BY <3>1, <3>2, ResultKept
      <3> QED
        BY <2>1, <3>1, <3>3
    <2>3. CASE \E e \in Directories, f \in SidecarNames : p = e \o f /\ IsBinary(files[p])
      BY <2>1, <2>3
    <2> QED
      BY <2>1, <2>2, <2>3 DEF Filed
  <1> QED
    BY <1>2, <1>3 DEF Filed

\* A binary file is written or removed while its document is not one.
LEMMA ChangeSidecar ==
  ASSUME NEW files, NEW new, NEW gone \in BOOLEAN, Filed(files, gone),
         NEW d \in Directories, NEW f \in SidecarNames,
         files[Json(d)] = NotJson,
         \A p : p # d \o f => (p \in DOMAIN new <=> p \in DOMAIN files),
         \A p \in DOMAIN new : p # d \o f => new[p] = files[p],
         d \o f \in DOMAIN new => IsBinary(new[d \o f])
  PROVE  Filed(new, gone)
  <1>1. ASSUME NEW p \in DOMAIN new, p # d \o f
        PROVE  \/ \E e \in Directories : p = Json(e) /\ IsResult(new, gone, e, new[p])
               \/ \E e \in Directories, g \in SidecarNames : p = e \o g /\ IsBinary(new[p])
    <2>1. p \in DOMAIN files /\ new[p] = files[p]
      BY <1>1
    <2>2. CASE \E e \in Directories : p = Json(e) /\ IsResult(files, gone, e, files[p])
      <3>1. PICK e \in Directories : p = Json(e) /\ IsResult(files, gone, e, files[p])
        BY <2>2
      <3>2. CASE e = d
        BY <2>1, <3>1, <3>2 DEF IsResult
      <3>3. CASE e # d
        <4>1. ASSUME NEW g \in SidecarNames
              PROVE  Follows(files, new, gone, e, e, g)
          <5>1. e \o g # d \o f
            BY <3>3, DirectoryIsPath, SidecarNamesAre, SidecarOfOne
          <5> QED
            BY <5>1 DEF Follows
        <4> QED
          BY <2>1, <3>1, <4>1, ResultKept
      <3> QED
        BY <3>2, <3>3
    <2>3. CASE \E e \in Directories, g \in SidecarNames : p = e \o g /\ IsBinary(files[p])
      BY <2>1, <2>3
    <2> QED
      BY <2>1, <2>2, <2>3 DEF Filed
  <1> QED
    BY <1>1 DEF Filed

\* A file is deleted.
LEMMA RemoveFile ==
  ASSUME NEW files, NEW new, NEW gone \in BOOLEAN, NEW later \in BOOLEAN,
         Filed(files, gone), later, NEW path,
         new = [p \in DOMAIN files \ {path} |-> files[p]]
  PROVE  Filed(new, later)
  <1>1. ASSUME NEW e \in Directories, NEW f \in SidecarNames
        PROVE  Follows(files, new, later, e, e, f)
    BY DEF Follows
  <1>2. ASSUME NEW p \in DOMAIN new
        PROVE  \/ \E e \in Directories : p = Json(e) /\ IsResult(new, later, e, new[p])
               \/ \E e \in Directories, f \in SidecarNames : p = e \o f /\ IsBinary(new[p])
    <2>1. p \in DOMAIN files /\ new[p] = files[p]
      OBVIOUS
    <2>2. CASE \E e \in Directories : p = Json(e) /\ IsResult(files, gone, e, files[p])
      <3>1. PICK e \in Directories : p = Json(e) /\ IsResult(files, gone, e, files[p])
        BY <2>2
      <3>2. \A f \in SidecarNames : Follows(files, new, later, e, e, f)
        BY <1>1
      <3>3. IsResult(new, later, e, files[p])
        BY <3>1, <3>2, ResultKept
      <3> QED
        BY <2>1, <3>1, <3>3
    <2>3. CASE \E e \in Directories, f \in SidecarNames : p = e \o f /\ IsBinary(files[p])
      BY <2>1, <2>3
    <2> QED
      BY <2>1, <2>2, <2>3 DEF Filed
  <1> QED
    BY <1>2 DEF Filed

-----------------------------------------------------------------------------
(* Directories that are moved *)

LEMMA PathParts ==
  ASSUME NEW d \in Path, NEW p \in Path, Len(d) <= Len(p), SubSeq(p, 1, Len(d)) = d
  PROVE  /\ SubSeq(p, Len(d) + 1, Len(p)) \in Path
         /\ Len(SubSeq(p, Len(d) + 1, Len(p))) = Len(p) - Len(d)
         /\ p = d \o SubSeq(p, Len(d) + 1, Len(p))
  <1> USE DEF Path
  <1>10. Len(d) \in Nat /\ Len(p) \in Nat
    BY LenProperties
  <1>1. PICK n \in Nat, m \in Nat : n = Len(d) /\ m = Len(p)
    BY <1>10
  <1>9. n <= m
    BY <1>1
  <1>2. PICK t : t = SubSeq(p, n + 1, m)
    OBVIOUS
  <1>3. \A i \in (n + 1)..m : p[i] \in Name
    BY <1>1
  <1>4. t \in Seq(Name) /\ Len(t) = m - n /\ \A i \in 1..(m - n) : t[i] = p[i + n]
    <2>1. /\ t \in Seq(Name) /\ Len(t) = IF n + 1 <= m THEN m - (n + 1) + 1 ELSE 0
          /\ \A i \in 1..(m - (n + 1) + 1) : t[i] = p[n + 1 + i - 1]
      BY <1>1, <1>2, <1>3, SubSeqProperties
    <2>2. m - (n + 1) + 1 = m - n /\ \A i \in 1..(m - n) : n + 1 + i - 1 = i + n
      OBVIOUS
    <2>3. Len(t) = m - n
      BY <1>9, <2>1, <2>2
    <2>4. \A i \in 1..(m - n) : t[i] = p[i + n]
      <3> TAKE i \in 1..(m - n)
      <3>1. i \in 1..(m - (n + 1) + 1) /\ n + 1 + i - 1 = i + n
        BY <2>2
      <3> QED
        BY <2>1, <3>1
    <2> QED
      BY <2>1, <2>3, <2>4
  <1>5. \A i \in 1..n : p[i] = d[i]
    <2>1. \A i \in 1..n : p[i] \in Name
      BY <1>1, <1>9
    <2>2. \A i \in 1..(n - 1 + 1) : SubSeq(p, 1, n)[i] = p[1 + i - 1]
      BY <1>1, <2>1, SubSeqProperties
    <2> QED
      BY <1>1, <2>2
  <1>6. /\ d \o t \in Seq(Name) /\ Len(d \o t) = n + (m - n)
        /\ \A i \in 1..m : (d \o t)[i] = IF i <= n THEN d[i] ELSE t[i - n]
    <2>1. Len(d) + Len(t) = n + (m - n) /\ n + (m - n) = m
      BY <1>1, <1>4
    <2>2. /\ d \o t \in Seq(Name) /\ Len(d \o t) = Len(d) + Len(t)
          /\ \A i \in 1..(Len(d) + Len(t)) : (d \o t)[i] = IF i <= Len(d) THEN d[i] ELSE t[i - Len(d)]
      BY <1>4, ConcatProperties
    <2> QED
      BY <1>1, <2>1, <2>2
  <1>7. \A i \in 1..m : p[i] = (d \o t)[i]
    <2> TAKE i \in 1..m
    <2>1. CASE i <= n
      BY <1>1, <1>5, <1>6, <2>1
    <2>2. CASE ~ (i <= n)
      <3>1. i - n \in 1..(m - n) /\ i - n + n = i
        BY <1>1, <2>2
      <3>2. t[i - n] = p[i - n + n]
        BY <1>4, <3>1
      <3> QED
        BY <1>6, <2>2, <3>1, <3>2
    <2> QED
      BY <2>1, <2>2
  <1>8. p = d \o t
    <2>1. PICK q : q = d \o t
      OBVIOUS
    <2>2. n + (m - n) = m
      BY <1>1
    <2>3. p \in Seq(Name) /\ q \in Seq(Name) /\ Len(p) = m /\ Len(q) = m
      BY <1>1, <1>6, <2>1, <2>2
    <2>4. \A i \in 1..Len(p) : p[i] = q[i]
      BY <1>7, <2>1, <2>3
    <2>5. p = q
      BY <2>3, <2>4, SeqEqual
    <2> QED
      BY <2>1, <2>5
  <1> QED
    BY <1>1, <1>2, <1>4, <1>8

LEMMA UnderIts ==
  ASSUME NEW d \in Path, NEW t \in Path, Len(t) > 0
  PROVE  Under(d \o t, d) /\ SubSeq(d \o t, Len(d) + 1, Len(d \o t)) = t
  <1> USE DEF Path
  <1>1. PICK n \in Nat, k \in Nat \ {0} : n = Len(d) /\ k = Len(t)
    OBVIOUS
  <1>2. PICK p \in Seq(Name) : p = d \o t
    BY ConcatProperties
  <1>3. Len(p) = n + k /\ \A i \in 1..(n + k) : p[i] = IF i <= n THEN d[i] ELSE t[i - n]
    BY <1>1, <1>2, ConcatProperties
  <1>4. SubSeq(p, 1, n) = d
    <2>1. \A i \in 1..n : p[i] \in Name
      BY <1>1, <1>3
    <2>2. /\ SubSeq(p, 1, n) \in Seq(Name) /\ Len(SubSeq(p, 1, n)) = IF 1 <= n THEN n - 1 + 1 ELSE 0
          /\ \A i \in 1..(n - 1 + 1) : SubSeq(p, 1, n)[i] = p[1 + i - 1]
      BY <1>1, <2>1, SubSeqProperties
    <2>3. Len(SubSeq(p, 1, n)) = n /\ \A i \in 1..n : SubSeq(p, 1, n)[i] = d[i]
      BY <1>1, <1>3, <2>2
    <2> QED
      BY <1>1, <2>2, <2>3, SeqEqual
  <1>5. SubSeq(p, n + 1, n + k) = t
    <2>1. \A i \in (n + 1)..(n + k) : p[i] \in Name
      BY <1>1, <1>3
    <2>2. /\ SubSeq(p, n + 1, n + k) \in Seq(Name)
          /\ Len(SubSeq(p, n + 1, n + k)) = IF n + 1 <= n + k THEN n + k - (n + 1) + 1 ELSE 0
          /\ \A i \in 1..(n + k - (n + 1) + 1) : SubSeq(p, n + 1, n + k)[i] = p[n + 1 + i - 1]
      BY <1>1, <2>1, SubSeqProperties
    <2>3. Len(SubSeq(p, n + 1, n + k)) = k
      BY <1>1, <2>2
    <2>4. \A i \in 1..k : SubSeq(p, n + 1, n + k)[i] = t[i]
      <3> TAKE i \in 1..k
      <3>1. /\ n + 1 + i - 1 = n + i /\ n + i \in 1..(n + k) /\ ~ (n + i <= n) /\ n + i - n = i
            /\ i \in 1..(n + k - (n + 1) + 1)
        BY <1>1
      <3>2. p[n + i] = t[n + i - n]
        BY <1>3, <3>1
      <3> QED
        BY <2>2, <3>1, <3>2
    <2> QED
      BY <1>1, <2>2, <2>3, <2>4, SeqEqual
  <1> QED
    BY <1>1, <1>2, <1>3, <1>4, <1>5 DEF Under

\* What was in one directory is in the other, and comes back.
LEMMA MovedBack ==
  ASSUME NEW p \in Path, NEW from \in Path, NEW to \in Path, Under(p, from)
  PROVE  /\ Under(Moved(p, from, to), to)
         /\ Moved(Moved(p, from, to), to, from) = p
  <1>1. PICK t : t = SubSeq(p, Len(from) + 1, Len(p))
    OBVIOUS
  <1>2. Len(from) <= Len(p) /\ SubSeq(p, 1, Len(from)) = from /\ Len(p) - Len(from) > 0
    BY DEF Under, Path
  <1>3. t \in Path /\ Len(t) > 0 /\ p = from \o t
    BY <1>1, <1>2, PathParts
  <1>4. Moved(p, from, to) = to \o t
    BY <1>1 DEF Moved
  <1>5. Under(to \o t, to) /\ SubSeq(to \o t, Len(to) + 1, Len(to \o t)) = t
    BY <1>3, UnderIts
  <1> QED
    BY <1>3, <1>4, <1>5 DEF Moved

\* A file moves with its directory.
LEMMA MovedFile ==
  ASSUME NEW d \in Path, NEW f \in Path, Len(f) > 0, NEW from \in Path, NEW to \in Path,
         IsPrefix(from, d)
  PROVE  /\ Under(d \o f, from)
         /\ Moved(d, from, to) \in Path
         /\ Moved(d \o f, from, to) = Moved(d, from, to) \o f
  <1>1. Len(from) <= Len(d) /\ SubSeq(d, 1, Len(from)) = SubSeq(from, 1, Len(from))
    BY DEF IsPrefix
  <1>2. SubSeq(from, 1, Len(from)) = from
    <2>1. PICK n \in Nat : n = Len(from)
      BY DEF Path
    <2>2. \A i \in 1..n : from[i] \in Name
      BY <2>1 DEF Path
    <2>3. /\ SubSeq(from, 1, n) \in Seq(Name) /\ Len(SubSeq(from, 1, n)) = IF 1 <= n THEN n - 1 + 1 ELSE 0
          /\ \A i \in 1..(n - 1 + 1) : SubSeq(from, 1, n)[i] = from[1 + i - 1]
      BY <2>1, <2>2, SubSeqProperties
    <2>4. Len(SubSeq(from, 1, n)) = n /\ \A i \in 1..n : SubSeq(from, 1, n)[i] = from[i]
      BY <2>1, <2>3
    <2> QED
      BY <2>1, <2>3, <2>4, SeqEqual DEF Path
  <1>3. PICK t : t = SubSeq(d, Len(from) + 1, Len(d))
    OBVIOUS
  <1>4. t \in Path /\ d = from \o t
    BY <1>1, <1>2, <1>3, PathParts
  <1>5. PICK u : u = t \o f
    OBVIOUS
  <1>6. u \in Path /\ Len(u) > 0
    BY <1>4, <1>5, ConcatProperties DEF Path
  <1>7. d \o f = from \o u
    BY <1>4, <1>5, ConcatAssociative DEF Path
  <1>8. Under(d \o f, from) /\ SubSeq(d \o f, Len(from) + 1, Len(d \o f)) = u
    BY <1>6, <1>7, UnderIts
  <1>9. Moved(d, from, to) = to \o t
    BY <1>3 DEF Moved
  <1>10. to \o t \in Path
    BY <1>4, ConcatProperties DEF Path
  <1>11. (to \o t) \o f = to \o u
    BY <1>4, <1>5, ConcatAssociative DEF Path
  <1> QED
    BY <1>8, <1>9, <1>10, <1>11 DEF Moved

\* A document or a binary file is in a directory only with its own.
LEMMA UnderFile ==
  ASSUME NEW d \in Path, NEW f \in Path, NEW from \in Directories, Under(d \o f, from),
         f = <<JsonName>> \/ IsSidecar(f)
  PROVE  IsPrefix(from, d)
  <1> USE DEF Path
  <1>1. from \in Seq(Name)
    BY DirectoryIsPath
  <1>2. PICK n \in Nat, k \in Nat, m \in Nat : n = Len(d) /\ k = Len(f) /\ m = Len(from)
    BY <1>1
  <1>3. PICK p \in Seq(Name) : p = d \o f
    BY ConcatProperties
  <1>4. Len(p) = n + k /\ \A i \in 1..(n + k) : p[i] = IF i <= n THEN d[i] ELSE f[i - n]
    BY <1>2, <1>3, ConcatProperties
  <1>5. n + k > m /\ SubSeq(p, 1, m) = from
    BY <1>2, <1>3, <1>4 DEF Under
  <1>6. \A i \in 1..m : from[i] = p[i]
    <2>1. \A i \in 1..m : p[i] \in Name
      BY <1>2, <1>4, <1>5
    <2>2. \A i \in 1..(m - 1 + 1) : SubSeq(p, 1, m)[i] = p[1 + i - 1]
      BY <1>2, <2>1, SubSeqProperties
    <2> QED
      BY <1>2, <1>5, <2>2
  <1>7. m <= n
    <2>1. CASE f = <<JsonName>>
      BY <1>2, <1>5, <2>1
    <2>2. CASE IsSidecar(f)
      <3>1. k = 2 /\ \E kind \in Kinds : f[1] = SidecarDirectory(kind)
        BY <1>2, <2>2 DEF IsSidecar
      <3>2. SUFFICES ASSUME m = n + 1
                     PROVE  FALSE
        BY <1>2, <1>5, <3>1
      <3>3. n + 1 \in 1..m /\ n + 1 \in 1..(n + k) /\ ~ (n + 1 <= n) /\ n + 1 - n = 1
        BY <3>1, <3>2
      <3>4. from[n + 1] = p[n + 1] /\ p[n + 1] = f[n + 1 - n]
        BY <1>4, <1>6, <3>3
      <3>5. n + 1 \in DOMAIN from
        BY <1>1, <1>2, <3>3
      <3> QED
        BY <3>1, <3>3, <3>4, <3>5, DirectoriesAssumption
    <2> QED
      BY <2>1, <2>2
  <1>8. \A i \in 1..m : from[i] = d[i]
    <2> TAKE i \in 1..m
    <2>1. i \in 1..(n + k) /\ i <= n
      BY <1>2, <1>7
    <2> QED
      BY <1>4, <1>6, <2>1
  <1>9. SubSeq(from, 1, m) = SubSeq(d, 1, m)
    <2>1. (\A i \in 1..m : from[i] \in Name) /\ (\A i \in 1..m : d[i] \in Name)
      BY <1>1, <1>2, <1>7
    <2>2. /\ SubSeq(from, 1, m) \in Seq(Name) /\ Len(SubSeq(from, 1, m)) = IF 1 <= m THEN m - 1 + 1 ELSE 0
          /\ \A i \in 1..(m - 1 + 1) : SubSeq(from, 1, m)[i] = from[1 + i - 1]
      BY <1>2, <2>1, SubSeqProperties
    <2>3. /\ SubSeq(d, 1, m) \in Seq(Name) /\ Len(SubSeq(d, 1, m)) = IF 1 <= m THEN m - 1 + 1 ELSE 0
          /\ \A i \in 1..(m - 1 + 1) : SubSeq(d, 1, m)[i] = d[1 + i - 1]
      BY <1>2, <2>1, SubSeqProperties
    <2>4. /\ Len(SubSeq(from, 1, m)) = m /\ Len(SubSeq(d, 1, m)) = m
          /\ \A i \in 1..m : SubSeq(from, 1, m)[i] = SubSeq(d, 1, m)[i]
      BY <1>2, <1>8, <2>2, <2>3
    <2> QED
      BY <2>2, <2>3, <2>4, SeqEqual
  <1> QED
    BY <1>2, <1>7, <1>9 DEF IsPrefix

\* Where the directory d is afterwards
Renaming(d, from, to) == IF IsPrefix(from, d) THEN Moved(d, from, to) ELSE d

LEMMA RenamedDirectory ==
  ASSUME NEW from \in Directories \ {Cwd}, NEW to \in Directories \ {Cwd}, ~ IsPrefix(from, to),
         NEW d \in Directories
  PROVE  /\ Renaming(d, from, to) \in Directories
         /\ d # Cwd => Renaming(d, from, to) # Cwd
  <1>1. CASE ~ IsPrefix(from, d)
    BY <1>1 DEF Renaming
  <1>2. CASE IsPrefix(from, d)
    <2>1. Renaming(d, from, to) = Moved(d, from, to) /\ Moved(d, from, to) \in Directories
      BY <1>2, DirectoriesAssumption DEF Renaming
    <2>2. ~ IsPrefix(to, Cwd)
      BY DirectoriesAssumption
    <2>3. ASSUME Moved(d, from, to) = Cwd
          PROVE  IsPrefix(to, Cwd)
      <3> USE DEF Path
      <3>1. to \in Seq(Name) /\ d \in Seq(Name) /\ from \in Seq(Name) /\ Cwd \in Seq(Name)
        <4>1. to \in Path /\ d \in Path /\ from \in Path
          BY DirectoryIsPath
        <4>2. Cwd \in Seq(Name)
          BY PlansAssumption, Zenon DEF Name
        <4> QED
          BY <4>1, <4>2
      <3>2. PICK n \in Nat, k \in Nat, m \in Nat : n = Len(to) /\ k = Len(Cwd) /\ m = Len(from)
        BY <3>1
      <3>3. Len(from) <= Len(d) /\ SubSeq(d, 1, Len(from)) = SubSeq(from, 1, Len(from))
        BY <1>2 DEF IsPrefix
      <3>4. PICK t : t = SubSeq(d, Len(from) + 1, Len(d))
        OBVIOUS
      <3>5. t \in Seq(Name)
        <4>1. \A i \in (m + 1)..Len(d) : d[i] \in Name
          BY <3>1, <3>2
        <4> QED
          BY <3>1, <3>2, <3>4, <4>1, SubSeqProperties
      <3>6. Cwd = to \o t
        BY <2>3, <3>4 DEF Moved
      <3>7. /\ k = n + Len(t) /\ Len(t) \in Nat
            /\ \A i \in 1..(n + Len(t)) : Cwd[i] = IF i <= n THEN to[i] ELSE t[i - n]
        BY <3>1, <3>2, <3>5, <3>6, ConcatProperties
      <3>8. n <= k /\ \A i \in 1..n : to[i] = Cwd[i]
        BY <3>2, <3>7
      <3>9. (\A i \in 1..n : to[i] \in Name) /\ (\A i \in 1..n : Cwd[i] \in Name)
        BY <3>1, <3>2, <3>8
      <3>10. /\ SubSeq(to, 1, n) \in Seq(Name) /\ Len(SubSeq(to, 1, n)) = IF 1 <= n THEN n - 1 + 1 ELSE 0
             /\ \A i \in 1..(n - 1 + 1) : SubSeq(to, 1, n)[i] = to[1 + i - 1]
        BY <3>2, <3>9, SubSeqProperties
      <3>11. /\ SubSeq(Cwd, 1, n) \in Seq(Name) /\ Len(SubSeq(Cwd, 1, n)) = IF 1 <= n THEN n - 1 + 1 ELSE 0
             /\ \A i \in 1..(n - 1 + 1) : SubSeq(Cwd, 1, n)[i] = Cwd[1 + i - 1]
        BY <3>2, <3>9, SubSeqProperties
      <3>12. /\ Len(SubSeq(to, 1, n)) = n /\ Len(SubSeq(Cwd, 1, n)) = n
             /\ \A i \in 1..n : SubSeq(to, 1, n)[i] = SubSeq(Cwd, 1, n)[i]
        BY <3>2, <3>8, <3>10, <3>11
      <3>13. SubSeq(to, 1, n) = SubSeq(Cwd, 1, n)
        BY <3>10, <3>11, <3>12, SeqEqual
      <3> QED
        BY <3>2, <3>8, <3>13 DEF IsPrefix
    <2> QED
      BY <2>1, <2>2, <2>3
  <1> QED
    BY <1>1, <1>2

\* A file of the directory d is, under the name it has there, in the one that d
\* has become.
LEMMA RenamedFile ==
  ASSUME NEW from \in Directories, NEW to \in Directories, NEW d \in Directories,
         NEW f \in Path, f = <<JsonName>> \/ IsSidecar(f)
  PROVE  /\ Under(d \o f, from) <=> IsPrefix(from, d)
         /\ Under(d \o f, from) => Moved(d \o f, from, to) = Renaming(d, from, to) \o f
         /\ ~ Under(d \o f, from) => d = Renaming(d, from, to)
  <1>1. d \in Path /\ from \in Path /\ to \in Path
    BY DirectoryIsPath
  <1>2. Len(f) > 0
    <2>1. Len(<<JsonName>>) = 1
      OBVIOUS
    <2> QED
      BY <2>1 DEF IsSidecar
  <1>3. Under(d \o f, from) => IsPrefix(from, d)
    BY <1>1, UnderFile
  <1>4. IsPrefix(from, d) => Under(d \o f, from) /\ Moved(d \o f, from, to) = Moved(d, from, to) \o f
    BY <1>1, <1>2, MovedFile
  <1> QED
    BY <1>3, <1>4 DEF Renaming

\* mv, as MoveDirectory does it
MovesFrom(files, new, from, to) ==
  LET Old(p) == IF Under(p, to) THEN Moved(p, to, from) ELSE p
      New(p) == IF Under(p, from) THEN Moved(p, from, to) ELSE p
  IN new = [p \in {New(q) : q \in DOMAIN files} |-> files[Old(p)]]

\* Every file is afterwards where the directory is that it was in.
LEMMA FilesMoved ==
  ASSUME NEW files, NEW new, NEW gone \in BOOLEAN, Filed(files, gone),
         NEW from \in Directories \ {Cwd}, NEW to \in Directories \ {Cwd}, ~ IsPrefix(from, to),
         \A p \in DOMAIN files : ~ Under(p, to),
         MovesFrom(files, new, from, to)
  PROVE  Filed(new, gone)
  <1> DEFINE Old(p) == IF Under(p, to) THEN Moved(p, to, from) ELSE p
             New(p) == IF Under(p, from) THEN Moved(p, from, to) ELSE p
  <1>1. from \in Path /\ to \in Path
    BY DirectoryIsPath
  <1>2. DOMAIN new = {New(q) : q \in DOMAIN files} /\ \A p \in DOMAIN new : new[p] = files[Old(p)]
    BY DEF MovesFrom
  <1>3. ASSUME NEW q \in DOMAIN files
        PROVE  \/ \E d \in Directories : q = d \o <<JsonName>> /\ q = Json(d) /\ IsResult(files, gone, d, files[q])
               \/ \E d \in Directories, f \in SidecarNames : q = d \o f /\ IsBinary(files[q])
    <2>1. CASE \E d \in Directories : q = Json(d) /\ IsResult(files, gone, d, files[q])
      BY <2>1, DirectoryIsPath, JsonPath
    <2>2. CASE \E d \in Directories, f \in SidecarNames : q = d \o f /\ IsBinary(files[q])
      BY <2>2
    <2> QED
      BY <2>1, <2>2 DEF Filed
  <1>4. ASSUME NEW q \in DOMAIN files
        PROVE  q \in Path
    <2>1. CASE \E d \in Directories : q = Json(d)
      BY <2>1, DirectoryIsPath, JsonPath
    <2>2. CASE \E d \in Directories, f \in SidecarNames : q = d \o f
      <3>1. PICK d \in Directories, f \in SidecarNames : q = d \o f
        BY <2>2
      <3>2. d \in Path /\ f \in Path
        BY DirectoryIsPath, SidecarNamesAre DEF IsSidecar
      <3> QED
        BY <3>1, <3>2, ConcatProperties DEF Path
    <2> QED
      BY <1>3, <2>1, <2>2
  <1>5. ASSUME NEW q \in DOMAIN files
        PROVE  New(q) \in DOMAIN new /\ new[New(q)] = files[q]
    <2>1. New(q) \in DOMAIN new /\ new[New(q)] = files[Old(New(q))]
      BY <1>2
    <2>2. CASE Under(q, from)
      <3>1. Under(Moved(q, from, to), to) /\ Moved(Moved(q, from, to), to, from) = q
        BY <1>1, <1>4, <2>2, MovedBack
      <3> QED
        BY <2>1, <2>2, <3>1
    <2>3. CASE ~ Under(q, from)
      BY <2>1, <2>3
    <2> QED
      BY <2>2, <2>3
  <1>6. ASSUME NEW d \in Directories, NEW f \in Path, f = <<JsonName>> \/ IsSidecar(f)
        PROVE  New(d \o f) = Renaming(d, from, to) \o f
    <2>1. /\ Under(d \o f, from) => Moved(d \o f, from, to) = Renaming(d, from, to) \o f
          /\ ~ Under(d \o f, from) => d = Renaming(d, from, to)
      BY <1>6, RenamedFile
    <2> QED
      BY <2>1
  <1>7. ASSUME NEW d \in Directories, Json(d) \in DOMAIN files, NEW f \in SidecarNames
        PROVE  Follows(files, new, gone, d, Renaming(d, from, to), f)
    <2>1. f \in Path /\ IsSidecar(f) /\ Len(f) > 0 /\ d \in Path
      BY DirectoryIsPath, SidecarNamesAre DEF IsSidecar
    <2>2. PICK e : e = Renaming(d, from, to)
      OBVIOUS
    <2>3. New(d \o f) = e \o f
      BY <1>6, <2>1, <2>2
    <2>4. ASSUME d \o f \in DOMAIN files
          PROVE  e \o f \in DOMAIN new
      BY <1>5, <2>3, <2>4
    <2>5. ASSUME e \o f \in DOMAIN new
          PROVE  d \o f \in DOMAIN files /\ new[e \o f] = files[d \o f]
      <3>1. PICK q \in DOMAIN files : New(q) = e \o f
        BY <1>2, <2>5
      <3>2. SUFFICES q = d \o f
        BY <1>5, <3>1
      <3>3. CASE Under(q, from)
        <4>1. Under(e \o f, to) /\ Moved(e \o f, to, from) = q
          <5>1. Moved(q, from, to) = e \o f
            BY <3>1, <3>3
          <5>2. Under(Moved(q, from, to), to) /\ Moved(Moved(q, from, to), to, from) = q
            BY <1>1, <1>4, <3>3, MovedBack
          <5> QED
            BY <5>1, <5>2
        <4>2. Under(d \o f, from)
          <5>1. SUFFICES ASSUME ~ Under(d \o f, from)
                         PROVE  FALSE
            OBVIOUS
          <5>2. d = e
            BY <2>1, <2>2, <5>1, RenamedFile
          <5>3. IsPrefix(to, d)
            BY <2>1, <4>1, <5>2, UnderFile
          <5>4. Under(Json(d), to)
            <6>1. <<JsonName>> \in Path /\ Json(d) = d \o <<JsonName>>
              BY <2>1, JsonPath
            <6>2. Under(d \o <<JsonName>>, to) <=> IsPrefix(to, d)
              BY <6>1, RenamedFile
            <6> QED
              BY <5>3, <6>1, <6>2
          <5> QED
            BY <1>7, <5>4
        <4>3. d \o f \in Path
          BY <2>1, ConcatProperties DEF Path
        <4>4. Moved(d \o f, from, to) = e \o f
          BY <2>3, <4>2
        <4>5. Moved(Moved(d \o f, from, to), to, from) = d \o f
          BY <1>1, <4>2, <4>3, MovedBack
        <4> QED
          BY <4>1, <4>4, <4>5
      <3>4. CASE ~ Under(q, from)
        <4>1. q = e \o f
          BY <3>1, <3>4
        <4>2. CASE Under(d \o f, from)
          <5>1. d \o f \in Path
            BY <2>1, ConcatProperties DEF Path
          <5>2. Under(Moved(d \o f, from, to), to)
            BY <1>1, <4>2, <5>1, MovedBack
          <5>3. Under(q, to)
            BY <2>3, <4>1, <4>2, <5>2
          <5> QED
            BY <5>3
        <4>3. CASE ~ Under(d \o f, from)
          BY <2>3, <4>1, <4>3
        <4> QED
          BY <4>2, <4>3
      <3> QED
        BY <3>3, <3>4
    <2> QED
      BY <2>2, <2>4, <2>5 DEF Follows
  <1>8. ASSUME NEW p \in DOMAIN new
        PROVE  \/ \E d \in Directories : p = Json(d) /\ IsResult(new, gone, d, new[p])
               \/ \E d \in Directories, f \in SidecarNames : p = d \o f /\ IsBinary(new[p])
    <2>1. PICK q \in DOMAIN files : p = New(q) /\ new[p] = files[q]
      <3>1. PICK q \in DOMAIN files : p = New(q)
        BY <1>2
      <3> QED
        BY <1>5, <3>1
    <2>2. CASE \E d \in Directories : q = d \o <<JsonName>> /\ q = Json(d) /\ IsResult(files, gone, d, files[q])
      <3>1. PICK d \in Directories : q = d \o <<JsonName>> /\ q = Json(d) /\ IsResult(files, gone, d, files[q])
        BY <2>2
      <3>2. PICK e : e = Renaming(d, from, to)
        OBVIOUS
      <3>3. e \in Directories /\ d # Cwd => e # Cwd
        BY <3>2, RenamedDirectory
      <3>4. e \in Directories
        BY <3>2, RenamedDirectory
      <3>5. \A f \in SidecarNames : Follows(files, new, gone, d, e, f)
        BY <1>7, <3>1, <3>2
      <3>6. IsResult(new, gone, e, files[q])
        BY <3>1, <3>3, <3>4, <3>5, ResultKept
      <3>7. <<JsonName>> \in Path /\ Json(e) = e \o <<JsonName>>
        BY <3>4, DirectoryIsPath, JsonPath
      <3>8. p = Json(e)
        BY <1>6, <2>1, <3>1, <3>2, <3>7
      <3> QED
        BY <2>1, <3>4, <3>6, <3>8
    <2>3. CASE \E d \in Directories, f \in SidecarNames : q = d \o f /\ IsBinary(files[q])
      <3>1. PICK d \in Directories, f \in SidecarNames : q = d \o f /\ IsBinary(files[q])
        BY <2>3
      <3>2. f \in Path /\ IsSidecar(f)
        BY SidecarNamesAre DEF IsSidecar
      <3>3. p = Renaming(d, from, to) \o f
        BY <1>6, <2>1, <3>1, <3>2
      <3>4. Renaming(d, from, to) \in Directories
        BY RenamedDirectory
      <3> QED
        BY <2>1, <3>1, <3>3, <3>4
    <2> QED
      BY <1>3, <2>2, <2>3
  <1> QED
    BY <1>8 DEF Filed

-----------------------------------------------------------------------------
(* Programs and the user keep the disk as it should be *)

LEMMA FileIsBinary ==
  ASSUME NEW r \in Nat, NEW s \in Nat, NEW kind \in Kinds, NEW size \in Nat
  PROVE  IsBinary(Binary(r, s, kind, size))
  BY DEF IsBinary, Binary

\* The file that is written next, beside those that were
LEMMA CurrentOne ==
  ASSUME Programming, phase # "idle", ~ AllPrinted
  PROVE  /\ Len(written) + 1 \in DOMAIN Files
         /\ plan.dir \in Directories
         /\ FileName(Files, Len(written) + 1) \in SidecarNames
         /\ CurrentPath = plan.dir \o FileName(Files, Len(written) + 1)
         /\ CurrentPath = SidecarAt(plan.dir, plan, Len(written) + 1)
         /\ CurrentPath # Json(plan.dir)
         /\ \A i \in DOMAIN written : SidecarAt(plan.dir, plan, i) # CurrentPath
         /\ WholeSize(plan, Current.state) \in Nat
         /\ \A size \in Nat : IsBinary(CurrentFile(size))
  <1>1. /\ run \in Nat /\ plan \in Plans /\ written \in Seq(BOOLEAN) /\ Len(written) <= Len(Files)
    BY DEF Programming
  <1>2. Files \in Seq([state : DOMAIN plan.states, kind : Kinds]) /\ Files = Sidecars(plan.states)
    BY <1>1, SidecarsListed DEF Files
  <1>3. PICK n \in Nat, k \in Nat : n = Len(written) /\ k = Len(Files)
    BY <1>1, <1>2
  <1>4. n + 1 \in 1..k
    BY <1>1, <1>3 DEF AllPrinted
  <1>5. DOMAIN Files = 1..k /\ DOMAIN written = 1..n
    BY <1>1, <1>2, <1>3
  <1>6. PICK c \in DOMAIN Files : c = Len(written) + 1
    BY <1>3, <1>4, <1>5
  <1>7. FileName(Files, c) \in SidecarNames
    BY <1>1, <1>2, <1>6, NameOfOne
  <1>8. /\ CurrentPath = plan.dir \o FileName(Files, c)
        /\ CurrentPath = SidecarAt(plan.dir, plan, c)
    BY <1>2, <1>6 DEF CurrentPath, write_path, SidecarAt
  <1>9. plan.dir \in Directories /\ plan.states \in Seq(StateTypes)
    BY <1>1, PlanParts
  <1>10. CurrentPath # Json(plan.dir)
    BY <1>7, <1>8, <1>9, DirectoryIsPath, SidecarNamesAre, JsonIsNoSidecar
  <1>11. ASSUME NEW i \in DOMAIN written
         PROVE  SidecarAt(plan.dir, plan, i) # CurrentPath
    <2>1. i \in DOMAIN Files /\ i # c
      <3>1. i \in 1..k /\ i # n + 1
        BY <1>4, <1>5
      <3> QED
        BY <1>3, <1>5, <1>6, <3>1
    <2>2. FileName(Files, i) # FileName(Files, c)
      BY <1>1, <1>2, <2>1, NamesDiffer
    <2>3. FileName(Files, i) \in SidecarNames
      BY <1>1, <1>2, <2>1, NameOfOne
    <2>4. plan.dir \o FileName(Files, i) # plan.dir \o FileName(Files, c)
      BY <1>7, <1>9, <2>2, <2>3, DirectoryIsPath, SidecarNamesAre, SidecarOfOne
    <2> QED
      BY <1>2, <1>8, <2>4 DEF SidecarAt
  <1>12. /\ Current.kind \in Kinds /\ Current.state \in DOMAIN plan.states
         /\ Current.state \in Nat /\ plan.states[Current.state].count \in Nat
    <2>1. Current.kind \in Kinds /\ Current.state \in DOMAIN plan.states
      BY <1>1, <1>2, <1>6, SidecarParts DEF Current
    <2>2. PICK s \in DOMAIN plan.states : s = Current.state
      BY <2>1
    <2>3. s \in Nat /\ plan.states[s] \in StateTypes
      BY <1>9
    <2>4. plan.states[s].count \in Nat
      BY <2>3 DEF StateTypes
    <2> QED
      BY <2>1, <2>2, <2>3, <2>4
  <1>13. WholeSize(plan, Current.state) \in Nat
    BY <1>12 DEF WholeSize, float32
  <1>14. \A size \in Nat : IsBinary(CurrentFile(size))
    BY <1>1, <1>12, FileIsBinary DEF CurrentFile
  <1> QED
    BY <1>6, <1>7, <1>8, <1>9, <1>10, <1>11, <1>13, <1>14

LEMMA SidecarChanged ==
  ASSUME OnDisk, phase # "idle", ~ AllPrinted, discards' = discards,
         \/ \E size \in Nat : disk' = Write(CurrentPath, CurrentFile(size))
         \/ disk' = [p \in DOMAIN disk \ {CurrentPath} |-> disk[p]]
  PROVE  /\ Filed(disk', discards' # 0) /\ discards' \in Nat
         /\ Json(plan.dir) \in DOMAIN disk' /\ disk'[Json(plan.dir)] = NotJson
         /\ \A i \in DOMAIN written : written[i] =>
              /\ SidecarAt(plan.dir, plan, i) \in DOMAIN disk'
              /\ disk'[SidecarAt(plan.dir, plan, i)] = WholeFile(run, plan, i)
  <1>1. PICK gone \in BOOLEAN : gone = (discards # 0)
    OBVIOUS
  <1>2. Filed(disk, gone) /\ discards \in Nat /\ Programming
    BY <1>1 DEF OnDisk
  <1>3. PICK new : new = disk'
    OBVIOUS
  <1>4. PICK d \in Directories, f \in SidecarNames : d = plan.dir /\ CurrentPath = d \o f
    BY <1>2, CurrentOne
  <1>5. \A size \in Nat : IsBinary(CurrentFile(size))
    BY <1>2, CurrentOne
  <1>6. /\ \A p : p # d \o f => (p \in DOMAIN new <=> p \in DOMAIN disk)
        /\ \A p \in DOMAIN new : p # d \o f => new[p] = disk[p]
        /\ d \o f \in DOMAIN new => IsBinary(new[d \o f])
    <2>1. ASSUME NEW size \in Nat, disk' = Write(CurrentPath, CurrentFile(size))
          PROVE  /\ \A p : p # d \o f => (p \in DOMAIN new <=> p \in DOMAIN disk)
                 /\ \A p \in DOMAIN new : p # d \o f => new[p] = disk[p]
                 /\ d \o f \in DOMAIN new => IsBinary(new[d \o f])
      BY <1>3, <1>4, <1>5, <2>1 DEF Write
    <2>2. CASE disk' = [p \in DOMAIN disk \ {CurrentPath} |-> disk[p]]
      BY <1>3, <1>4, <2>2
    <2> QED
      BY <2>1, <2>2
  <1>7. Json(d) \in DOMAIN disk /\ disk[Json(d)] = NotJson
    BY <1>2, <1>4 DEF Programming
  <1>8. Filed(new, gone)
    BY <1>2, <1>6, <1>7, ChangeSidecar
  <1>9. Json(d) \in DOMAIN new /\ new[Json(d)] = NotJson
    <2>1. Json(d) # d \o f
      BY <1>2, <1>4, CurrentOne
    <2> QED
      BY <1>6, <1>7, <2>1
  <1>10. ASSUME NEW i \in DOMAIN written, written[i]
         PROVE  /\ SidecarAt(plan.dir, plan, i) \in DOMAIN new
                /\ new[SidecarAt(plan.dir, plan, i)] = WholeFile(run, plan, i)
    <2>1. SidecarAt(plan.dir, plan, i) # d \o f
      BY <1>2, <1>4, CurrentOne
    <2>2. /\ SidecarAt(plan.dir, plan, i) \in DOMAIN disk
          /\ disk[SidecarAt(plan.dir, plan, i)] = WholeFile(run, plan, i)
      BY <1>2, <1>10 DEF Programming
    <2> QED
      BY <1>6, <2>1, <2>2
  <1>11. Filed(disk', discards' # 0)
    <2>1. gone = (discards' # 0)
      BY <1>1
    <2> QED
      BY <1>3, <1>8, <2>1
  <1> QED
    BY <1>2, <1>3, <1>4, <1>9, <1>10, <1>11

LEMMA OpenKeeps ==
  ASSUME OnDisk, OpenOutput, discards' = discards
  PROVE  OnDisk'
  <1>1. PICK gone \in BOOLEAN : gone = (discards # 0)
    OBVIOUS
  <1>2. Filed(disk, gone) /\ discards \in Nat /\ Programming
    BY <1>1 DEF OnDisk
  <1>3. /\ phase' = "measure" /\ run' = run + 1 /\ plan' \in Plans /\ written' = <<>>
        /\ disk' = Write(Json(plan'.dir), NotJson)
    BY DEF OpenOutput, StartProgram
  <1>4. PICK d \in Directories : d = plan'.dir
    BY <1>3, PlanParts
  <1>5. disk' = [p \in DOMAIN disk \cup {Json(d)} |-> IF p = Json(d) THEN NotJson ELSE disk[p]]
    BY <1>3, <1>4 DEF Write
  <1>6. PICK new : new = disk'
    OBVIOUS
  <1>7. Filed(new, gone)
    <2>1. IsResult(disk, gone, d, NotJson)
      BY DEF IsResult
    <2> QED
      BY <1>2, <1>5, <1>6, <2>1, WriteDocument
  <1>8. Programming'
    <2>1. run \in Nat
      BY <1>2 DEF Programming
    <2>2. PICK p \in Plans : p = plan'
      BY <1>3
    <2>3. Sidecars(p.states) \in Seq([state : DOMAIN p.states, kind : Kinds])
      BY SidecarsListed
    <2>4. Len(Sidecars(p.states)) \in Nat
      BY <2>3
    <2>5. Files' = Sidecars(p.states)
      BY <2>2 DEF Files
    <2>6. written' \in Seq(BOOLEAN) /\ Len(written') <= Len(Files') /\ DOMAIN written' = {}
      BY <1>3, <2>4, <2>5
    <2>7. Json(plan'.dir) \in DOMAIN disk' /\ disk'[Json(plan'.dir)] = NotJson
      BY <1>4, <1>5
    <2> QED
      BY <1>3, <2>1, <2>6, <2>7 DEF Programming
  <1>9. gone = (discards' # 0) /\ discards' \in Nat
    BY <1>1, <1>2
  <1> QED
    BY <1>6, <1>7, <1>8, <1>9 DEF OnDisk

LEMMA OpenSidecarKeeps ==
  ASSUME OnDisk, OpenSidecar, discards' = discards
  PROVE  OnDisk'
  <1>1. /\ phase = "measure" /\ ~ AllPrinted /\ phase' = "writing"
        /\ disk' = Write(CurrentPath, CurrentFile(0)) /\ UNCHANGED <<run, plan, written>>
    BY DEF OpenSidecar
  <1>2. /\ Filed(disk', discards' # 0) /\ discards' \in Nat
        /\ Json(plan.dir) \in DOMAIN disk' /\ disk'[Json(plan.dir)] = NotJson
        /\ \A i \in DOMAIN written : written[i] =>
             /\ SidecarAt(plan.dir, plan, i) \in DOMAIN disk'
             /\ disk'[SidecarAt(plan.dir, plan, i)] = WholeFile(run, plan, i)
    BY <1>1, SidecarChanged
  <1>3. /\ run \in Nat /\ plan \in Plans /\ written \in Seq(BOOLEAN) /\ Len(written) <= Len(Files)
    BY <1>1 DEF OnDisk, Programming
  <1>4. Len(written) < Len(Files)
    <2>1. Files \in Seq([state : DOMAIN plan.states, kind : Kinds])
      BY <1>3, SidecarsListed DEF Files
    <2> QED
      BY <1>1, <1>3, <2>1 DEF AllPrinted
  <1>5. Files' = Files
    BY <1>1 DEF Files
  <1> QED
    BY <1>1, <1>2, <1>3, <1>4, <1>5 DEF OnDisk, Programming

\* A file that was written or failed has its place, and its verdict.
LEMMA SidecarDone ==
  ASSUME OnDisk, phase # "idle", ~ AllPrinted, discards' = discards, UNCHANGED <<run, plan>>,
         phase' = "measure", NEW ok \in BOOLEAN, written' = Append(written, ok),
         ok => disk' = Write(CurrentPath, CurrentFile(WholeSize(plan, Current.state))),
         ~ ok => disk' = [p \in DOMAIN disk \ {CurrentPath} |-> disk[p]]
  PROVE  OnDisk'
  <1>1. Programming
    BY DEF OnDisk
  <1>2. WholeSize(plan, Current.state) \in Nat /\ CurrentPath = SidecarAt(plan.dir, plan, Len(written) + 1)
    BY <1>1, CurrentOne
  <1>3. /\ Filed(disk', discards' # 0) /\ discards' \in Nat
        /\ Json(plan.dir) \in DOMAIN disk' /\ disk'[Json(plan.dir)] = NotJson
        /\ \A i \in DOMAIN written : written[i] =>
             /\ SidecarAt(plan.dir, plan, i) \in DOMAIN disk'
             /\ disk'[SidecarAt(plan.dir, plan, i)] = WholeFile(run, plan, i)
    BY <1>2, SidecarChanged
  <1>4. /\ run \in Nat /\ plan \in Plans /\ written \in Seq(BOOLEAN) /\ Len(written) <= Len(Files)
    BY <1>1 DEF Programming
  <1>5. PICK n \in Nat, k \in Nat : n = Len(written) /\ k = Len(Files) /\ n + 1 <= k
    <2>1. Files \in Seq([state : DOMAIN plan.states, kind : Kinds])
      BY <1>4, SidecarsListed DEF Files
    <2> QED
      BY <1>4, <2>1 DEF AllPrinted
  <1>6. Files' = Files
    BY DEF Files
  <1>7. /\ written' \in Seq(BOOLEAN) /\ Len(written') = n + 1 /\ DOMAIN written' = 1..(n + 1)
        /\ \A i \in 1..n : i \in DOMAIN written /\ written'[i] = written[i]
        /\ written'[n + 1] = ok
    BY <1>4, <1>5
  <1>8. ASSUME NEW i \in DOMAIN written', written'[i]
        PROVE  /\ SidecarAt(plan.dir, plan, i) \in DOMAIN disk'
               /\ disk'[SidecarAt(plan.dir, plan, i)] = WholeFile(run, plan, i)
    <2>1. CASE i \in 1..n
      <3>1. i \in DOMAIN written /\ written[i]
        BY <1>7, <1>8, <2>1
      <3> QED
        BY <1>3, <3>1
    <2>2. CASE i \notin 1..n
      <3>1. i = n + 1
        BY <1>5, <1>7, <2>2
      <3>2. ok
        BY <1>7, <1>8, <3>1
      <3>3. CurrentPath = SidecarAt(plan.dir, plan, i)
        BY <1>2, <1>5, <3>1
      <3>4. CurrentPath \in DOMAIN disk' /\ disk'[CurrentPath] = CurrentFile(WholeSize(plan, Current.state))
        BY <3>2 DEF Write
      <3>5. CurrentFile(WholeSize(plan, Current.state)) = WholeFile(run, plan, i)
        BY <1>5, <3>1 DEF CurrentFile, WholeFile, Current, Files
      <3> QED
        BY <3>3, <3>4, <3>5
    <2> QED
      BY <2>1, <2>2
  <1>9. Programming'
    <2>1. Len(written') <= Len(Files')
      BY <1>5, <1>6, <1>7
    <2> QED
      BY <1>3, <1>4, <1>7, <1>8, <2>1 DEF Programming
  <1> QED
    BY <1>3, <1>9 DEF OnDisk

LEMMA PrintKeeps ==
  ASSUME OnDisk, PrintResults, discards' = discards
  PROVE  OnDisk'
  <1>1. PICK gone \in BOOLEAN : gone = (discards # 0)
    OBVIOUS
  <1>2. Filed(disk, gone) /\ discards \in Nat /\ Programming
    BY <1>1 DEF OnDisk
  <1>3. PICK doc : doc = ResultDocument(run, plan, written)
    OBVIOUS
  <1>4. /\ phase = "measure" /\ AllPrinted /\ phase' = "idle"
        /\ disk' = Write(Json(plan.dir), Document(doc)) /\ UNCHANGED <<run, plan, written>>
    BY <1>3 DEF PrintResults
  <1>5. /\ run \in Nat /\ plan \in Plans /\ written \in Seq(BOOLEAN)
        /\ \A i \in DOMAIN written : written[i] =>
             /\ SidecarAt(plan.dir, plan, i) \in DOMAIN disk
             /\ disk[SidecarAt(plan.dir, plan, i)] = WholeFile(run, plan, i)
    BY <1>2, <1>4 DEF Programming
  <1>6. doc.run = run /\ doc.plan = plan
    BY <1>3 DEF ResultDocument
  <1>7. Len(written) = Len(Sidecars(plan.states))
    BY <1>4 DEF AllPrinted, Files
  <1>8. IsDocument(doc, written)
    BY <1>3, <1>5, <1>6, <1>7 DEF IsDocument
  <1>9. written \in [DOMAIN Sidecars(doc.plan.states) -> BOOLEAN]
    <2>1. Sidecars(plan.states) \in Seq([state : DOMAIN plan.states, kind : Kinds])
      BY <1>5, SidecarsListed
    <2>2. DOMAIN Sidecars(plan.states) = 1..Len(Sidecars(plan.states))
      BY <2>1
    <2>3. written \in [1..Len(written) -> BOOLEAN]
      BY <1>5, LenProperties
    <2> QED
      BY <1>6, <1>7, <2>2, <2>3
  <1>10. PICK d \in Directories : d = plan.dir
    BY <1>5, PlanParts
  <1>11. Backed(disk, gone, d, doc)
    BY <1>5, <1>6, <1>8, <1>9, <1>10 DEF Backed
  <1>12. IsResult(disk, gone, d, Document(doc))
    <2>1. Document(doc).document = doc
      BY DEF Document
    <2> QED
      BY <1>11, <2>1 DEF IsResult
  <1>13. disk' = [p \in DOMAIN disk \cup {Json(d)} |-> IF p = Json(d) THEN Document(doc) ELSE disk[p]]
    BY <1>4, <1>10 DEF Write
  <1>14. PICK new : new = disk'
    OBVIOUS
  <1>15. Filed(new, gone)
    BY <1>2, <1>12, <1>13, <1>14, WriteDocument
  <1>16. gone = (discards' # 0) /\ discards' \in Nat
    BY <1>1, <1>2
  <1>17. Programming'
    BY <1>4, <1>5 DEF Programming
  <1> QED
    BY <1>14, <1>15, <1>16, <1>17 DEF OnDisk

LEMMA ProgramKeeps ==
  ASSUME OnDisk, RunProgram, discards' = discards
  PROVE  OnDisk'
  <1>1. CASE OpenOutput
    BY <1>1, OpenKeeps
  <1>2. CASE OpenSidecar
    BY <1>2, OpenSidecarKeeps
  <1>3. CASE FinishSidecar
    <2>1. phase = "writing" /\ ~ AllPrinted
      <3>1. phase = "writing"
        BY <1>3 DEF FinishSidecar
      <3>2. Len(written) < Len(Files)  /\ plan \in Plans /\ written \in Seq(BOOLEAN)
        BY <3>1 DEF OnDisk, Programming
      <3>3. Len(written) \in Nat /\ Len(Files) \in Nat
        <4>1. Files \in Seq([state : DOMAIN plan.states, kind : Kinds])
          BY <3>2, SidecarsListed DEF Files
        <4> QED
          BY <3>2, <4>1
      <3> QED
        BY <3>1, <3>2, <3>3 DEF AllPrinted
    <2>2. PICK ok \in BOOLEAN : ok /\ ok = TRUE
      OBVIOUS
    <2>3. /\ phase' = "measure" /\ written' = Append(written, ok) /\ UNCHANGED <<run, plan>>
          /\ disk' = Write(CurrentPath, CurrentFile(WholeSize(plan, Current.state)))
      BY <1>3, <2>2 DEF FinishSidecar
    <2> QED
      BY <2>1, <2>2, <2>3, SidecarDone
  <1>4. CASE FailSidecar
    <2>1. phase # "idle" /\ ~ AllPrinted
      BY <1>4 DEF FailSidecar
    <2>2. PICK ok \in BOOLEAN : ~ ok /\ ok = FALSE
      OBVIOUS
    <2>3. /\ phase' = "measure" /\ written' = Append(written, ok) /\ UNCHANGED <<run, plan>>
          /\ disk' = [p \in DOMAIN disk \ {CurrentPath} |-> disk[p]]
      BY <1>4, <2>2 DEF FailSidecar
    <2> QED
      BY <2>1, <2>2, <2>3, SidecarDone
  <1>5. CASE PrintResults
    BY <1>5, PrintKeeps
  <1>6. CASE Crash
    <2>1. phase # "idle" /\ phase' = "idle" /\ UNCHANGED <<run, plan, written>>
      BY <1>6 DEF Crash
    <2>2. Filed(disk', discards' # 0) /\ discards' \in Nat
      <3>1. CASE phase = "writing"
        <4>1. PICK size \in PartialSizes : disk' = Write(CurrentPath, CurrentFile(size))
          BY <1>6, <3>1 DEF Crash
        <4>2. size \in Nat
          BY PlansAssumption
        <4>3. ~ AllPrinted
          <5>1. Len(written) < Len(Files)  /\ plan \in Plans /\ written \in Seq(BOOLEAN)
            BY <3>1 DEF OnDisk, Programming
          <5>2. Files \in Seq([state : DOMAIN plan.states, kind : Kinds])
            BY <5>1, SidecarsListed DEF Files
          <5>3. Len(written) \in Nat /\ Len(Files) \in Nat
            BY <5>1, <5>2
          <5> QED
            BY <5>1, <5>3 DEF AllPrinted
        <4> QED
          BY <2>1, <4>1, <4>2, <4>3, SidecarChanged
      <3>2. CASE phase # "writing"
        BY <1>6, <3>2 DEF Crash, OnDisk
      <3> QED
        BY <3>1, <3>2
    <2>3. run \in Nat
      BY DEF OnDisk, Programming
    <2> QED
      BY <2>1, <2>2, <2>3 DEF OnDisk, Programming
  <1> QED
    BY <1>1, <1>2, <1>3, <1>4, <1>5, <1>6 DEF RunProgram

LEMMA UserKeeps ==
  ASSUME OnDisk, MoveDirectory \/ DiscardSidecar
  PROVE  OnDisk'
  <1>1. PICK gone \in BOOLEAN : gone = (discards # 0)
    OBVIOUS
  <1>2. Filed(disk, gone) /\ discards \in Nat /\ Programming
    BY <1>1 DEF OnDisk
  <1>3. phase = "idle" /\ UNCHANGED <<phase, run>>
    BY DEF MoveDirectory, DiscardSidecar, program
  <1>4. Programming'
    BY <1>2, <1>3 DEF Programming
  <1>5. PICK new : new = disk'
    OBVIOUS
  <1>6. CASE MoveDirectory
    <2>1. PICK from \in Directories \ {Cwd}, to \in Directories \ {Cwd} :
            /\ ~ IsPrefix(from, to)
            /\ \A p \in DOMAIN disk : ~ Under(p, to)
            /\ MovesFrom(disk, disk', from, to)
      BY <1>6 DEF MoveDirectory, MovesFrom
    <2>2. Filed(new, gone)
      BY <1>2, <1>5, <2>1, FilesMoved
    <2>3. discards' = discards
      BY <1>6 DEF MoveDirectory
    <2> QED
      BY <1>1, <1>2, <1>4, <1>5, <2>2, <2>3 DEF OnDisk
  <1>7. CASE DiscardSidecar
    <2>1. PICK path : disk' = [p \in DOMAIN disk \ {path} |-> disk[p]]
      BY <1>7 DEF DiscardSidecar
    <2>2. discards' = discards + 1
      BY <1>7 DEF DiscardSidecar
    <2>3. PICK later \in BOOLEAN : later = (discards' # 0)
      OBVIOUS
    <2>6. discards' # 0
      BY <1>2, <2>2
    <2>4. Filed(new, later)
      BY <1>2, <1>5, <2>1, <2>3, <2>6, RemoveFile
    <2>5. Filed(disk', discards' # 0)
      BY <1>5, <2>3, <2>4
    <2> QED
      BY <1>2, <1>4, <2>2, <2>5 DEF OnDisk
  <1> QED
    BY <1>6, <1>7

-----------------------------------------------------------------------------
(* What a document announces, and where it is found *)

LEMMA WholePath ==
  ASSUME NEW d \in Path
  PROVE  SubSeq(d, 1, Len(d)) = d
  <1>1. PICK n \in Nat : n = Len(d)
    BY DEF Path
  <1>2. \A i \in 1..n : d[i] \in Name
    BY <1>1 DEF Path
  <1>3. /\ SubSeq(d, 1, n) \in Seq(Name) /\ Len(SubSeq(d, 1, n)) = IF 1 <= n THEN n - 1 + 1 ELSE 0
        /\ \A i \in 1..(n - 1 + 1) : SubSeq(d, 1, n)[i] = d[1 + i - 1]
    BY <1>1, <1>2, SubSeqProperties
  <1>4. Len(SubSeq(d, 1, n)) = n /\ \A i \in 1..n : SubSeq(d, 1, n)[i] = d[i]
    BY <1>1, <1>3
  <1> QED
    BY <1>1, <1>3, <1>4, SeqEqual DEF Path

LEMMA PathConcat ==
  \A d, e \in Path : d \o e \in Path
  BY ConcatProperties DEF Path

LEMMA PathAssociative ==
  \A d, e, f \in Path : (d \o e) \o f = d \o (e \o f)
  BY ConcatAssociative DEF Path

LEMMA FrontPath ==
  ASSUME NEW d \in Path
  PROVE  Front(d) \in Path
  <1>1. PICK n \in Nat : n = Len(d)
    BY DEF Path
  <1>2. \A i \in 1..(n - 1) : d[i] \in Name
    BY <1>1 DEF Path
  <1> QED
    BY <1>1, <1>2, SubSeqProperties DEF Front, Path

\* What stands before the name of a file in the path that is recorded
Lead(p) == IF p.recorded = "cwd" THEN FromCwd(p.dir) ELSE <<>>

LEMMA LeadParts ==
  ASSUME NEW p \in Plans
  PROVE  /\ Lead(p) \in Path
         /\ \A j \in DOMAIN Lead(p), kind \in Kinds : Lead(p)[j] # SidecarDirectory(kind)
         /\ p.recorded = "cwd" => p.dir = Cwd \o Lead(p)
         /\ p.recorded = "cwd" /\ p.dir = Cwd => Lead(p) = <<>>
  <1>1. <<>> \in Path /\ Len(<<>>) = 0 /\ DOMAIN <<>> = {}
    BY DEF Path
  <1>2. CASE p.recorded # "cwd"
    BY <1>1, <1>2 DEF Lead
  <1>3. CASE p.recorded = "cwd"
    <2>1. Cwd \in Path
      BY PlansAssumption, Zenon DEF Path, Name
    <2>2. PICK d \in Directories : d = p.dir /\ d \in Path
      BY PlanParts, DirectoryIsPath
    <2>3. IsPrefix(Cwd, d)
      BY <1>3, <2>2, PlansAssumption
    <2>4. Len(Cwd) <= Len(d) /\ SubSeq(d, 1, Len(Cwd)) = Cwd
      BY <2>1, <2>3, WholePath DEF IsPrefix
    <2>5. PICK g : g = SubSeq(d, Len(Cwd) + 1, Len(d))
      OBVIOUS
    <2>6. Lead(p) = g
      BY <1>3, <2>2, <2>5 DEF Lead, FromCwd
    <2>7. g \in Path /\ Len(g) = Len(d) - Len(Cwd) /\ d = Cwd \o g
      BY <2>1, <2>2, <2>4, <2>5, PathParts
    <2>8. ASSUME NEW j \in DOMAIN g, NEW kind \in Kinds
          PROVE  g[j] # SidecarDirectory(kind)
      <3>7. Len(Cwd) \in Nat /\ Len(g) \in Nat
        BY <2>1, <2>7, LenProperties DEF Path
      <3>1. PICK n \in Nat, k \in Nat : n = Len(Cwd) /\ k = Len(g)
        BY <3>7
      <3>2. j \in 1..k
        BY <2>7, <3>1 DEF Path
      <3>3. Len(d) = n + k /\ \A i \in 1..(n + k) : d[i] = IF i <= n THEN Cwd[i] ELSE g[i - n]
        BY <2>1, <2>7, <3>1, ConcatProperties DEF Path
      <3>4. n + j \in 1..(n + k) /\ ~ (n + j <= n) /\ n + j - n = j
        BY <3>1, <3>2
      <3>5. d[n + j] = g[n + j - n]
        <4>1. PICK m \in 1..(n + k) : m = n + j
          BY <3>4
        <4>2. d[m] = g[m - n]
          BY <3>3, <3>4, <4>1
        <4> QED
          BY <3>2, <3>4, <4>1, <4>2
      <3>6. n + j \in DOMAIN d
        BY <2>2, <3>3, <3>4 DEF Path
      <3> QED
        BY <3>4, <3>5, <3>6, DirectoriesAssumption
    <2>9. d = Cwd => g = <<>>
      <3>1. SUFFICES ASSUME d = Cwd
                     PROVE  g = <<>>
        OBVIOUS
      <3>2. Len(Cwd) \in Nat
        BY <2>1 DEF Path
      <3>3. Len(g) = 0
        BY <2>7, <3>1, <3>2
      <3> QED
        BY <2>7, <3>3, EmptySeq DEF Path
    <2> QED
      BY <2>2, <2>6, <2>7, <2>8, <2>9
  <1> QED
    BY <1>2, <1>3

LEMMA SummaryPath ==
  ASSUME NEW p \in Plans, NEW i \in DOMAIN Sidecars(p.states)
  PROVE  /\ summary_path(p, i) = Lead(p) \o FileName(Sidecars(p.states), i)
         /\ summary_path(p, i) \in Path
  <1>1. FileName(Sidecars(p.states), i) \in Path
    BY FileNames DEF IsSidecar
  <1>2. Lead(p) \in Path
    BY LeadParts
  <1> QED
    BY <1>1, <1>2, ConcatProperties DEF summary_path, Lead, Path

\* The first of the paths at which there is something
LEMMA FoundFirst ==
  ASSUME NEW files, NEW paths, DOMAIN paths \in SUBSET Nat, NEW default,
         NEW i \in DOMAIN paths, paths[i] \in DOMAIN files,
         \A j \in DOMAIN paths : j < i => paths[j] \notin DOMAIN files \/ paths[j] = paths[i]
  PROVE  FirstExisting(files, paths, default) = paths[i]
  <1>1. PICK found : found = {j \in DOMAIN paths : paths[j] \in DOMAIN files}
    OBVIOUS
  <1>2. found \in SUBSET Nat /\ i \in found
    BY <1>1
  <1>3. PICK j \in found : \A k \in found : j <= k
    BY <1>2, Least
  <1>4. First(found) = j
    BY <1>2, <1>3, FirstIs
  <1>5. FirstExisting(files, paths, default) = paths[j]
    BY <1>1, <1>2, <1>4 DEF FirstExisting
  <1>6. j \in Nat /\ i \in Nat /\ j <= i /\ j \in DOMAIN paths /\ paths[j] \in DOMAIN files
    BY <1>1, <1>2, <1>3
  <1>7. j < i \/ j = i
    BY <1>6
  <1> QED
    BY <1>5, <1>6, <1>7

LEMMA FoundSome ==
  ASSUME NEW files, NEW paths, DOMAIN paths \in SUBSET Nat, NEW default
  PROVE  \/ FirstExisting(files, paths, default) = default
         \/ \E i \in DOMAIN paths : FirstExisting(files, paths, default) = paths[i]
  <1>1. PICK found : found = {j \in DOMAIN paths : paths[j] \in DOMAIN files}
    OBVIOUS
  <1>2. CASE found = {}
    BY <1>1, <1>2 DEF FirstExisting
  <1>3. CASE found # {}
    <2>1. PICK j \in found : \A k \in found : j <= k
      BY <1>1, <1>3, Least
    <2>2. First(found) = j
      BY <1>1, <2>1, FirstIs
    <2> QED
      BY <1>1, <1>3, <2>1, <2>2 DEF FirstExisting
  <1> QED
    BY <1>2, <1>3

\* The end of an older path, from its directory of binary files on
LEMMA LegacyIs ==
  ASSUME NEW g \in Path, NEW f, IsSidecar(f),
         \A j \in DOMAIN g, kind \in Kinds : g[j] # SidecarDirectory(kind)
  PROVE  resolve_legacy_jsonbin_filename(g \o f) = f
  <1> USE DEF Path
  <1>1. f \in Seq(Name) /\ Len(f) = 2 /\ \E kind \in Kinds : f[1] = SidecarDirectory(kind)
    BY DEF IsSidecar
  <1>2. PICK n \in Nat : n = Len(g)
    OBVIOUS
  <1>3. PICK p \in Seq(Name) : p = g \o f
    BY <1>1, ConcatProperties
  <1>4. Len(p) = n + 2 /\ \A i \in 1..(n + 2) : p[i] = IF i <= n THEN g[i] ELSE f[i - n]
    <2>1. /\ Len(g \o f) = Len(g) + Len(f)
          /\ \A i \in 1..(Len(g) + Len(f)) : (g \o f)[i] = IF i <= Len(g) THEN g[i] ELSE f[i - Len(g)]
      BY <1>1, ConcatProperties
    <2> QED
      BY <1>1, <1>2, <1>3, <2>1
  <1>5. DOMAIN p = 1..(n + 2) /\ DOMAIN g = 1..n
    BY <1>2, <1>4
  <1>6. PICK names : names = {SidecarDirectory(kind) : kind \in {"samples", "freqs"}}
    OBVIOUS
  <1>7. PICK found : found = {i \in DOMAIN p : p[i] \in names}
    OBVIOUS
  <1>8. n + 1 \in found
    <2>1. n + 1 \in 1..(n + 2) /\ ~ (n + 1 <= n) /\ n + 1 - n = 1
      BY <1>2
    <2>2. p[n + 1] = f[n + 1 - n]
      BY <1>4, <2>1
    <2>3. f[1] \in names
      BY <1>1, <1>6 DEF Kinds
    <2> QED
      BY <1>5, <1>7, <2>1, <2>2, <2>3
  <1>9. ASSUME NEW i \in found
        PROVE  n + 1 <= i
    <2>1. i \in 1..(n + 2) /\ p[i] \in names
      BY <1>5, <1>7
    <2>2. SUFFICES ASSUME i <= n
                   PROVE  FALSE
      BY <2>1
    <2>3. p[i] = g[i] /\ i \in DOMAIN g
      BY <1>4, <1>5, <2>1, <2>2
    <2> QED
      BY <1>6, <2>1, <2>3 DEF Kinds
  <1>10. found \in SUBSET Nat
    BY <1>5, <1>7
  <1>11. First(found) = n + 1
    BY <1>2, <1>8, <1>9, <1>10, FirstIs
  <1>12. SubSeq(p, n + 1, Len(p)) = f
    <2>1. f \in Path /\ Len(f) > 0
      BY <1>1
    <2>2. SubSeq(g \o f, Len(g) + 1, Len(g \o f)) = f
      BY <2>1, UnderIts
    <2> QED
      BY <1>2, <1>3, <2>2
  <1>13. resolve_legacy_jsonbin_filename(p) = SubSeq(p, First(found), Len(p))
    BY <1>6, <1>7, <1>8 DEF resolve_legacy_jsonbin_filename
  <1> QED
    BY <1>3, <1>11, <1>12, <1>13

\* No file stands where a path of an older version would lead from a directory
\* other than the one the programs are started in.
LEMMA NothingThere ==
  ASSUME NEW files, NEW gone, Filed(files, gone), NEW d \in Path, NEW f, IsSidecar(f), d \notin Directories
  PROVE  d \o f \notin DOMAIN files
  BY FiledSidecar

\* A document that the run of p left is in d.
Belongs(files, gone, d, p, i) ==
  /\ Filed(files, gone) /\ d \in Directories /\ p \in Plans /\ i \in DOMAIN Sidecars(p.states)
  /\ p.dir # Cwd => d # Cwd

LEMMA LeadsNowhereElse ==
  ASSUME NEW files, NEW gone, NEW d, NEW p, NEW i, Belongs(files, gone, d, p, i),
         d \o summary_path(p, i) \in DOMAIN files
  PROVE  d \o summary_path(p, i) = SidecarAt(d, p, i)
  <1>1. PICK f : f = FileName(Sidecars(p.states), i)
    OBVIOUS
  <1>2. f \in Path /\ IsSidecar(f)
    BY <1>1, FileNames DEF Belongs, IsSidecar
  <1>3. PICK g \in Path : g = Lead(p)
    BY LeadParts DEF Belongs
  <1>4. summary_path(p, i) = g \o f
    BY <1>1, <1>3, SummaryPath DEF Belongs
  <1>5. d \in Path /\ SidecarAt(d, p, i) = d \o f
    BY <1>1, DirectoryIsPath DEF Belongs, SidecarAt
  <1>6. d \o (g \o f) = (d \o g) \o f /\ d \o g \in Path
    BY <1>2, <1>5, PathAssociative, PathConcat
  <1>7. CASE g = <<>>
    <2>1. <<>> \o f = f
      BY <1>2, ConcatEmptySeq DEF Path
    <2> QED
      BY <1>4, <1>5, <1>7, <2>1
  <1>8. CASE g # <<>>
    <2>1. p.recorded = "cwd" /\ p.dir # Cwd
      BY <1>3, <1>8, LeadParts DEF Lead, Belongs
    <2>2. g = FromCwd(p.dir)
      BY <1>3, <2>1 DEF Lead
    <2>3. d \in Directories \ {Cwd} /\ p \in Plans
      BY <2>1 DEF Belongs
    <2>4. d \o g \notin Directories
      BY <2>1, <2>2, <2>3, DirectoriesAssumption
    <2>5. (d \o g) \o f \notin DOMAIN files
      BY <1>2, <1>6, <2>4, NothingThere DEF Belongs
    <2> QED
      BY <1>4, <1>6, <2>5
  <1> QED
    BY <1>7, <1>8

LEMMA LazyPlace ==
  ASSUME NEW files, NEW gone, NEW d, NEW p, NEW i, Belongs(files, gone, d, p, i),
         SidecarAt(d, p, i) \in DOMAIN files,
         NEW source, source.json_dir = d, source.filename = summary_path(p, i)
  PROVE  resolve_binary_filename(files, source) = SidecarAt(d, p, i)
  <1>1. PICK f : f = FileName(Sidecars(p.states), i)
    OBVIOUS
  <1>2. f \in Path /\ IsSidecar(f) /\ d \o f = SidecarAt(d, p, i)
    BY <1>1, FileNames DEF Belongs, IsSidecar, SidecarAt
  <1>3. PICK g \in Path : g = Lead(p)
    BY LeadParts DEF Belongs
  <1>4. source.filename = g \o f
    BY <1>1, <1>3, SummaryPath DEF Belongs
  <1>5. resolve_legacy_jsonbin_filename(g \o f) = f
    BY <1>2, <1>3, LeadParts, LegacyIs DEF Belongs
  <1>6. f # None
    <2>1. None \notin Path
      BY NoneAssumption, Zenon DEF Path, Name
    <2> QED
      BY <1>2, <2>1
  <1>7. PICK first, last : first = d \o (g \o f) /\ last = Front(d) \o (g \o f)
    OBVIOUS
  <1>8. resolve_binary_filename(files, source) = FirstExisting(files, <<first, d \o f, last>>, first)
    BY <1>4, <1>5, <1>6, <1>7 DEF resolve_binary_filename
  <1>9. first \in DOMAIN files => first = d \o f
    <2>1. first = d \o summary_path(p, i)
      BY <1>4, <1>7
    <2>2. d \o summary_path(p, i) \in DOMAIN files => d \o summary_path(p, i) = SidecarAt(d, p, i)
      BY LeadsNowhereElse
    <2> QED
      BY <1>2, <2>1, <2>2
  <1>10. PICK paths : paths = <<first, d \o f, last>>
    OBVIOUS
  <1>11. /\ DOMAIN paths \in SUBSET Nat /\ 2 \in DOMAIN paths /\ paths[2] = d \o f
         /\ \A j \in DOMAIN paths : j < 2 => paths[j] = first
    <2>1. DOMAIN paths = 1..3 /\ paths[1] = first /\ paths[2] = d \o f
      BY <1>10
    <2>2. \A j \in 1..3 : j < 2 => j = 1
      OBVIOUS
    <2> QED
      BY <2>1, <2>2
  <1>12. FirstExisting(files, paths, first) = paths[2]
    BY <1>2, <1>9, <1>11, FoundFirst
  <1> QED
    BY <1>2, <1>8, <1>10, <1>11, <1>12

LEMMA EagerPlace ==
  ASSUME NEW files, NEW gone, NEW d, NEW p, NEW i, Belongs(files, gone, d, p, i),
         SidecarAt(d, p, i) \in DOMAIN files,
         NEW where, p.recorded = "json" \/ (d = p.dir /\ where = Cwd)
  PROVE  resolve_recorded_filename(files, d, where, summary_path(p, i)) = SidecarAt(d, p, i)
  <1>1. PICK f : f = FileName(Sidecars(p.states), i)
    OBVIOUS
  <1>2. f \in Path /\ IsSidecar(f) /\ d \o f = SidecarAt(d, p, i) /\ d \in Path
    BY <1>1, FileNames, DirectoryIsPath DEF Belongs, IsSidecar, SidecarAt
  <1>3. PICK g \in Path : g = Lead(p)
    BY LeadParts DEF Belongs
  <1>4. summary_path(p, i) = g \o f
    BY <1>1, <1>3, SummaryPath DEF Belongs
  <1>5. PICK first, second, third :
          /\ first = d \o (g \o f) /\ second = Front(d) \o (g \o f) /\ third = where \o (g \o f)
    OBVIOUS
  <1>6. resolve_recorded_filename(files, d, where, summary_path(p, i))
          = FirstExisting(files, <<first, second, third>>, first)
    BY <1>4, <1>5 DEF resolve_recorded_filename
  <1>7. first \in DOMAIN files => first = d \o f
    <2>1. first = d \o summary_path(p, i)
      BY <1>4, <1>5
    <2>2. d \o summary_path(p, i) \in DOMAIN files => d \o summary_path(p, i) = SidecarAt(d, p, i)
      BY LeadsNowhereElse
    <2> QED
      BY <1>2, <2>1, <2>2
  <1>8. PICK paths : paths = <<first, second, third>>
    OBVIOUS
  <1>9. DOMAIN paths = 1..3 /\ paths[1] = first /\ paths[2] = second /\ paths[3] = third
    BY <1>8
  <1>10. DOMAIN paths \in SUBSET Nat
    BY <1>9
  <1>11. CASE g = <<>>
    <2>1. <<>> \o f = f
      BY <1>2, ConcatEmptySeq DEF Path
    <2>2. first = d \o f
      BY <1>5, <1>11, <2>1
    <2>3. \A j \in DOMAIN paths : ~ (j < 1)
      BY <1>9
    <2>4. 1 \in DOMAIN paths /\ paths[1] \in DOMAIN files
      BY <1>2, <1>9, <2>2
    <2>5. FirstExisting(files, paths, first) = paths[1]
      BY <1>10, <2>3, <2>4, FoundFirst
    <2> QED
      BY <1>2, <1>6, <1>8, <1>9, <2>2, <2>5
  <1>12. CASE g # <<>>
    <2>1. p.recorded = "cwd" /\ p.dir # Cwd /\ p \in Plans
      BY <1>3, <1>12, LeadParts DEF Lead, Belongs
    <2>2. g = FromCwd(p.dir) /\ d = p.dir /\ where = Cwd
      BY <1>3, <2>1 DEF Lead
    <2>3. Front(d) \in Path
      BY <1>2, FrontPath
    <2>4. second = (Front(d) \o g) \o f /\ Front(d) \o g \in Path
      BY <1>2, <1>5, <2>3, PathAssociative, PathConcat
    <2>5. Front(d) \o g = d \/ Front(d) \o g \notin Directories
      BY <2>1, <2>2, DirectoriesAssumption
    <2>6. second \in DOMAIN files => second = d \o f
      BY <1>2, <2>4, <2>5, NothingThere DEF Belongs
    <2>7. third = d \o f
      <3>1. Cwd \in Path
        BY PlansAssumption, Zenon DEF Path, Name
      <3>2. d = Cwd \o g
        BY <1>3, <2>1, <2>2, LeadParts
      <3>3. Cwd \o (g \o f) = (Cwd \o g) \o f
        BY <1>2, <3>1, PathAssociative
      <3> QED
        BY <1>5, <2>2, <3>2, <3>3
    <2>8. 3 \in DOMAIN paths /\ paths[3] \in DOMAIN files /\ paths[3] = d \o f
      BY <1>2, <1>9, <2>7
    <2>9. \A j \in DOMAIN paths : j < 3 => paths[j] \notin DOMAIN files \/ paths[j] = paths[3]
      <3>1. \A j \in 1..3 : j < 3 => j = 1 \/ j = 2
        OBVIOUS
      <3> QED
        BY <1>7, <1>9, <2>6, <2>8, <3>1
    <2>10. FirstExisting(files, paths, first) = paths[3]
      <3>1. PICK k \in DOMAIN paths : k = 3
        BY <2>8
      <3>2. paths[k] \in DOMAIN files
        BY <2>8, <3>1
      <3>3. \A j \in DOMAIN paths : j < k => paths[j] \notin DOMAIN files \/ paths[j] = paths[k]
        BY <2>9, <3>1
      <3>4. FirstExisting(files, paths, first) = paths[k]
        BY <1>10, <3>2, <3>3, FoundFirst
      <3> QED
        BY <3>1, <3>4
    <2> QED
      BY <1>2, <1>6, <1>8, <2>8, <2>10
  <1> QED
    BY <1>11, <1>12

\* Whatever the robust comparison finds is a binary file.
LEMMA LazyFindsBinary ==
  ASSUME NEW files, NEW gone, NEW d, NEW p, NEW i, Belongs(files, gone, d, p, i),
         NEW source, source.json_dir = d, source.filename = summary_path(p, i)
  PROVE  /\ resolve_binary_filename(files, source) \in Path
         /\ resolve_binary_filename(files, source) \in DOMAIN files =>
              IsBinary(files[resolve_binary_filename(files, source)])
  <1>1. PICK f : f = FileName(Sidecars(p.states), i)
    OBVIOUS
  <1>2. f \in Path /\ IsSidecar(f) /\ d \in Path
    BY <1>1, FileNames, DirectoryIsPath DEF Belongs, IsSidecar
  <1>3. PICK g \in Path : g = Lead(p)
    BY LeadParts DEF Belongs
  <1>4. source.filename = g \o f
    BY <1>1, <1>3, SummaryPath DEF Belongs
  <1>5. resolve_legacy_jsonbin_filename(g \o f) = f
    BY <1>2, <1>3, LeadParts, LegacyIs DEF Belongs
  <1>6. f # None
    <2>1. None \notin Path
      BY NoneAssumption, Zenon DEF Path, Name
    <2> QED
      BY <1>2, <2>1
  <1>7. PICK first, last : first = d \o (g \o f) /\ last = Front(d) \o (g \o f)
    OBVIOUS
  <1>8. PICK paths : paths = <<first, d \o f, last>>
    OBVIOUS
  <1>9. resolve_binary_filename(files, source) = FirstExisting(files, paths, first)
    BY <1>4, <1>5, <1>6, <1>7, <1>8 DEF resolve_binary_filename
  <1>10. PICK e \in Path : e = Front(d)
    BY <1>2, FrontPath
  <1>11. /\ first = (d \o g) \o f /\ d \o g \in Path
         /\ last = (e \o g) \o f /\ e \o g \in Path
    <2>1. first = d \o (g \o f) /\ last = e \o (g \o f)
      BY <1>7, <1>10
    <2>2. d \o (g \o f) = (d \o g) \o f /\ d \o g \in Path
      BY <1>2, PathAssociative, PathConcat
    <2>3. e \o (g \o f) = (e \o g) \o f /\ e \o g \in Path
      BY <1>2, PathAssociative, PathConcat
    <2> QED
      BY <2>1, <2>2, <2>3
  <1>12. DOMAIN paths = 1..3 /\ paths[1] = first /\ paths[2] = d \o f /\ paths[3] = last
    BY <1>8
  <1>13. DOMAIN paths \in SUBSET Nat
    BY <1>12
  <1>14. PICK path : path = FirstExisting(files, paths, first)
    OBVIOUS
  <1>15. path = first \/ \E j \in DOMAIN paths : path = paths[j]
    BY <1>13, <1>14, FoundSome
  <1>16. path = first \/ path = d \o f \/ path = last
    <2>1. \A j \in 1..3 : j = 1 \/ j = 2 \/ j = 3
      OBVIOUS
    <2> QED
      BY <1>12, <1>15, <2>1
  <1>17. PICK a \in Path : path = a \o f
    BY <1>2, <1>11, <1>16
  <1>18. path \in Path
    BY <1>2, <1>17, PathConcat
  <1>19. path \in DOMAIN files => IsBinary(files[path])
    BY <1>2, <1>17, FiledSidecar DEF Belongs
  <1> QED
    BY <1>9, <1>14, <1>18, <1>19

-----------------------------------------------------------------------------
(* What a reading gives *)

\* The i-th file of its run is what the document announces of kind for s.
AnnouncedFile(doc, s, kind, i) ==
  /\ i \in DOMAIN Sidecars(doc.plan.states)
  /\ Sidecars(doc.plan.states)[i] = [state |-> s, kind |-> kind]
  /\ doc.plan.states[s].count \in Nat /\ doc.plan.states[s].count > 0
  /\ doc.states[s][kind] = [size |-> doc.plan.states[s].count, filename |-> summary_path(doc.plan, i)]

LEMMA DocumentParts ==
  ASSUME NEW doc, NEW oks, IsDocument(doc, oks)
  PROVE  /\ doc.run \in Nat /\ doc.plan \in Plans
         /\ DOMAIN doc.states = DOMAIN doc.plan.states
         /\ \A s \in DOMAIN doc.states :
              /\ s \in Nat \ {0}
              /\ doc.states[s].is_skipped = (doc.plan.states[s].type = "skipped")
              /\ \A kind \in Kinds : doc.states[s][kind] = Recorded(doc.plan, oks, s, kind)
  <1>1. doc.run \in Nat /\ doc.plan \in Plans /\ doc = ResultDocument(doc.run, doc.plan, oks)
    BY DEF IsDocument
  <1>2. PICK r, p : r = doc.run /\ p = doc.plan
    OBVIOUS
  <1>3. doc.states = [s \in DOMAIN p.states |-> StateNode(p, oks, s)]
    BY <1>1, <1>2 DEF ResultDocument
  <1>4. ASSUME NEW s \in DOMAIN doc.states
        PROVE  /\ s \in Nat \ {0}
               /\ doc.states[s].is_skipped = (p.states[s].type = "skipped")
               /\ \A kind \in Kinds : doc.states[s][kind] = Recorded(p, oks, s, kind)
    <2>1. s \in DOMAIN p.states /\ doc.states[s] = StateNode(p, oks, s)
      BY <1>3
    <2>2. p.states \in Seq(StateTypes)
      BY <1>1, <1>2, PlanParts
    <2>3. s \in Nat \ {0}
      BY <2>1, <2>2
    <2>4. PICK node : node = StateNode(p, oks, s)
      OBVIOUS
    <2>5. /\ node.is_skipped = (p.states[s].type = "skipped")
          /\ node.samples = Recorded(p, oks, s, "samples") /\ node.freqs = Recorded(p, oks, s, "freqs")
      BY <2>4 DEF StateNode
    <2>6. ASSUME NEW kind \in Kinds
          PROVE  node[kind] = Recorded(p, oks, s, kind)
      <3>1. kind = "samples" \/ kind = "freqs"
        BY DEF Kinds
      <3> QED
        BY <2>5, <3>1
    <2> QED
      BY <2>1, <2>3, <2>4, <2>5, <2>6
  <1> QED
    BY <1>1, <1>2, <1>3, <1>4

LEMMA Announcing ==
  ASSUME NEW doc, NEW oks, IsDocument(doc, oks), NEW s \in DOMAIN doc.states, NEW kind \in Kinds
  PROVE  \/ doc.states[s][kind] = None
         \/ doc.states[s][kind] = Unwritten
         \/ \E i \in DOMAIN Sidecars(doc.plan.states) : oks[i] /\ AnnouncedFile(doc, s, kind, i)
  <1>1. PICK p \in Plans : p = doc.plan
    BY DocumentParts
  <1>2. s \in DOMAIN p.states /\ doc.states[s][kind] = Recorded(p, oks, s, kind)
    BY <1>1, DocumentParts
  <1>3. CASE p.states[s].type # "cold"
    BY <1>2, <1>3 DEF Recorded
  <1>4. CASE p.states[s].type = "cold"
    <2>1. PICK i \in DOMAIN Sidecars(p.states) :
            i = CHOOSE j \in DOMAIN Sidecars(p.states) : Sidecars(p.states)[j] = [state |-> s, kind |-> kind]
      <3>1. \E i \in DOMAIN Sidecars(p.states) : Sidecars(p.states)[i] = [state |-> s, kind |-> kind]
        BY <1>2, <1>4, SidecarsListed
      <3> QED
        BY <3>1
    <2>2. Sidecars(p.states)[i] = [state |-> s, kind |-> kind]
      <3>1. \E j \in DOMAIN Sidecars(p.states) : Sidecars(p.states)[j] = [state |-> s, kind |-> kind]
        BY <1>2, <1>4, SidecarsListed
      <3> QED
        BY <2>1, <3>1
    <2>3. Recorded(p, oks, s, kind) =
            IF oks[i] THEN [size |-> p.states[s].count, filename |-> summary_path(p, i)] ELSE Unwritten
      BY <1>4, <2>1 DEF Recorded
    <2>4. p.states[s].count \in Nat /\ p.states[s].count > 0
      <3>1. p.states \in Seq(StateTypes) /\ p.states[s].count > 0
        BY <1>2, <1>4, PlanParts
      <3>2. p.states[s] \in StateTypes
        BY <1>2, <3>1
      <3> QED
        BY <3>1, <3>2 DEF StateTypes
    <2>5. CASE oks[i]
      BY <1>1, <1>2, <2>2, <2>3, <2>4, <2>5 DEF AnnouncedFile
    <2>6. CASE ~ oks[i]
      BY <1>2, <2>3, <2>6
    <2> QED
      BY <2>5, <2>6
  <1> QED
    BY <1>3, <1>4

\* A whole file has the values of its state, all of them.
LEMMA WholeFileIs ==
  ASSUME NEW doc, NEW s, NEW kind, NEW i, AnnouncedFile(doc, s, kind, i)
  PROVE  /\ WholeFile(doc.run, doc.plan, i).of = <<doc.run, s, kind>>
         /\ WholeFile(doc.run, doc.plan, i).size = 4 * doc.plan.states[s].count
         /\ WholeFile(doc.run, doc.plan, i).size % float32 = 0
         /\ WholeFile(doc.run, doc.plan, i).size \div float32 = doc.plan.states[s].count
         /\ Array(WholeFile(doc.run, doc.plan, i), doc.plan.states[s].count) = Own(doc, s, kind)
  <1>1. PICK c \in Nat : c = doc.plan.states[s].count
    BY DEF AnnouncedFile
  <1>2. WholeFile(doc.run, doc.plan, i) = Binary(doc.run, s, kind, 4 * c)
    BY <1>1 DEF WholeFile, AnnouncedFile, WholeSize, float32
  <1>3. PICK file : file = WholeFile(doc.run, doc.plan, i)
    OBVIOUS
  <1>4. file.of = <<doc.run, s, kind>> /\ file.size = 4 * c
    BY <1>2, <1>3 DEF Binary
  <1>5. (4 * c) % 4 = 0 /\ (4 * c) \div 4 = c
    OBVIOUS
  <1> QED
    BY <1>1, <1>3, <1>4, <1>5 DEF float32, Array, Own

\* The source the robust comparison makes of what is announced
SourceAt(doc, s, kind, d) ==
  [count |-> doc.states[s][kind].size, filename |-> doc.states[s][kind].filename, json_dir |-> d]

LEMMA LazyOwn ==
  ASSUME NEW files, NEW gone, NEW d, NEW doc, NEW s, NEW kind, NEW i,
         Belongs(files, gone, d, doc.plan, i), AnnouncedFile(doc, s, kind, i),
         SidecarAt(d, doc.plan, i) \in DOMAIN files,
         files[SidecarAt(d, doc.plan, i)] = WholeFile(doc.run, doc.plan, i)
  PROVE  /\ read_float32_binary(files, SourceAt(doc, s, kind, d)) = Own(doc, s, kind)
         /\ has_material_payload(files, SourceAt(doc, s, kind, d))
  <1>1. PICK source : source = SourceAt(doc, s, kind, d)
    OBVIOUS
  <1>2. PICK c \in Nat : c = doc.plan.states[s].count /\ c > 0
    BY DEF AnnouncedFile
  <1>3. source.json_dir = d /\ source.filename = summary_path(doc.plan, i) /\ source.count = c
    BY <1>1, <1>2 DEF SourceAt, AnnouncedFile
  <1>4. PICK path : path = SidecarAt(d, doc.plan, i)
    OBVIOUS
  <1>5. resolve_binary_filename(files, source) = path /\ path \in DOMAIN files
    BY <1>3, <1>4, LazyPlace
  <1>6. /\ files[path].size = 4 * c /\ files[path].size \div float32 = c
        /\ Array(files[path], c) = Own(doc, s, kind)
    BY <1>2, <1>4, WholeFileIs
  <1>7. read_float32_binary(files, source) = Own(doc, s, kind)
    BY <1>3, <1>5, <1>6 DEF read_float32_binary
  <1>8. has_material_payload(files, source)
    BY <1>2, <1>3, <1>5, <1>6 DEF has_material_payload
  <1> QED
    BY <1>1, <1>7, <1>8

\* BenchmarkResult finds the files of d's document from where it was started.
InReach(doc, d, where) == doc.plan.recorded = "json" \/ (d = doc.plan.dir /\ where = Cwd)

\* The files of a document that is on the disk are there unless some were deleted.
LEMMA BackedFile ==
  ASSUME NEW files, NEW gone, NEW d \in Directories, NEW doc, Filed(files, gone),
         Backed(files, gone, d, doc), NEW s \in DOMAIN doc.states, NEW kind \in Kinds,
         doc.states[s][kind] # None, doc.states[s][kind] # Unwritten
  PROVE  \E i \in DOMAIN Sidecars(doc.plan.states) :
           /\ Belongs(files, gone, d, doc.plan, i) /\ AnnouncedFile(doc, s, kind, i)
           /\ SidecarAt(d, doc.plan, i) \in DOMAIN files =>
                files[SidecarAt(d, doc.plan, i)] = WholeFile(doc.run, doc.plan, i)
           /\ gone \/ SidecarAt(d, doc.plan, i) \in DOMAIN files
  <1>1. PICK oks \in [DOMAIN Sidecars(doc.plan.states) -> BOOLEAN] :
          /\ IsDocument(doc, oks)
          /\ \A i \in DOMAIN oks : oks[i] =>
               LET path == SidecarAt(d, doc.plan, i)
               IN /\ path \in DOMAIN files => files[path] = WholeFile(doc.run, doc.plan, i)
                  /\ gone \/ path \in DOMAIN files
    BY DEF Backed
  <1>2. PICK i \in DOMAIN Sidecars(doc.plan.states) : oks[i] /\ AnnouncedFile(doc, s, kind, i)
    BY <1>1, Announcing
  <1>3. Belongs(files, gone, d, doc.plan, i)
    BY <1>1, DocumentParts DEF Belongs, Backed
  <1>4. i \in DOMAIN oks
    BY <1>1
  <1> QED
    BY <1>1, <1>2, <1>3, <1>4

LEMMA NoValue ==
  /\ None \notin Nat /\ None \notin Path /\ None # Unwritten /\ None # Refused
  /\ None \notin [size : Nat, filename : Path]
  /\ None \notin [of : Nat \X Nat \X Kinds, length : Nat]
  /\ None \notin [count : Nat, filename : Path, json_dir : Path]
  BY NoneAssumption, Zenon DEF Path, Name

LEMMA OwnIsPresent ==
  ASSUME NEW doc, NEW oks, IsDocument(doc, oks), NEW s \in DOMAIN doc.states, NEW kind \in Kinds,
         NEW i, AnnouncedFile(doc, s, kind, i)
  PROVE  Present(Own(doc, s, kind)) /\ Own(doc, s, kind).length = doc.plan.states[s].count
  <1>1. doc.run \in Nat /\ s \in Nat
    BY DocumentParts
  <1>2. PICK c \in Nat : c = doc.plan.states[s].count
    BY DEF AnnouncedFile
  <1>3. PICK own : own = Own(doc, s, kind)
    OBVIOUS
  <1>4. PICK of \in Nat \X Nat \X Kinds : of = <<doc.run, s, kind>>
    BY <1>1
  <1>5. own = [of |-> of, length |-> c]
    BY <1>2, <1>3, <1>4 DEF Own
  <1>6. own \in [of : Nat \X Nat \X Kinds, length : Nat] /\ own # Refused /\ own.length = c
    BY <1>5 DEF Refused
  <1> QED
    BY <1>2, <1>3, <1>6, NoValue DEF Present

\* What is announced is of its type.
LEMMA AnnouncedIs ==
  ASSUME NEW doc, NEW oks, IsDocument(doc, oks), NEW s \in DOMAIN doc.states, NEW kind \in Kinds,
         NEW i, AnnouncedFile(doc, s, kind, i)
  PROVE  /\ doc.states[s][kind] \in [size : Nat, filename : Path]
         /\ doc.states[s][kind].size = doc.plan.states[s].count
         /\ doc.states[s][kind].filename = summary_path(doc.plan, i)
         /\ doc.states[s][kind].size # None /\ doc.states[s][kind].filename # None
         /\ doc.states[s][kind] # None /\ doc.states[s][kind] # Unwritten /\ doc.states[s][kind] # Refused
  <1>1. PICK c \in Nat : c = doc.plan.states[s].count
    BY DEF AnnouncedFile
  <1>2. PICK name \in Path : name = summary_path(doc.plan, i)
    BY DocumentParts, SummaryPath DEF AnnouncedFile
  <1>3. PICK meta : meta = doc.states[s][kind]
    OBVIOUS
  <1>4. meta = [size |-> c, filename |-> name]
    BY <1>1, <1>2, <1>3 DEF AnnouncedFile
  <1>5. meta \in [size : Nat, filename : Path] /\ meta.size = c /\ meta.filename = name /\ meta # Refused
    BY <1>4 DEF Refused
  <1>6. c # None /\ name # None /\ meta # None
    BY <1>5, NoValue
  <1>7. meta # Unwritten
    <2>1. Unwritten.size = None
      BY DEF Unwritten
    <2> QED
      BY <1>5, <1>6, <2>1
  <1> QED
    BY <1>1, <1>2, <1>3, <1>5, <1>6, <1>7

LEMMA ExtractedIs ==
  ASSUME NEW doc, NEW oks, IsDocument(doc, oks), NEW s \in DOMAIN doc.states, NEW kind \in Kinds,
         NEW d \in Path
  PROVE  LET source == extract_float32_binary_source(doc.states[s], kind, d) IN
           /\ doc.states[s][kind] = None => source = None
           /\ doc.states[s][kind] = Unwritten => source = Refused
           /\ doc.states[s][kind] \notin {None, Unwritten} =>
                /\ source = SourceAt(doc, s, kind, d) /\ source # None /\ source # Refused
                /\ source.count = doc.plan.states[s].count
  <1>1. PICK state : state = doc.states[s]
    OBVIOUS
  <1>2. CASE state[kind] = None
    BY <1>1, <1>2, NoValue DEF extract_float32_binary_source, extract_binary_meta
  <1>3. CASE state[kind] = Unwritten
    <2>1. Unwritten.size = None
      BY DEF Unwritten
    <2>2. extract_binary_meta(state, kind) = Refused
      BY <1>3, <2>1, NoValue DEF extract_binary_meta
    <2> QED
      BY <1>1, <1>3, <2>2, NoValue DEF extract_float32_binary_source
  <1>4. CASE state[kind] # None /\ state[kind] # Unwritten
    <2>1. PICK i : AnnouncedFile(doc, s, kind, i)
      BY <1>1, <1>4, Announcing
    <2>2. /\ state[kind] \in [size : Nat, filename : Path]
          /\ state[kind].size = doc.plan.states[s].count
          /\ state[kind].size # None /\ state[kind].filename # None
          /\ state[kind] # None /\ state[kind] # Refused
      BY <1>1, <2>1, AnnouncedIs
    <2>3. extract_binary_meta(state, kind) = state[kind]
      BY <2>2 DEF extract_binary_meta
    <2>4. PICK source : source = extract_float32_binary_source(state, kind, d)
      OBVIOUS
    <2>5. source = [count |-> state[kind].size, filename |-> state[kind].filename, json_dir |-> d]
      BY <2>2, <2>3, <2>4 DEF extract_float32_binary_source
    <2>6. source = SourceAt(doc, s, kind, d)
      BY <1>1, <2>5 DEF SourceAt
    <2>7. source \in [count : Nat, filename : Path, json_dir : Path] /\ source # Refused
      <3>1. PICK n \in Nat, name \in Path : n = state[kind].size /\ name = state[kind].filename
        BY <2>2
      <3>2. source = [count |-> n, filename |-> name, json_dir |-> d]
        BY <2>5, <3>1
      <3> QED
        BY <3>2 DEF Refused
    <2>8. source.count = doc.plan.states[s].count
      BY <2>2, <2>5
    <2>9. source # None
      BY <2>7, NoValue
    <2> QED
      BY <1>1, <1>4, <2>4, <2>6, <2>7, <2>8, <2>9
  <1> QED
    BY <1>1, <1>2, <1>3, <1>4

\* The sources of a state: refused if one of its files was not written, one of
\* each kind that is announced otherwise.
LEMMA SourcesAre ==
  ASSUME NEW doc, NEW oks, IsDocument(doc, oks), NEW s \in DOMAIN doc.states, NEW d \in Path
  PROVE  /\ SourcesOf(doc, d, s) = Refused <=> \E kind \in Kinds : doc.states[s][kind] = Unwritten
         /\ SourcesOf(doc, d, s) # Refused =>
              \A kind \in Kinds :
                /\ doc.states[s][kind] = None => SourcesOf(doc, d, s)[kind] = None
                /\ doc.states[s][kind] # None =>
                     /\ SourcesOf(doc, d, s)[kind] = SourceAt(doc, s, kind, d)
                     /\ SourcesOf(doc, d, s)[kind] # None
                     /\ SourcesOf(doc, d, s)[kind].count = doc.plan.states[s].count
  <1> DEFINE Source(kind) == extract_float32_binary_source(doc.states[s], kind, d)
  <1>1. ASSUME NEW kind \in Kinds
        PROVE  /\ doc.states[s][kind] = None => Source(kind) = None
               /\ doc.states[s][kind] = Unwritten => Source(kind) = Refused
               /\ doc.states[s][kind] \notin {None, Unwritten} =>
                    /\ Source(kind) = SourceAt(doc, s, kind, d) /\ Source(kind) # None /\ Source(kind) # Refused
                    /\ Source(kind).count = doc.plan.states[s].count
    BY ExtractedIs
  <1> HIDE DEF Source
  <1>2. "samples" \in Kinds /\ "freqs" \in Kinds /\ \A kind \in Kinds : kind = "samples" \/ kind = "freqs"
    BY DEF Kinds
  <1>3. PICK both : both = [kind \in {"samples", "freqs"} |-> Source(kind)]
    OBVIOUS
  <1>4. both.samples = Source("samples") /\ both.freqs = Source("freqs")
    BY <1>3
  <1>5. SourcesOf(doc, d, s) =
          IF Refused \in {both.samples, both.freqs} THEN Refused
          ELSE IF None \notin {both.samples, both.freqs} /\ both.samples.count # both.freqs.count
          THEN [samples |-> None, freqs |-> None]
          ELSE both
    BY <1>3 DEF SourcesOf, extract_gpu_timing_data, Source
  <1>6. CASE \E kind \in Kinds : doc.states[s][kind] = Unwritten
    <2>1. \E kind \in Kinds : Source(kind) = Refused
      BY <1>1, <1>6
    <2>2. SourcesOf(doc, d, s) = Refused
      BY <1>2, <1>4, <1>5, <2>1
    <2> QED
      BY <1>6, <2>2
  <1>7. CASE \A kind \in Kinds : doc.states[s][kind] # Unwritten
    <2>1. \A kind \in Kinds : Source(kind) # Refused
      BY <1>1, <1>7, NoValue
    <2>2. \A kind \in Kinds : Source(kind) # None => Source(kind).count = doc.plan.states[s].count
      BY <1>1, <1>7
    <2>3. SourcesOf(doc, d, s) = both
      BY <1>2, <1>4, <1>5, <2>1, <2>2
    <2>4. both # Refused
      <3>1. DOMAIN both = {"samples", "freqs"}
        BY <1>3
      <3>2. DOMAIN Refused = {"refused"}
        BY DEF Refused
      <3> QED
        BY <3>1, <3>2
    <2>5. \A kind \in Kinds : both[kind] = Source(kind)
      BY <1>3 DEF Kinds
    <2> QED
      BY <1>1, <1>7, <2>3, <2>4, <2>5
  <1> QED
    BY <1>6, <1>7

-----------------------------------------------------------------------------
(* The steps of a reading *)

\* What is read of a file has the announced length, or is nothing.
LEMMA EagerLength ==
  ASSUME NEW files, NEW state, NEW kind, NEW d, NEW where
  PROVE  Present(ParseBinary(files, state, kind, d, where)) =>
           /\ state[kind] # None /\ state[kind] # Unwritten
           /\ ParseBinary(files, state, kind, d, where).length = state[kind].size
  <1>1. PICK value : value = ParseBinary(files, state, kind, d, where)
    OBVIOUS
  <1>2. SUFFICES ASSUME Present(value)
                 PROVE  state[kind] # None /\ state[kind] # Unwritten /\ value.length = state[kind].size
    BY <1>1
  <1>3. PICK meta : meta = parse_binary_meta(state, kind)
    OBVIOUS
  <1>4. meta # None /\ meta # Refused /\ value = parse_float32_binary(files, meta, d, where) /\ value # None /\ value # Refused
    BY <1>1, <1>2, <1>3 DEF ParseBinary, Present
  <1>5. state[kind] # Unwritten /\ meta = state[kind]
    BY <1>3, <1>4 DEF parse_binary_meta
  <1>6. PICK content : value = Array(content, meta.size)
    BY <1>4 DEF parse_float32_binary
  <1>7. value.length = meta.size
    BY <1>6 DEF Array
  <1> QED
    BY <1>4, <1>5, <1>7

LEMMA LazyLength ==
  ASSUME NEW files, NEW source
  PROVE  /\ Values(files, source) # Refused
         /\ Present(Values(files, source)) =>
              source # None /\ Values(files, source).length = source.count
  <1>1. PICK value : value = Values(files, source)
    OBVIOUS
  <1>2. value = None \/ (source # None /\ \E content : value = Array(content, source.count))
    BY <1>1 DEF Values, read_float32_binary
  <1>3. ASSUME NEW content, NEW n
        PROVE  Array(content, n) # Refused /\ Array(content, n).length = n
    BY DEF Array, Refused
  <1>4. value # Refused /\ (Present(value) => source # None /\ value.length = source.count)
    BY <1>2, <1>3, NoValue DEF Present
  <1> QED
    BY <1>1, <1>4

LEMMA StillOnDisk ==
  ASSUME OnDisk, Still
  PROVE  OnDisk' /\ UNCHANGED <<disk, steady, discards>>
  BY DEF OnDisk, Still, Programming, Files, program, user

LEMMA DisturbKeeps ==
  ASSUME IInv, Disturb, OnDisk'
  PROVE  IInv'
  <1>1. /\ UNCHANGED <<stage, tool, dir, cwd, document, at, sources, values, material, rows, script>>
        /\ steady' = (stage = "idle") /\ steady' \in BOOLEAN
    BY DEF Disturb, reader
  <1>2. Reads'
    BY <1>1 DEF IInv, Reads, NothingRead
  <1>3. Asked' /\ Lengths'
    BY <1>1 DEF IInv, Asked, Lengths
  <1>4. steady' => Fresh'
    <2>1. SUFFICES ASSUME stage = "idle"
                   PROVE  Fresh'
      BY <1>1
    <2>2. values' = NoFiles /\ material' = NoFiles /\ rows' = NoFiles /\ script' = None
      BY <1>1, <2>1 DEF IInv, Reads, NothingRead
    <2>3. DOMAIN values' = {} /\ DOMAIN material' = {} /\ DOMAIN rows' = {}
      BY <2>2 DEF NoFiles
    <2> QED
      BY <2>2, <2>3 DEF Fresh
  <1>5. Refusal'
    <2>1. stage = "refused" => ~ steady'
      BY <1>1
    <2> QED
      BY <1>1, <2>1 DEF IInv, Refusal
  <1> QED
    BY <1>2, <1>3, <1>4, <1>5 DEF IInv

LEMMA OpenWithKeeps ==
  ASSUME IInv, NEW how \in {"eager", "lazy"}, NEW where,
         OpenWith(how, where, [d \in Directories |-> read_json(disk, Json(d))])
  PROVE  IInv'
  <1>1. PICK d \in Directories :
          /\ stage = "idle" /\ Json(d) \in DOMAIN disk
          /\ tool' = how /\ dir' = d
          /\ stage' = IF read_json(disk, Json(d)) = Refused THEN "refused" ELSE "reading"
          /\ document' = IF read_json(disk, Json(d)) = Refused THEN None ELSE read_json(disk, Json(d))
          /\ UNCHANGED <<at, sources, values, material, rows, script>> /\ Still
    BY DEF OpenWith, Findings
  <1>2. OnDisk' /\ UNCHANGED <<disk, steady, discards>>
    BY <1>1, StillOnDisk DEF IInv
  <1>3. document = None /\ NothingRead /\ at = 1 /\ steady \in BOOLEAN
    BY <1>1 DEF IInv, Reads
  <1>4. NothingRead' /\ at' = 1
    BY <1>1, <1>3 DEF NothingRead
  <1>5. read_json(disk, Json(d)) # Refused =>
          /\ stage' = "reading" /\ HasDocument(document')
          /\ disk[Json(d)] = Document(document')
    <2>1. SUFFICES ASSUME read_json(disk, Json(d)) # Refused
                   PROVE  HasDocument(read_json(disk, Json(d))) /\ disk[Json(d)] = Document(read_json(disk, Json(d)))
      BY <1>1
    <2>2. disk[Json(d)].type = "json" /\ read_json(disk, Json(d)) = disk[Json(d)].document
      BY <2>1 DEF read_json
    <2>3. NotJson.type = "text"
      BY DEF NotJson
    <2>4. disk[Json(d)] # NotJson
      BY <2>2, <2>3
    <2>5. IsResult(disk, discards # 0, d, disk[Json(d)])
      BY <1>1, DirectoryIsPath, FiledDocument DEF IInv, OnDisk
    <2>6. PICK doc : doc = disk[Json(d)].document
      OBVIOUS
    <2>7. disk[Json(d)] = Document(doc) /\ Backed(disk, discards # 0, d, doc)
      BY <2>4, <2>5, <2>6 DEF IsResult
    <2> QED
      BY <2>2, <2>6, <2>7 DEF Backed, HasDocument
  <1>6. /\ stage' \in {"refused", "reading"} /\ tool' \in {"eager", "lazy"} /\ dir' = d
        /\ read_json(disk, Json(d)) = Refused => stage' = "refused" /\ document' = None
        /\ stage' = "refused" => document' = None
    BY <1>1
  <1>7. Reads'
    BY <1>1, <1>2, <1>3, <1>4, <1>5, <1>6 DEF Reads
  <1>8. DOMAIN values' = {} /\ DOMAIN material' = {} /\ DOMAIN rows' = {} /\ sources' = None /\ script' = None
    BY <1>4 DEF NothingRead, NoFiles
  <1>9. Asked'
    BY <1>4, <1>6, <1>8 DEF Asked, NothingRead
  <1>10. Lengths' /\ Fresh'
    BY <1>8 DEF Lengths, Fresh
  <1>11. Refusal'
    BY <1>6 DEF Refusal
  <1> QED
    BY <1>2, <1>7, <1>9, <1>10, <1>11 DEF IInv

LEMMA ReadingHasDocument ==
  ASSUME IInv, stage = "reading"
  PROVE  /\ \E oks : IsDocument(document, oks)
         /\ dir \in Directories /\ dir \in Path /\ tool \in {"eager", "lazy"}
         /\ HasDocument(document) /\ steady \in BOOLEAN
         /\ steady => Json(dir) \in DOMAIN disk /\ disk[Json(dir)] = Document(document)
         /\ script = None
  <1>1. HasDocument(document) /\ dir \in Directories
    BY DEF IInv, Reads
  <1>2. script = None
    BY DEF IInv, Asked
  <1> QED
    BY <1>1, <1>2, DirectoryIsPath DEF HasDocument, IInv, Reads

LEMMA EagerReadsKeeps ==
  ASSUME IInv, Reading("eager"), InDocument, NEW kind \in Kinds, EagerReads(kind),
         kind = "freqs" => <<at, "samples">> \in DOMAIN values
  PROVE  IInv'
  <1>1. stage = "reading" /\ tool = "eager" /\ at \in DOMAIN document.states
    BY DEF Reading, InDocument
  <1>2. PICK samples, value :
          /\ samples = IF kind = "samples" THEN None ELSE values[<<at, "samples">>]
          /\ value = ParseKind(disk, document.states[at], kind, dir, cwd, samples)
    OBVIOUS
  <1>3. /\ IF value = Refused THEN Refuse
           ELSE /\ values' = Keep(values, kind, value)
                /\ at' = IF kind = "freqs" THEN at + 1 ELSE at
                /\ UNCHANGED <<stage, sources, material, rows>>
        /\ UNCHANGED <<tool, dir, cwd, document, script>> /\ Still
    BY <1>2 DEF EagerReads, Opened, State
  <1>4. OnDisk' /\ UNCHANGED <<disk, steady, discards>>
    BY <1>3, StillOnDisk DEF IInv
  <1>5. PICK oks : IsDocument(document, oks)
    BY <1>1, ReadingHasDocument
  <1>6. kind = "samples" \/ kind = "freqs"
    BY DEF Kinds
  <1>7. steady => /\ samples \in {None, ParseBinary(disk, document.states[at], "samples", dir, cwd)}
                  /\ samples # Refused
    <2>1. CASE kind = "samples"
      BY <1>2, <2>1, NoValue
    <2>2. CASE kind = "freqs"
      <3>1. PICK p \in DOMAIN values : p = <<at, "samples">>
        BY <2>2
      <3>2. samples = values[p] /\ p[1] = at /\ p[2] = "samples"
        BY <1>2, <2>2, <3>1
      <3>3. steady => values[p] = ParseBinary(disk, document.states[p[1]], p[2], dir, cwd) /\ values[p] # Refused
        BY <1>1 DEF IInv, Fresh
      <3> QED
        BY <3>2, <3>3
    <2> QED
      BY <1>6, <2>1, <2>2
  <1>8. CASE value = Refused
    <2>1. stage' = "refused" /\ UNCHANGED <<at, sources, values, material, rows>>
      BY <1>3, <1>8 DEF Refuse, Findings
    <2>2. Reads'
      BY <1>1, <1>3, <1>4, <2>1, ReadingHasDocument DEF Reads
    <2>3. Asked' /\ Lengths'
      BY <1>1, <1>3, <2>1 DEF IInv, Asked, Lengths
    <2>4. steady' => Fresh'
      BY <1>3, <1>4, <2>1 DEF IInv, Fresh
    <2>5. Refusal'
      <3>1. ParseKind(disk, document.states[at], kind, dir, cwd, samples) = Refused
        BY <1>2, <1>8
      <3> QED
        BY <1>1, <1>3, <1>4, <1>7, <3>1 DEF Refusal
    <2> QED
      BY <1>4, <2>2, <2>3, <2>4, <2>5 DEF IInv
  <1>9. CASE value # Refused
    <2>1. /\ values' = Keep(values, kind, value)
          /\ at' = (IF kind = "freqs" THEN at + 1 ELSE at)
          /\ UNCHANGED <<stage, sources, material, rows>>
      BY <1>3, <1>9
    <2>2. value = ParseBinary(disk, document.states[at], kind, dir, cwd)
      BY <1>2, <1>9 DEF ParseKind
    <2>3. /\ DOMAIN values' = DOMAIN values \cup {<<at, kind>>}
          /\ \A p \in DOMAIN values' : values'[p] = IF p = <<at, kind>> THEN value ELSE values[p]
      BY <2>1 DEF Keep
    <2>4. Reads'
      BY <1>1, <1>3, <1>4, <2>1, ReadingHasDocument DEF Reads
    <2>5. Asked'
      <3>1. at \in Nat \ {0} /\ at' \in Nat \ {0}
        BY <2>1 DEF IInv, Asked
      <3>2. <<at, kind>> \in (DOMAIN document.states) \X Kinds
        BY <1>1
      <3>3. /\ sources = None /\ rows = NoFiles /\ material = NoFiles
            /\ \A p \in DOMAIN values : p \in (DOMAIN document.states) \X Kinds
        BY <1>1 DEF IInv, Asked
      <3>4. \A p \in DOMAIN values' : p \in (DOMAIN document'.states) \X Kinds
        BY <1>3, <2>3, <3>2, <3>3
      <3>5. script' = None
        BY <1>1, <1>3, ReadingHasDocument
      <3>6. \A r \in DOMAIN rows' : r \in DOMAIN document'.states /\ SourcesOf(document', dir', r) # Refused
        BY <2>1, <3>3 DEF NoFiles
      <3> QED
        BY <1>1, <1>3, <2>1, <3>1, <3>3, <3>4, <3>5, <3>6 DEF Asked
    <2>6. Lengths'
      <3>1. ASSUME NEW p \in DOMAIN values', Present(values'[p])
            PROVE  values'[p].length = document.plan.states[p[1]].count
        <4>1. CASE p = <<at, kind>>
          <5>1. values'[p] = value /\ p[1] = at /\ Present(value)
            BY <2>3, <3>1, <4>1
          <5>2. PICK state : state = document.states[at]
            OBVIOUS
          <5>3. state[kind] # None /\ state[kind] # Unwritten /\ value.length = state[kind].size
            BY <2>2, <5>1, <5>2, EagerLength
          <5>4. PICK i : AnnouncedFile(document, at, kind, i)
            BY <1>1, <1>5, <5>2, <5>3, Announcing
          <5>5. state[kind].size = document.plan.states[at].count
            BY <1>1, <1>5, <5>2, <5>4, AnnouncedIs
          <5> QED
            BY <5>1, <5>3, <5>5
        <4>2. CASE p # <<at, kind>>
          BY <2>3, <3>1, <4>2 DEF IInv, Lengths
        <4> QED
          BY <4>1, <4>2
      <3> QED
        BY <1>3, <3>1 DEF Lengths
    <2>7. steady' => Fresh'
      <3>1. ASSUME steady, NEW p \in DOMAIN values'
            PROVE  values'[p] = ParseBinary(disk, document.states[p[1]], p[2], dir, cwd) /\ values'[p] # Refused
        <4>1. CASE p = <<at, kind>>
          BY <1>9, <2>2, <2>3, <4>1
        <4>2. CASE p # <<at, kind>>
          BY <1>1, <2>3, <3>1, <4>2 DEF IInv, Fresh
        <4> QED
          BY <4>1, <4>2
      <3> QED
        BY <1>1, <1>3, <1>4, <3>1 DEF Fresh
    <2>8. Refusal'
      BY <1>1, <2>1 DEF Refusal
    <2> QED
      BY <1>4, <2>4, <2>5, <2>6, <2>7, <2>8 DEF IInv
  <1> QED
    BY <1>8, <1>9

\* A verdict asks about the state at hand.
LEMMA AtHand ==
  ASSUME IInv, Reading("lazy"), sources # None
  PROVE  /\ stage = "reading" /\ tool = "lazy" /\ at \in DOMAIN document.states /\ at \in Nat \ {0}
         /\ sources = SourcesOf(document, dir, at) /\ sources # Refused
         /\ \A p \in DOMAIN values \cup DOMAIN material : p \in (DOMAIN rows \cup {at}) \X Kinds
         /\ \A r \in DOMAIN rows : r \in DOMAIN document.states /\ SourcesOf(document, dir, r) # Refused
  BY DEF Reading, IInv, Asked

LEMMA ExtractKeeps ==
  ASSUME IInv, ExtractTiming
  PROVE  IInv'
  <1>1. /\ stage = "reading" /\ tool = "lazy" /\ at \in DOMAIN document.states /\ sources = None
        /\ UNCHANGED <<tool, dir, cwd, document, script>> /\ Still
    BY DEF ExtractTiming, Reading, InDocument, Opened
  <1>2. OnDisk' /\ UNCHANGED <<disk, steady, discards>>
    BY <1>1, StillOnDisk DEF IInv
  <1>3. PICK extracted : extracted = SourcesOf(document, dir, at)
    OBVIOUS
  <1>4. \/ at' = at + 1 /\ UNCHANGED <<stage, sources, values, material, rows>>
        \/ extracted = Refused /\ stage' = "refused" /\ UNCHANGED <<at, sources, values, material, rows>>
        \/ extracted # Refused /\ sources' = extracted /\ UNCHANGED <<stage, at, values, material, rows>>
    BY <1>3 DEF ExtractTiming, Refuse, Findings, SourcesOf, State
  <1>5. /\ UNCHANGED <<values, material, rows>> /\ stage' \in {"reading", "refused"} /\ at \in Nat \ {0}
        /\ at' \in Nat \ {0}
    BY <1>1, <1>4 DEF IInv, Asked
  <1>6. Reads'
    BY <1>1, <1>2, <1>5, ReadingHasDocument DEF Reads
  <1>7. Asked'
    <2>1. /\ \A p \in DOMAIN values \cup DOMAIN material : p \in (DOMAIN rows) \X Kinds
          /\ \A r \in DOMAIN rows : r \in DOMAIN document.states /\ SourcesOf(document, dir, r) # Refused
          /\ script = None
      BY <1>1, ReadingHasDocument DEF IInv, Asked
    <2>2. sources' # None => at' \in DOMAIN document'.states /\ sources' = SourcesOf(document', dir', at') /\ sources' # Refused
      BY <1>1, <1>3, <1>4
    <2>3. \A p \in DOMAIN values' \cup DOMAIN material' :
            p \in (DOMAIN rows' \cup (IF sources' = None THEN {} ELSE {at'})) \X Kinds
      BY <1>5, <2>1
    <2> QED
      BY <1>1, <1>5, <2>1, <2>2, <2>3 DEF Asked
  <1>8. Lengths' /\ (steady' => Fresh')
    BY <1>1, <1>2, <1>5 DEF IInv, Lengths, Fresh
  <1>9. Refusal'
    BY <1>1, <1>3, <1>4 DEF Refusal
  <1> QED
    BY <1>2, <1>6, <1>7, <1>8, <1>9 DEF IInv

LEMMA PayloadKeeps ==
  ASSUME IInv, NEW kind \in Kinds, AsksForPayload(kind)
  PROVE  IInv'
  <1>1. /\ Reading("lazy") /\ sources # None
        /\ material' = Keep(material, kind, has_material_bulk_source(disk, sources[kind]))
        /\ UNCHANGED <<tool, dir, cwd, document, stage, at, sources, values, rows, script>> /\ Still
    BY DEF AsksForPayload, Opened
  <1>2. OnDisk' /\ UNCHANGED <<disk, steady, discards>>
    BY <1>1, StillOnDisk DEF IInv
  <1>3. /\ stage = "reading" /\ tool = "lazy" /\ at \in DOMAIN document.states
        /\ sources = SourcesOf(document, dir, at) /\ sources # Refused
        /\ \A p \in DOMAIN values \cup DOMAIN material : p \in (DOMAIN rows \cup {at}) \X Kinds
    BY <1>1, AtHand
  <1>4. PICK answer : answer = has_material_bulk_source(disk, sources[kind])
    OBVIOUS
  <1>5. /\ DOMAIN material' = DOMAIN material \cup {<<at, kind>>}
        /\ \A p \in DOMAIN material' : material'[p] = IF p = <<at, kind>> THEN answer ELSE material[p]
    BY <1>1, <1>4 DEF Keep
  <1>6. Reads'
    BY <1>1, <1>2, <1>3, ReadingHasDocument DEF Reads
  <1>7. Asked'
    <2>1. \A p \in DOMAIN values' \cup DOMAIN material' : p \in (DOMAIN rows' \cup {at'}) \X Kinds
      BY <1>1, <1>3, <1>5
    <2> QED
      BY <1>1, <1>3, <2>1 DEF IInv, Asked
  <1>8. Lengths'
    BY <1>1 DEF IInv, Lengths
  <1>9. steady' => Fresh'
    <2>1. ASSUME steady, NEW p \in DOMAIN material'
          PROVE  material'[p] = has_material_bulk_source(disk, SourcesOf(document, dir, p[1])[p[2]])
      <3>1. CASE p = <<at, kind>>
        BY <1>3, <1>4, <1>5, <3>1
      <3>2. CASE p # <<at, kind>>
        BY <1>3, <1>5, <2>1, <3>2 DEF IInv, Fresh
      <3> QED
        BY <3>1, <3>2
    <2> QED
      BY <1>1, <1>2, <1>3, <2>1 DEF IInv, Fresh
  <1>10. Refusal'
    BY <1>1, <1>3 DEF Refusal
  <1> QED
    BY <1>2, <1>6, <1>7, <1>8, <1>9, <1>10 DEF IInv

LEMMA ValuesKeep ==
  ASSUME IInv, NEW kind \in Kinds, AsksForValues(kind)
  PROVE  IInv'
  <1>1. PICK value : value = Values(disk, sources[kind])
    OBVIOUS
  <1>2. /\ Reading("lazy") /\ sources # None
        /\ IF value = Refused THEN Refuse
           ELSE values' = Keep(values, kind, value) /\ UNCHANGED <<stage, at, sources, material, rows>>
        /\ UNCHANGED <<tool, dir, cwd, document, script>> /\ Still
    BY <1>1 DEF AsksForValues, Opened
  <1>3. OnDisk' /\ UNCHANGED <<disk, steady, discards>>
    BY <1>2, StillOnDisk DEF IInv
  <1>4. /\ stage = "reading" /\ tool = "lazy" /\ at \in DOMAIN document.states
        /\ sources = SourcesOf(document, dir, at) /\ sources # Refused
        /\ \A p \in DOMAIN values \cup DOMAIN material : p \in (DOMAIN rows \cup {at}) \X Kinds
    BY <1>2, AtHand
  <1>5. PICK oks : IsDocument(document, oks) /\ dir \in Path
    BY <1>4, ReadingHasDocument
  <1>6. /\ value # Refused
        /\ Present(value) => value.length = document.plan.states[at].count
    <2>1. PICK source : source = sources[kind]
      OBVIOUS
    <2>2. source # None => source.count = document.plan.states[at].count
      BY <1>4, <1>5, <2>1, SourcesAre
    <2> QED
      BY <1>1, <2>1, <2>2, LazyLength
  <1>7. values' = Keep(values, kind, value) /\ UNCHANGED <<stage, at, sources, material, rows>>
    BY <1>2, <1>6
  <1>8. /\ DOMAIN values' = DOMAIN values \cup {<<at, kind>>}
        /\ \A p \in DOMAIN values' : values'[p] = IF p = <<at, kind>> THEN value ELSE values[p]
    BY <1>7 DEF Keep
  <1>9. Reads'
    BY <1>2, <1>3, <1>4, <1>7, ReadingHasDocument DEF Reads
  <1>10. Asked'
    <2>1. \A p \in DOMAIN values' \cup DOMAIN material' : p \in (DOMAIN rows' \cup {at'}) \X Kinds
      BY <1>4, <1>7, <1>8
    <2> QED
      BY <1>2, <1>4, <1>7, <2>1 DEF IInv, Asked
  <1>11. Lengths'
    <2>1. ASSUME NEW p \in DOMAIN values', Present(values'[p])
          PROVE  values'[p].length = document.plan.states[p[1]].count
      <3>1. CASE p = <<at, kind>>
        <4>1. values'[p] = value /\ p[1] = at
          BY <1>8, <3>1
        <4> QED
          BY <1>6, <2>1, <4>1
      <3>2. CASE p # <<at, kind>>
        BY <1>8, <2>1, <3>2 DEF IInv, Lengths
      <3> QED
        BY <3>1, <3>2
    <2> QED
      BY <1>2, <2>1 DEF Lengths
  <1>12. steady' => Fresh'
    <2>1. ASSUME steady, NEW p \in DOMAIN values'
          PROVE  values'[p] = Values(disk, SourcesOf(document, dir, p[1])[p[2]])
      <3>1. CASE p = <<at, kind>>
        BY <1>1, <1>4, <1>8, <3>1
      <3>2. CASE p # <<at, kind>>
        BY <1>4, <1>8, <2>1, <3>2 DEF IInv, Fresh
      <3> QED
        BY <3>1, <3>2
    <2> QED
      BY <1>2, <1>3, <1>4, <1>7, <2>1 DEF IInv, Fresh
  <1>13. Refusal'
    BY <1>4, <1>7 DEF Refusal
  <1> QED
    BY <1>3, <1>9, <1>10, <1>11, <1>12, <1>13 DEF IInv

LEMMA RowKeeps ==
  ASSUME IInv, NextRow
  PROVE  IInv'
  <1>1. /\ Reading("lazy") /\ sources # None
        /\ rows' = [r \in DOMAIN rows \cup {at} |->
                      IF r = at THEN make_bulk_debug_row(disk, sources) ELSE rows[r]]
        /\ sources' = None /\ at' = at + 1
        /\ UNCHANGED <<tool, dir, cwd, document, stage, values, material, script>> /\ Still
    BY DEF NextRow, Opened, Findings
  <1>2. OnDisk' /\ UNCHANGED <<disk, steady, discards>>
    BY <1>1, StillOnDisk DEF IInv
  <1>3. /\ stage = "reading" /\ tool = "lazy" /\ at \in DOMAIN document.states /\ at \in Nat \ {0}
        /\ sources = SourcesOf(document, dir, at) /\ sources # Refused
        /\ \A p \in DOMAIN values \cup DOMAIN material : p \in (DOMAIN rows \cup {at}) \X Kinds
        /\ \A r \in DOMAIN rows : r \in DOMAIN document.states /\ SourcesOf(document, dir, r) # Refused
    BY <1>1, AtHand
  <1>4. /\ DOMAIN rows' = DOMAIN rows \cup {at}
        /\ \A r \in DOMAIN rows' : rows'[r] = IF r = at THEN make_bulk_debug_row(disk, sources) ELSE rows[r]
    BY <1>1
  <1>5. Reads'
    BY <1>1, <1>2, <1>3, ReadingHasDocument DEF Reads
  <1>6. Asked'
    <2>1. \A p \in DOMAIN values' \cup DOMAIN material' : p \in (DOMAIN rows' \cup {}) \X Kinds
      BY <1>1, <1>3, <1>4
    <2>2. \A r \in DOMAIN rows' : r \in DOMAIN document'.states /\ SourcesOf(document', dir', r) # Refused
      BY <1>1, <1>3, <1>4
    <2>3. at' \in Nat \ {0}
      BY <1>1, <1>3
    <2>4. script' = None
      BY <1>1, <1>3, ReadingHasDocument
    <2> QED
      BY <1>1, <1>3, <2>1, <2>2, <2>3, <2>4 DEF Asked
  <1>7. Lengths'
    BY <1>1 DEF IInv, Lengths
  <1>8. steady' => Fresh'
    <2>1. ASSUME steady, NEW r \in DOMAIN rows'
          PROVE  rows'[r] = make_bulk_debug_row(disk, SourcesOf(document, dir, r))
      <3>1. CASE r = at
        BY <1>3, <1>4, <3>1
      <3>2. CASE r # at
        BY <1>3, <1>4, <2>1, <3>2 DEF IInv, Fresh
      <3> QED
        BY <3>1, <3>2
    <2>2. script' = None
      BY <1>1, <1>3, ReadingHasDocument
    <2> QED
      BY <1>1, <1>2, <1>3, <2>1, <2>2 DEF IInv, Fresh
  <1>9. Refusal'
    BY <1>1, <1>3 DEF Refusal
  <1> QED
    BY <1>2, <1>5, <1>6, <1>7, <1>8, <1>9 DEF IInv

LEMMA EndKeeps ==
  ASSUME IInv, EndReading
  PROVE  IInv'
  <1>1. /\ stage = "reading" /\ at \notin DOMAIN document.states /\ stage' = "done"
        /\ UNCHANGED <<tool, dir, cwd, document, at, sources, values, material, rows, script>> /\ Still
    BY DEF EndReading, Opened, Findings, InDocument
  <1>2. OnDisk' /\ UNCHANGED <<disk, steady, discards>>
    BY <1>1, StillOnDisk DEF IInv
  <1>3. Reads'
    BY <1>1, <1>2, ReadingHasDocument DEF Reads
  <1>4. Asked' /\ Lengths'
    BY <1>1 DEF IInv, Asked, Lengths
  <1>5. steady' => Fresh'
    BY <1>1, <1>2 DEF IInv, Fresh
  <1>6. Refusal'
    BY <1>1 DEF Refusal
  <1> QED
    BY <1>2, <1>3, <1>4, <1>5, <1>6 DEF IInv

LEMMA ScriptKeeps ==
  ASSUME IInv, LoadBulkData
  PROVE  IInv'
  <1>1. /\ stage = "done" /\ tool = "lazy"
        /\ script' = [row \in DOMAIN rows |-> [kind \in Kinds |-> ScriptReads(disk, rows[row][kind])]]
        /\ UNCHANGED <<stage, tool, dir, cwd, document, at, sources, values, material, rows>> /\ Still
    BY DEF LoadBulkData, Opened, Findings
  <1>2. OnDisk' /\ UNCHANGED <<disk, steady, discards>>
    BY <1>1, StillOnDisk DEF IInv
  <1>3. Reads'
    BY <1>1, <1>2 DEF IInv, Reads
  <1>4. Asked' /\ Lengths'
    BY <1>1 DEF IInv, Asked, Lengths
  <1>5. steady' => Fresh'
    BY <1>1, <1>2 DEF IInv, Fresh
  <1>6. Refusal'
    BY <1>1 DEF Refusal
  <1> QED
    BY <1>2, <1>3, <1>4, <1>5, <1>6 DEF IInv


LEMMA InitialIInv ==
  ASSUME Init
  PROVE  IInv
  <1>1. /\ disk = [p \in {} |-> None] /\ phase = "idle" /\ run = 0
        /\ stage = "idle" /\ tool = None /\ document = None /\ at = 1
        /\ sources = None /\ values = NoFiles /\ material = NoFiles /\ rows = NoFiles /\ script = None
        /\ steady = TRUE /\ discards = 0
    BY DEF Init, FilesInit
  <1>2. DOMAIN disk = {} /\ DOMAIN NoFiles = {}
    BY <1>1 DEF NoFiles
  <1>3. OnDisk
    BY <1>1, <1>2 DEF OnDisk, Filed, Programming
  <1>4. Reads
    BY <1>1 DEF Reads, NothingRead
  <1>5. \A p : p \notin DOMAIN rows /\ p \notin DOMAIN values /\ p \notin DOMAIN material
    BY <1>1, <1>2
  <1>6. Asked
    BY <1>1, <1>5 DEF Asked
  <1>7. Lengths /\ Fresh /\ Refusal
    BY <1>1, <1>5 DEF Lengths, Fresh, Refusal
  <1> QED
    BY <1>3, <1>4, <1>6, <1>7 DEF IInv

LEMMA ReadKeeps ==
  ASSUME IInv, Read
  PROVE  IInv'
  <1>1. CASE FromJson
    <2>1. PICK where \in Cwds : OpenWith("eager", where, [d \in Directories |-> read_json(disk, Json(d))])
      BY <1>1 DEF FromJson
    <2> QED
      BY <2>1, OpenWithKeeps
  <1>2. CASE ReadRoot
    <2>1. OpenWith("lazy", None, [d \in Directories |-> read_json(disk, Json(d))])
      BY <1>2 DEF ReadRoot, read_nvbench_json_root
    <2> QED
      BY <2>1, OpenWithKeeps
  <1>3. CASE ParseSamples
    <2>1. Reading("eager") /\ InDocument /\ EagerReads("samples") /\ "samples" \in Kinds
      BY <1>3 DEF ParseSamples, Kinds
    <2> QED
      BY <2>1, EagerReadsKeeps
  <1>4. CASE ParseFrequencies
    <2>1. Reading("eager") /\ InDocument /\ EagerReads("freqs") /\ "freqs" \in Kinds
          /\ <<at, "samples">> \in DOMAIN values
      BY <1>4 DEF ParseFrequencies, Kinds
    <2> QED
      BY <2>1, EagerReadsKeeps
  <1>5. CASE \E kind \in Kinds : AsksForPayload(kind) \/ AsksForValues(kind)
    BY <1>5, PayloadKeeps, ValuesKeep
  <1> QED
    BY <1>1, <1>2, <1>3, <1>4, <1>5, ExtractKeeps, RowKeeps, EndKeeps, ScriptKeeps DEF Read

LEMMA NextKeeps ==
  ASSUME IInv, [Next]_vars
  PROVE  IInv'
  <1>1. CASE RunsProgram
    <2>1. OnDisk'
      BY <1>1, ProgramKeeps DEF RunsProgram, user, IInv
    <2> QED
      BY <1>1, <2>1, DisturbKeeps DEF RunsProgram
  <1>2. CASE MoveDirectory \/ DiscardSidecar
    <2>1. OnDisk'
      BY <1>2, UserKeeps DEF IInv
    <2>2. Disturb
      BY <1>2 DEF MoveDirectory, DiscardSidecar
    <2> QED
      BY <2>1, <2>2, DisturbKeeps
  <1>3. CASE UNCHANGED vars
    <2>1. /\ UNCHANGED <<stage, tool, dir, cwd, document, at, sources, values, material, rows, script, steady>>
          /\ Still
      BY <1>3 DEF vars, reader, Still
    <2>2. OnDisk' /\ UNCHANGED <<disk, discards>>
      BY <2>1, StillOnDisk DEF IInv
    <2>3. Reads' /\ Asked' /\ Lengths'
      BY <2>1, <2>2 DEF IInv, Reads, Asked, Lengths, NothingRead
    <2>4. (steady' => Fresh') /\ Refusal'
      BY <2>1, <2>2 DEF IInv, Fresh, Refusal
    <2> QED
      BY <2>2, <2>3, <2>4 DEF IInv
  <1> QED
    BY <1>1, <1>2, <1>3, ReadKeeps DEF Next

LEMMA Invariance == Spec => []IInv
  <1>1. Init => IInv
    BY InitialIInv
  <1>2. IInv /\ [Next]_vars => IInv'
    BY NextKeeps
  <1> QED
    BY <1>1, <1>2, PTL DEF Spec

-----------------------------------------------------------------------------
(* What the invariant says of a reading *)

\* A document was read.
InHand == stage # "idle" /\ ~ (document = None /\ stage = "refused" /\ NothingRead)

LEMMA DocumentInHand ==
  ASSUME IInv
  PROVE  document # None \/ values # NoFiles => InHand
  BY DEF IInv, Reads, NothingRead, InHand

\* It is still there, and its files are.
LEMMA OnTheDisk ==
  ASSUME IInv, steady, InHand
  PROVE  /\ dir \in Directories /\ dir \in Path /\ tool \in {"eager", "lazy"}
         /\ Filed(disk, discards # 0) /\ Backed(disk, discards # 0, dir, document)
         /\ \E oks : IsDocument(document, oks)
  <1>1. /\ dir \in Directories /\ tool \in {"eager", "lazy"}
        /\ Json(dir) \in DOMAIN disk /\ disk[Json(dir)] = Document(document)
    BY DEF IInv, Reads, InHand
  <1>2. dir \in Path
    BY <1>1, DirectoryIsPath
  <1>3. PICK gone, files : gone = (discards # 0) /\ files = disk
    OBVIOUS
  <1>4. Filed(files, gone)
    BY <1>3 DEF IInv, OnDisk
  <1>5. IsResult(files, gone, dir, files[Json(dir)])
    BY <1>1, <1>2, <1>3, <1>4, FiledDocument
  <1>6. PICK doc : doc = document
    OBVIOUS
  <1>7. PICK content : content = Document(doc) /\ IsResult(files, gone, dir, content)
    BY <1>1, <1>3, <1>5, <1>6
  <1>8. content.type = "json" /\ content.document = doc
    BY <1>7 DEF Document
  <1>9. NotJson.type = "text"
    BY DEF NotJson
  <1>10. Backed(files, gone, dir, doc)
    BY <1>7, <1>8, <1>9 DEF IsResult
  <1>11. \E oks : IsDocument(doc, oks)
    BY <1>10 DEF Backed
  <1> QED
    BY <1>1, <1>2, <1>3, <1>4, <1>6, <1>10, <1>11

\* A file the document announces
LEMMA FileAnnounced ==
  ASSUME IInv, steady, InHand, NEW s \in DOMAIN document.states, NEW kind \in Kinds,
         document.states[s][kind] # None, document.states[s][kind] # Unwritten
  PROVE  \E i \in DOMAIN Sidecars(document.plan.states) :
           /\ Belongs(disk, discards # 0, dir, document.plan, i) /\ AnnouncedFile(document, s, kind, i)
           /\ SidecarAt(dir, document.plan, i) \in DOMAIN disk =>
                disk[SidecarAt(dir, document.plan, i)] = WholeFile(document.run, document.plan, i)
           /\ discards # 0 \/ SidecarAt(dir, document.plan, i) \in DOMAIN disk
  <1>1. PICK gone, files, doc : gone = (discards # 0) /\ files = disk /\ doc = document
    OBVIOUS
  <1>2. PICK d \in Directories : d = dir
    BY OnTheDisk
  <1>3. Filed(files, gone) /\ Backed(files, gone, d, doc)
    BY <1>1, <1>2, OnTheDisk
  <1>4. s \in DOMAIN doc.states /\ doc.states[s][kind] # None /\ doc.states[s][kind] # Unwritten
    BY <1>1
  <1>5. \E i \in DOMAIN Sidecars(doc.plan.states) :
           /\ Belongs(files, gone, d, doc.plan, i) /\ AnnouncedFile(doc, s, kind, i)
           /\ SidecarAt(d, doc.plan, i) \in DOMAIN files =>
                files[SidecarAt(d, doc.plan, i)] = WholeFile(doc.run, doc.plan, i)
           /\ gone \/ SidecarAt(d, doc.plan, i) \in DOMAIN files
    BY <1>3, <1>4, BackedFile
  <1> QED
    BY <1>1, <1>2, <1>5

\* The robust comparison refuses a result only for a file that was not written.
LEMMA LazyRefusal ==
  ASSUME IInv, document # None, tool = "lazy", stage = "refused"
  PROVE  ~ WholeDocument
  <1>1. PICK s \in DOMAIN document.states : SourcesOf(document, dir, s) = Refused
    BY DEF IInv, Refusal
  <1>2. dir \in Directories /\ \E oks : IsDocument(document, oks)
    BY DEF IInv, Reads, HasDocument
  <1>3. PICK oks : IsDocument(document, oks)
    BY <1>2
  <1>4. PICK d \in Path : d = dir
    BY <1>2, DirectoryIsPath
  <1>5. \E kind \in Kinds : document.states[s][kind] = Unwritten
    BY <1>1, <1>3, <1>4, SourcesAre
  <1> QED
    BY <1>5 DEF WholeDocument, Announced

\* What the verdicts have read of the robust comparison
LEMMA LazyRead ==
  ASSUME IInv, steady, tool = "lazy", InHand, NEW p \in DOMAIN values \cup DOMAIN material
  PROVE  /\ p[1] \in DOMAIN document.states /\ p[2] \in Kinds
         /\ p \in DOMAIN values => values[p] = Values(disk, SourcesOf(document, dir, p[1])[p[2]])
         /\ p \in DOMAIN material =>
              material[p] = has_material_bulk_source(disk, SourcesOf(document, dir, p[1])[p[2]])
         /\ SourcesOf(document, dir, p[1]) # Refused
         /\ document.states[p[1]][p[2]] = None => SourcesOf(document, dir, p[1])[p[2]] = None
         /\ document.states[p[1]][p[2]] # None =>
              /\ document.states[p[1]][p[2]] # Unwritten
              /\ SourcesOf(document, dir, p[1])[p[2]] = SourceAt(document, p[1], p[2], dir)
              /\ SourcesOf(document, dir, p[1])[p[2]] # None
  <1>1. p \in (DOMAIN rows \cup (IF sources = None THEN {} ELSE {at})) \X Kinds
    BY DEF IInv, Asked
  <1>2. p[2] \in Kinds /\ (p[1] \in DOMAIN rows \/ (sources # None /\ p[1] = at))
    BY <1>1
  <1>3. p[1] \in DOMAIN document.states /\ SourcesOf(document, dir, p[1]) # Refused
    BY <1>2 DEF IInv, Asked
  <1>4. Fresh
    BY DEF IInv
  <1>5. /\ p \in DOMAIN values => values[p] = Values(disk, SourcesOf(document, dir, p[1])[p[2]])
        /\ p \in DOMAIN material =>
              material[p] = has_material_bulk_source(disk, SourcesOf(document, dir, p[1])[p[2]])
    BY <1>4 DEF Fresh
  <1>6. PICK oks : IsDocument(document, oks)
    BY OnTheDisk
  <1>7. PICK s \in DOMAIN document.states, kind \in Kinds, d \in Path : s = p[1] /\ kind = p[2] /\ d = dir
    BY <1>2, <1>3, OnTheDisk
  <1>8. /\ SourcesOf(document, d, s) # Refused
        /\ document.states[s][kind] # Unwritten
    BY <1>3, <1>6, <1>7, SourcesAre
  <1>9. /\ document.states[s][kind] = None => SourcesOf(document, d, s)[kind] = None
        /\ document.states[s][kind] # None =>
              /\ SourcesOf(document, d, s)[kind] = SourceAt(document, s, kind, d)
              /\ SourcesOf(document, d, s)[kind] # None
    BY <1>6, <1>8, SourcesAre
  <1> QED
    BY <1>2, <1>3, <1>5, <1>7, <1>8, <1>9

\* A file in its place is read, and has payload.
LEMMA LazyInPlace ==
  ASSUME IInv, steady, tool = "lazy", InHand, NEW p \in DOMAIN values \cup DOMAIN material,
         document.states[p[1]][p[2]] # None,
         NEW i, AnnouncedFile(document, p[1], p[2], i), Belongs(disk, discards # 0, dir, document.plan, i),
         SidecarAt(dir, document.plan, i) \in DOMAIN disk,
         disk[SidecarAt(dir, document.plan, i)] = WholeFile(document.run, document.plan, i)
  PROVE  /\ p \in DOMAIN values => values[p] = Own(document, p[1], p[2])
         /\ p \in DOMAIN material => material[p]
  <1>1. PICK s \in DOMAIN document.states, kind \in Kinds : s = p[1] /\ kind = p[2]
    BY LazyRead
  <1>4. PICK gone, files, doc, d : gone = (discards # 0) /\ files = disk /\ doc = document /\ d = dir
    OBVIOUS
  <1>5. /\ Belongs(files, gone, d, doc.plan, i) /\ AnnouncedFile(doc, s, kind, i)
        /\ SidecarAt(d, doc.plan, i) \in DOMAIN files
        /\ files[SidecarAt(d, doc.plan, i)] = WholeFile(doc.run, doc.plan, i)
    BY <1>1, <1>4
  <1>6. /\ read_float32_binary(files, SourceAt(doc, s, kind, d)) = Own(doc, s, kind)
        /\ has_material_payload(files, SourceAt(doc, s, kind, d))
    BY <1>5, LazyOwn
  <1>7. PICK source : source = SourcesOf(document, dir, s)[kind]
    OBVIOUS
  <1>8. source = SourceAt(document, s, kind, dir) /\ source # None
    BY <1>1, <1>7, LazyRead
  <1>9. Values(disk, source) = Own(document, s, kind) /\ has_material_bulk_source(disk, source)
    BY <1>4, <1>6, <1>8 DEF Values, has_material_bulk_source
  <1> QED
    BY <1>1, <1>7, <1>9, LazyRead

\* What BenchmarkResult makes of an announced file
LEMMA EagerParsed ==
  ASSUME IInv, steady, discards = 0, InHand,
         InReach(document, dir, cwd),
         NEW s \in DOMAIN document.states, NEW kind \in Kinds
  PROVE  /\ document.states[s][kind] = None => ParseBinary(disk, document.states[s], kind, dir, cwd) = None
         /\ document.states[s][kind] = Unwritten => ParseBinary(disk, document.states[s], kind, dir, cwd) = Refused
         /\ document.states[s][kind] \notin {None, Unwritten} =>
              /\ ParseBinary(disk, document.states[s], kind, dir, cwd) = Own(document, s, kind)
              /\ Present(Own(document, s, kind))
              /\ Own(document, s, kind).length = document.plan.states[s].count
  <1>1. PICK state : state = document.states[s]
    OBVIOUS
  <1>2. CASE state[kind] = None
    BY <1>1, <1>2, NoValue DEF ParseBinary, parse_binary_meta
  <1>3. CASE state[kind] = Unwritten
    BY <1>1, <1>3, NoValue DEF ParseBinary, parse_binary_meta
  <1>4. CASE state[kind] # None /\ state[kind] # Unwritten
    <2>1. PICK i \in DOMAIN Sidecars(document.plan.states) :
            /\ Belongs(disk, discards # 0, dir, document.plan, i) /\ AnnouncedFile(document, s, kind, i)
            /\ SidecarAt(dir, document.plan, i) \in DOMAIN disk
            /\ disk[SidecarAt(dir, document.plan, i)] = WholeFile(document.run, document.plan, i)
      BY <1>1, <1>4, FileAnnounced
    <2>2. PICK gone, files, doc, d, where :
            gone = (discards # 0) /\ files = disk /\ doc = document /\ d = dir /\ where = cwd
      OBVIOUS
    <2>3. PICK oks : IsDocument(doc, oks)
      BY <2>2, OnTheDisk
    <2>4. state[kind] # Refused /\ Present(Own(doc, s, kind)) /\ Own(doc, s, kind).length = doc.plan.states[s].count
      BY <1>1, <2>1, <2>2, <2>3, AnnouncedIs, OwnIsPresent
    <2>5. /\ Belongs(files, gone, d, doc.plan, i) /\ AnnouncedFile(doc, s, kind, i)
          /\ SidecarAt(d, doc.plan, i) \in DOMAIN files
          /\ files[SidecarAt(d, doc.plan, i)] = WholeFile(doc.run, doc.plan, i)
          /\ InReach(doc, d, where)
      BY <2>1, <2>2
    <2>6. PICK meta : meta = state[kind]
      OBVIOUS
    <2>8. parse_float32_binary(files, meta, d, where) = Own(doc, s, kind)
      <3>1. PICK p, path : p = doc.plan /\ path = SidecarAt(d, p, i)
        OBVIOUS
      <3>2. Belongs(files, gone, d, p, i) /\ SidecarAt(d, p, i) \in DOMAIN files
        BY <2>5, <3>1
      <3>3. p.recorded = "json" \/ (d = p.dir /\ where = Cwd)
        BY <2>5, <3>1 DEF InReach
      <3>4. resolve_recorded_filename(files, d, where, summary_path(p, i)) = SidecarAt(d, p, i)
        BY <3>2, <3>3, EagerPlace
      <3>5. PICK c \in Nat : c = doc.plan.states[s].count
        BY <2>5 DEF AnnouncedFile
      <3>6. meta.filename = summary_path(p, i) /\ meta.size = c
        BY <1>1, <2>2, <2>5, <2>6, <3>1, <3>5 DEF AnnouncedFile
      <3>7. path \in DOMAIN files /\ files[path] = WholeFile(doc.run, doc.plan, i)
        BY <2>5, <3>1
      <3>8. /\ files[path].size % float32 = 0 /\ files[path].size \div float32 = c
            /\ Array(files[path], c) = Own(doc, s, kind)
        BY <2>5, <3>5, <3>7, WholeFileIs
      <3> QED
        BY <3>1, <3>4, <3>6, <3>7, <3>8 DEF parse_float32_binary
    <2>7. ParseBinary(files, state, kind, d, where) = parse_float32_binary(files, state[kind], d, where)
      BY <1>4, <2>4 DEF ParseBinary, parse_binary_meta
    <2> QED
      BY <1>1, <1>4, <2>2, <2>4, <2>6, <2>7, <2>8
  <1> QED
    BY <1>1, <1>2, <1>3, <1>4

LEMMA EagerRefusal ==
  ASSUME IInv, steady, discards = 0, document # None, InHand, tool = "eager", stage = "refused",
         InReach(document, dir, cwd)
  PROVE  ~ WholeDocument
  <1>1. SUFFICES ASSUME WholeDocument
                 PROVE  FALSE
    OBVIOUS
  <1>2. PICK s \in DOMAIN document.states, kind \in Kinds :
          \E samples \in {None, ParseBinary(disk, document.states[s], "samples", dir, cwd)} :
            samples # Refused /\ ParseKind(disk, document.states[s], kind, dir, cwd, samples) = Refused
    BY DEF IInv, Refusal
  <1>3. PICK samples \in {None, ParseBinary(disk, document.states[s], "samples", dir, cwd)} :
          samples # Refused /\ ParseKind(disk, document.states[s], kind, dir, cwd, samples) = Refused
    BY <1>2
  <1>4. \A k \in Kinds : document.states[s][k] # Unwritten
    BY <1>1 DEF WholeDocument, Announced
  <1>5. ASSUME NEW k \in Kinds
        PROVE  \/ ParseBinary(disk, document.states[s], k, dir, cwd) = None
               \/ /\ ParseBinary(disk, document.states[s], k, dir, cwd) # Refused
                  /\ ParseBinary(disk, document.states[s], k, dir, cwd).length = document.plan.states[s].count
    <2>1. PICK own : own = Own(document, s, k)
      OBVIOUS
    <2>2. \/ ParseBinary(disk, document.states[s], k, dir, cwd) = None
          \/ /\ ParseBinary(disk, document.states[s], k, dir, cwd) = own
             /\ Present(own) /\ own.length = document.plan.states[s].count
      BY <1>4, <2>1, EagerParsed
    <2> QED
      BY <2>2 DEF Present
  <1>6. "samples" \in Kinds
    BY DEF Kinds
  <1>7. samples = None \/ samples.length = document.plan.states[s].count
    BY <1>3, <1>5, <1>6
  <1>8. PICK value : value = ParseBinary(disk, document.states[s], kind, dir, cwd)
    OBVIOUS
  <1>9. value # Refused /\ (value = None \/ value.length = document.plan.states[s].count)
    BY <1>5, <1>8, NoValue
  <1>10. ~ Mismatched(samples, value)
    BY <1>7, <1>9 DEF Mismatched
  <1>11. ParseKind(disk, document.states[s], kind, dir, cwd, samples) = value
    BY <1>8, <1>10 DEF ParseKind
  <1> QED
    BY <1>3, <1>9, <1>11

LEMMA SamplesAreOwn ==
  ASSUME IInv
  PROVE  SamplesAreTheRunsOwn
  <1>1. ASSUME document # None, steady, discards = 0, Located
        PROVE  /\ stage = "refused" => ~ WholeDocument
               /\ \A s \in DOMAIN document.states, k \in Kinds :
                    (<<s, k>> \in DOMAIN values /\ Announced(s, k) # None)
                      => values[<<s, k>>] = Own(document, s, k)
    <2> InHand
      BY <1>1, DocumentInHand
    <2>1. tool \in {"eager", "lazy"}
      BY <1>1, OnTheDisk
    <2>2. CASE tool = "eager"
      <3>1. InReach(document, dir, cwd)
        BY <1>1, <2>2 DEF Located, InReach
      <3>2. ASSUME NEW s \in DOMAIN document.states, NEW k \in Kinds,
                   <<s, k>> \in DOMAIN values, document.states[s][k] # None
            PROVE  values[<<s, k>>] = Own(document, s, k)
        <4>1. PICK p \in DOMAIN values : p = <<s, k>>
          BY <3>2
        <4>2. values[p] = ParseBinary(disk, document.states[p[1]], p[2], dir, cwd) /\ values[p] # Refused
          BY <1>1, <2>2 DEF IInv, Fresh
        <4>3. p[1] = s /\ p[2] = k
          BY <4>1
        <4> QED
          BY <1>1, <3>1, <3>2, <4>1, <4>2, <4>3, EagerParsed
      <3>3. stage = "refused" => ~ WholeDocument
        BY <1>1, <2>2, <3>1, EagerRefusal
      <3> QED
        BY <3>2, <3>3 DEF Announced
    <2>3. CASE tool = "lazy"
      <3>1. ASSUME NEW s \in DOMAIN document.states, NEW k \in Kinds,
                   <<s, k>> \in DOMAIN values, document.states[s][k] # None
            PROVE  values[<<s, k>>] = Own(document, s, k)
        <4>1. PICK p \in DOMAIN values : p = <<s, k>> /\ p[1] = s /\ p[2] = k
          BY <3>1
        <4>2. document.states[p[1]][p[2]] # None /\ p \in DOMAIN values \cup DOMAIN material
          BY <3>1, <4>1
        <4>3. document.states[p[1]][p[2]] # Unwritten
          BY <1>1, <2>3, <4>2, LazyRead
        <4>4. document.states[s][k] # Unwritten
          BY <4>1, <4>3
        <4>5. values[p] = Own(document, p[1], p[2])
          <5>1. PICK i \in DOMAIN Sidecars(document.plan.states) :
                /\ Belongs(disk, discards # 0, dir, document.plan, i) /\ AnnouncedFile(document, s, k, i)
                /\ SidecarAt(dir, document.plan, i) \in DOMAIN disk
                /\ disk[SidecarAt(dir, document.plan, i)] = WholeFile(document.run, document.plan, i)
            BY <1>1, <3>1, <4>4, FileAnnounced
          <5>2. AnnouncedFile(document, p[1], p[2], i)
            BY <4>1, <5>1
          <5> QED
            BY <1>1, <2>3, <4>1, <4>2, <5>1, <5>2, LazyInPlace
        <4> QED
          BY <4>1, <4>5
      <3>2. stage = "refused" => ~ WholeDocument
        BY <1>1, <2>3, LazyRefusal
      <3> QED
        BY <3>1, <3>2 DEF Announced
    <2> QED
      BY <2>1, <2>2, <2>3
  <1>2. \A p \in DOMAIN values :
          Present(values[p]) => values[p].length = document.plan.states[p[1]].count
    BY DEF IInv, Lengths
  <1> QED
    BY <1>1, <1>2 DEF SamplesAreTheRunsOwn

LEMMA LastTwo ==
  ASSUME NEW g \in Path, NEW f \in Path, Len(f) = 2
  PROVE  SubSeq(g \o f, Len(g \o f) - 1, Len(g \o f)) = f
  <1>1. PICK n \in Nat : n = Len(g)
    BY DEF Path
  <1>2. PICK name : name = g \o f
    OBVIOUS
  <1>3. Len(name) = n + 2
    BY <1>1, <1>2, ConcatProperties DEF Path
  <1>4. SubSeq(name, n + 1, Len(name)) = f
    <2>1. \A d, t \in Path : Len(t) > 0 => SubSeq(d \o t, Len(d) + 1, Len(d \o t)) = t
      BY UnderIts
    <2>2. Len(f) > 0
      OBVIOUS
    <2>3. SubSeq(g \o f, Len(g) + 1, Len(g \o f)) = f
      BY <2>1, <2>2
    <2> QED
      BY <1>1, <1>2, <2>3
  <1>5. Len(name) - 1 = n + 1
    BY <1>1, <1>3
  <1> QED
    BY <1>2, <1>4, <1>5

LEMMA LostFileCosts ==
  ASSUME IInv
  PROVE  LostFileCostsOnlyItsState
  <1>1. SUFFICES ASSUME tool = "lazy", document # None, steady
                 PROVE  /\ stage = "refused" => ~ WholeDocument
                        /\ \A p \in DOMAIN values :
                             (Announced(p[1], p[2]) # None /\ InPlace(p[1], p[2]))
                               => values[p] = Own(document, p[1], p[2])
    BY DEF LostFileCostsOnlyItsState
  <1> InHand
    BY <1>1, DocumentInHand
  <1>2. ASSUME NEW p \in DOMAIN values, document.states[p[1]][p[2]] # None, InPlace(p[1], p[2])
        PROVE  values[p] = Own(document, p[1], p[2])
    <2>1. PICK s \in DOMAIN document.states, kind \in Kinds : s = p[1] /\ kind = p[2]
      BY <1>1, LazyRead
    <2>2. document.states[s][kind] # None /\ document.states[s][kind] # Unwritten
      BY <1>1, <1>2, <2>1, LazyRead
    <2>3. PICK i \in DOMAIN Sidecars(document.plan.states) :
            /\ Belongs(disk, discards # 0, dir, document.plan, i) /\ AnnouncedFile(document, s, kind, i)
            /\ SidecarAt(dir, document.plan, i) \in DOMAIN disk =>
                 disk[SidecarAt(dir, document.plan, i)] = WholeFile(document.run, document.plan, i)
      BY <1>1, <2>2, FileAnnounced
    <2>4. PICK plan_, name, f : /\ plan_ = document.plan /\ name = document.states[s][kind].filename
                                /\ f = FileName(Sidecars(plan_.states), i)
      OBVIOUS
    <2>5. plan_ \in Plans /\ i \in DOMAIN Sidecars(plan_.states)
      BY <2>3, <2>4 DEF Belongs
    <2>6. PICK g \in Path : g = Lead(plan_)
      BY <2>5, LeadParts
    <2>7. f \in Path /\ Len(f) = 2
      BY <2>4, <2>5, FileNames DEF IsSidecar
    <2>8. name = g \o f
      <3>1. name = summary_path(plan_, i)
        BY <2>3, <2>4 DEF AnnouncedFile
      <3> QED
        BY <2>4, <2>5, <2>6, <3>1, SummaryPath
    <2>9. SubSeq(name, Len(name) - 1, Len(name)) = f
      BY <2>7, <2>8, LastTwo
    <2>10. dir \o f \in DOMAIN disk
      BY <1>2, <2>1, <2>4, <2>9 DEF InPlace, Announced
    <2>11. SidecarAt(dir, document.plan, i) \in DOMAIN disk
      BY <2>4, <2>10 DEF SidecarAt
    <2>12. AnnouncedFile(document, p[1], p[2], i)
      BY <2>1, <2>3
    <2> QED
      BY <1>1, <1>2, <2>3, <2>11, <2>12, LazyInPlace
  <1> QED
    BY <1>1, <1>2, LazyRefusal DEF Announced

\* Whatever file the robust comparison finds for a source, its size is a number.
LEMMA LazySource ==
  ASSUME IInv, steady, tool = "lazy", InHand, NEW s \in DOMAIN document.states, NEW kind \in Kinds,
         document.states[s][kind] # None, document.states[s][kind] # Unwritten,
         NEW source, source = SourceAt(document, s, kind, dir)
  PROVE  /\ resolve_binary_filename(disk, source) \in Path
         /\ resolve_binary_filename(disk, source) \in DOMAIN disk =>
              disk[resolve_binary_filename(disk, source)].size \in Nat
         /\ source.count \in Nat \ {0}
  <1>1. PICK i \in DOMAIN Sidecars(document.plan.states) :
          Belongs(disk, discards # 0, dir, document.plan, i) /\ AnnouncedFile(document, s, kind, i)
    BY FileAnnounced
  <1>2. PICK gone, files, d, p : gone = (discards # 0) /\ files = disk /\ d = dir /\ p = document.plan
    OBVIOUS
  <1>4. Belongs(files, gone, d, p, i)
    BY <1>1, <1>2
  <1>5. source.json_dir = d /\ source.filename = summary_path(p, i) /\ source.count \in Nat \ {0}
    BY <1>1, <1>2 DEF SourceAt, AnnouncedFile
  <1>6. /\ resolve_binary_filename(files, source) \in Path
        /\ resolve_binary_filename(files, source) \in DOMAIN files =>
             IsBinary(files[resolve_binary_filename(files, source)])
    BY <1>4, <1>5, LazyFindsBinary
  <1> QED
    BY <1>2, <1>5, <1>6 DEF IsBinary

LEMMA PayloadAgrees ==
  ASSUME IInv
  PROVE  PayloadAndValuesAgree
  <1>1. SUFFICES ASSUME steady, NEW p \in DOMAIN values \cap DOMAIN material
                 PROVE  /\ Present(values[p]) => material[p]
                        /\ (material[p] /\ discards = 0) => Present(values[p])
    BY DEF PayloadAndValuesAgree
  <1>2. InHand /\ tool = "lazy"
    <2>1. values # NoFiles /\ material # NoFiles
      BY <1>1 DEF NoFiles
    <2>2. InHand
      BY <2>1, DocumentInHand
    <2>3. tool # "eager"
      BY <2>1 DEF IInv, Asked
    <2> QED
      BY <1>1, <2>2, <2>3, OnTheDisk
  <1>3. PICK s \in DOMAIN document.states, kind \in Kinds : s = p[1] /\ kind = p[2]
    BY <1>1, <1>2, LazyRead
  <1>4. PICK source : source = SourcesOf(document, dir, s)[kind]
    OBVIOUS
  <1>5. values[p] = Values(disk, source) /\ material[p] = has_material_bulk_source(disk, source)
    BY <1>1, <1>2, <1>3, <1>4, LazyRead
  <1>6. CASE document.states[s][kind] = None
    <2>1. source = None
      BY <1>1, <1>2, <1>3, <1>4, <1>6, LazyRead
    <2> QED
      BY <1>5, <2>1 DEF Values, has_material_bulk_source, Present
  <1>7. CASE document.states[s][kind] # None
    <2>1. /\ source = SourceAt(document, s, kind, dir) /\ source # None
          /\ document.states[s][kind] # Unwritten
      BY <1>1, <1>2, <1>3, <1>4, <1>7, LazyRead
    <2>2. PICK path : path = resolve_binary_filename(disk, source)
      OBVIOUS
    <2>3. (path \in DOMAIN disk => disk[path].size \in Nat) /\ source.count \in Nat \ {0}
      BY <1>1, <1>2, <1>7, <2>1, <2>2, LazySource
    <2>4. Present(values[p]) => material[p]
      <3>1. SUFFICES ASSUME values[p] # None
                     PROVE  has_material_payload(disk, source)
        BY <1>5, <2>1 DEF Present, has_material_bulk_source
      <3>2. path \in DOMAIN disk /\ disk[path].size \div float32 = source.count
        BY <1>5, <2>1, <2>2, <3>1 DEF Values, read_float32_binary
      <3>3. \A n, c \in Nat : n \div 4 = c /\ c > 0 => n > 0
        OBVIOUS
      <3>4. disk[path].size > 0 /\ source.count > 0
        BY <2>3, <3>2, <3>3 DEF float32
      <3> QED
        BY <2>2, <3>2, <3>4 DEF has_material_payload
    <2>5. discards = 0 => Present(values[p])
      <3>1. SUFFICES ASSUME discards = 0
                     PROVE  Present(values[p])
        OBVIOUS
      <3>2. PICK i \in DOMAIN Sidecars(document.plan.states) :
              /\ Belongs(disk, discards # 0, dir, document.plan, i) /\ AnnouncedFile(document, s, kind, i)
              /\ SidecarAt(dir, document.plan, i) \in DOMAIN disk
              /\ disk[SidecarAt(dir, document.plan, i)] = WholeFile(document.run, document.plan, i)
        BY <1>1, <1>2, <1>7, <2>1, <3>1, FileAnnounced
      <3>3. AnnouncedFile(document, p[1], p[2], i) /\ document.states[p[1]][p[2]] # None
        BY <1>3, <1>7, <3>2
      <3>4. values[p] = Own(document, p[1], p[2])
        BY <1>1, <1>2, <3>2, <3>3, LazyInPlace
      <3>5. PICK oks : IsDocument(document, oks)
        BY <1>1, <1>2, OnTheDisk
      <3>6. Present(Own(document, s, kind))
        BY <3>2, <3>5, OwnIsPresent
      <3> QED
        BY <1>3, <3>4, <3>6
    <2> QED
      BY <2>4, <2>5
  <1> QED
    BY <1>6, <1>7

LEMMA ScriptLoads ==
  ASSUME IInv
  PROVE  ScriptLoadsWhatWasCompared
  <1>1. SUFFICES ASSUME script # None, steady, NEW p \in DOMAIN values, Present(values[p])
                 PROVE  script[p[1]][p[2]] = values[p]
    BY DEF ScriptLoadsWhatWasCompared
  <1>2. InHand /\ tool = "lazy" /\ stage = "done"
    <2>1. values # NoFiles
      BY <1>1 DEF NoFiles
    <2> QED
      BY <1>1, <2>1, DocumentInHand DEF IInv, Asked
  <1>3. PICK s \in DOMAIN document.states, kind \in Kinds : s = p[1] /\ kind = p[2]
    BY <1>1, <1>2, LazyRead
  <1>4. PICK source : source = SourcesOf(document, dir, s)[kind]
    OBVIOUS
  <1>5. values[p] = Values(disk, source) /\ Present(values[p])
    BY <1>1, <1>2, <1>3, <1>4, LazyRead
  <1>6. values[p] # None /\ source # None /\ values[p] = read_float32_binary(disk, source)
    BY <1>5 DEF Present, Values
  <1>7. document.states[s][kind] # None /\ document.states[s][kind] # Unwritten /\ source = SourceAt(document, s, kind, dir)
    BY <1>1, <1>2, <1>3, <1>4, <1>6, LazyRead
  <1>8. PICK path \in Path : path = resolve_binary_filename(disk, source)
    BY <1>1, <1>2, <1>7, LazySource
  <1>9. path # None
    BY NoValue
  <1>10. /\ path \in DOMAIN disk /\ ~ (disk[path].size \div float32 # source.count)
         /\ values[p] = Array(disk[path], source.count)
    BY <1>6, <1>8 DEF read_float32_binary
  <1>11. s \in DOMAIN rows
    <2>1. sources = None /\ p \in (DOMAIN rows \cup {}) \X Kinds
      BY <1>1, <1>2 DEF IInv, Asked
    <2> QED
      BY <1>3, <2>1
  <1>12. PICK row : row = rows[s] /\ row = make_bulk_debug_row(disk, SourcesOf(document, dir, s))
    BY <1>1, <1>2, <1>11 DEF IInv, Fresh
  <1>13. row[kind].filename = path /\ row[kind].count = source.count
    <2>1. kind \in {"samples", "freqs"}
      BY DEF Kinds
    <2>2. row[kind] = [filename |-> resolve_bulk_source_filename(disk, source), count |-> source.count]
      BY <1>4, <1>6, <1>12, <2>1 DEF make_bulk_debug_row
    <2> QED
      BY <1>6, <1>8, <2>2 DEF resolve_bulk_source_filename
  <1>14. script[s][kind] = ScriptReads(disk, row[kind])
    <2>1. script = [r \in DOMAIN rows |-> [k \in Kinds |-> ScriptReads(disk, rows[r][k])]]
      BY <1>1, <1>2 DEF IInv, Fresh
    <2> QED
      BY <1>11, <1>12, <2>1
  <1>15. ScriptReads(disk, row[kind]) = Array(disk[path], source.count)
    BY <1>9, <1>10, <1>13 DEF ScriptReads
  <1> QED
    BY <1>3, <1>10, <1>14, <1>15

-----------------------------------------------------------------------------
(* Theorems *)

\* Whatever programs write the files and end in the middle of them, and wherever
\* directories are moved: a reading of files that are still gives every state the
\* samples of the run that wrote the document, all of them, and refuses only a
\* result whose files were not all written; and no reading ever gives an array of
\* another length than announced.
THEOREM ReadsTheRunsOwn == Spec => []SamplesAreTheRunsOwn
  BY Invariance, SamplesAreOwn, PTL

\* In the robust comparison a file that was deleted costs no more than the values
\* of its own state: those that are in their places are read.
THEOREM LossesStayTheirs == Spec => []LostFileCostsOnlyItsState
  BY Invariance, LostFileCosts, PTL

\* Values the robust comparison can read are never taken for absent payload, and
\* unless a file was deleted payload that is found can be read.
THEOREM PayloadMeansValues == Spec => []PayloadAndValuesAgree
  BY Invariance, PayloadAgrees, PTL

\* The debug script finds on the same disk the arrays the verdicts were made from.
THEOREM ScriptFindsTheSameArrays == Spec => []ScriptLoadsWhatWasCompared
  BY Invariance, ScriptLoads, PTL
=============================================================================
