----------------------------- MODULE VersionSet -----------------------------
(***************************************************************************)
(* The levels of table files of the LevelDB storage engine and how inputs   *)
(* of compactions are chosen (db/version_set.cc).  A version maps each      *)
(* level to its set of files; file sizes are numbers of entries.            *)
(***************************************************************************)
EXTENDS InternalKey, FiniteSets

CONSTANTS
  NumLevels,                   \* config::kNumLevels
  MaxMemCompactLevel,          \* config::kMaxMemCompactLevel
  L0CompactionTrigger,         \* config::kL0_CompactionTrigger
  MaxBytesForLevel,            \* entries a level above 0 may hold before it is compacted
  MaxOutputFileSize,           \* entries at which an output of a compaction is full
  ExpandedCompactionByteSizeLimit, \* entries an enlarged compaction may read
  MaxGrandParentOverlapBytes   \* entries two levels down an output may overlap

ASSUME VersionSetAssumption ==
  /\ NumLevels \in Nat /\ NumLevels > 1
  /\ MaxMemCompactLevel \in 0..(NumLevels - 1)
  /\ L0CompactionTrigger \in Nat \ {0}
  /\ MaxBytesForLevel \in Nat \ {0}
  /\ MaxOutputFileSize \in Nat \ {0}
  /\ ExpandedCompactionByteSizeLimit \in Nat
  /\ MaxGrandParentOverlapBytes \in Nat

Levels == 0..(NumLevels - 1)

EmptyVersion == [l \in Levels |-> {}]

SmallestKey(E) == CHOOSE e \in E : \A d \in E : AtOrBefore(e, d)
LargestKey(E)  == CHOOSE e \in E : \A d \in E : AtOrBefore(d, e)

\* FileMetaData, with the entries of the table.
File(n, E) ==
  [number |-> n, entries |-> E, smallest |-> SmallestKey(E), largest |-> LargestKey(E)]

EntriesOf(F) == UNION {f.entries : f \in F}

TotalFileSize(F) == Cardinality(EntriesOf(F))

\* [lo, hi] are the user keys GetRange finds for a non-empty set of files.
RangeOf(F) ==
  [lo |-> SmallestKey({f.smallest : f \in F}).key,
   hi |-> LargestKey({f.largest : f \in F}).key]

Overlaps(f, r) == f.largest.key >= r.lo /\ f.smallest.key <= r.hi

OverlapInLevel(v, l, r) == \E f \in v[l] : Overlaps(f, r)

-----------------------------------------------------------------------------
\* Reads

\* The one file of a sorted level that may hold what a seek to <<k, s>> finds:
\* the first whose largest key is not before it, if it does not start after k.
FindFile(v, l, k, s) ==
  LET target == [key |-> k, seq |-> s]
      candidates == {f \in v[l] : f.smallest.key <= k /\ ~Before(f.largest, target)}
  IN  {f \in candidates : \A g \in candidates : AtOrBefore(f.smallest, g.smallest)}

\* What a level has for <<k, s>>: in level 0 the newest file with an entry counts.
FoundIn(v, l, k, s) ==
  LET hits == {f \in v[0] : Newest(f.entries, k, s) # {}}
      file == IF l = 0 THEN {f \in hits : \A g \in hits : g.number <= f.number}
                       ELSE FindFile(v, l, k, s)
  IN  UNION {Newest(f.entries, k, s) : f \in file}

\* Version::Get: the first level with an entry answers.
GetFrom(v, k, s) ==
  LET From[l \in 0..NumLevels] ==
        IF l = NumLevels THEN {}
        ELSE LET found == FoundIn(v, l, k, s) IN IF found = {} THEN From[l + 1] ELSE found
  IN  From[0]

\* The files a seek to <<k, s>> may have to read, with their levels.
Candidates(v, k, s) ==
  {<<0, f>> : f \in {g \in v[0] : Overlaps(g, [lo |-> k, hi |-> k])}} \cup
  UNION {{<<l, f>> : f \in FindFile(v, l, k, s)} : l \in Levels \ {0}}

\* A Get that reads a second file charges a seek to the first one it read.
SeekFile(v, k, s) ==
  LET files == Candidates(v, k, s)
  IN  {c \in files : /\ Newest(c[2].entries, k, s) = {}
                     /\ files # {c}
                     /\ \A d \in files : \/ c[1] < d[1]
                                         \/ c[1] = d[1] /\ d[2].number <= c[2].number}

-----------------------------------------------------------------------------
\* Inputs of compactions

\* What a search within S finds that goes on from what it has found: the least
\* set to which a further step adds nothing.
Search(S, Step(_)) == {f \in S : \A T \in SUBSET S : Step(T) \subseteq T => f \in T}

\* All files of a level that overlap a range; in level 0 also those that overlap
\* a file found so far (the search starts again with the larger range).
GetOverlappingInputs(v, l, r) ==
  LET overlapping == {f \in v[l] : Overlaps(f, r)}
      further(T)  == overlapping \cup {f \in v[l] : \E g \in T : Overlaps(f, RangeOf({g}))}
  IN  IF l = 0 THEN Search(v[0], further) ELSE overlapping

FindLargestKey(F) == LargestKey({f.largest : f \in F})

\* Files of a level that start with the user key at which the inputs end, but
\* after it: older entries of the same key.
BoundaryFiles(v, l, largest) ==
  {f \in v[l] : Before(largest, f.smallest) /\ f.smallest.key = largest.key}

FindSmallestBoundaryFile(v, l, largest) ==
  {f \in BoundaryFiles(v, l, largest) :
     \A g \in BoundaryFiles(v, l, largest) : AtOrBefore(f.smallest, g.smallest)}

\* Mutant: older entries of the last user key are left behind.
NoBoundaryInputs(v, l, F) == F

AddBoundaryInputs(v, l, F) ==
  LET further(T) == FindSmallestBoundaryFile(v, l, FindLargestKey(F))
                      \cup UNION {FindSmallestBoundaryFile(v, l, g.largest) : g \in T}
  IN  IF F = {} THEN F ELSE F \cup Search(v[l], further)

\* SetupOtherInputs: the inputs of level l and of level l + 1, after an attempt
\* to take more of level l without taking more of level l + 1.
SetupOtherInputs(v, l, F) ==
  LET inputs0   == AddBoundaryInputs(v, l, F)
      inputs1   == GetOverlappingInputs(v, l + 1, RangeOf(inputs0))
      all       == RangeOf(inputs0 \cup inputs1)
      expanded0 == AddBoundaryInputs(v, l, GetOverlappingInputs(v, l, all))
      expanded1 == GetOverlappingInputs(v, l + 1, RangeOf(expanded0))
      grow      == /\ inputs1 # {}
                   /\ Cardinality(expanded0) > Cardinality(inputs0)
                   /\ TotalFileSize(inputs1) + TotalFileSize(expanded0)
                        < ExpandedCompactionByteSizeLimit
                   /\ Cardinality(expanded1) = Cardinality(inputs1)
  IN  [level |-> l,
       in0   |-> IF grow THEN expanded0 ELSE inputs0,
       in1   |-> IF grow THEN expanded1 ELSE inputs1]

InputsOf(c) == c.in0 \cup c.in1

Grandparents(v, c) ==
  IF c.level + 2 \in Levels
  THEN GetOverlappingInputs(v, c.level + 2, RangeOf(InputsOf(c)))
  ELSE {}

IsTrivialMove(v, c) ==
  /\ Cardinality(c.in0) = 1 /\ c.in1 = {}
  /\ TotalFileSize(Grandparents(v, c)) <= MaxGrandParentOverlapBytes

\* Mutant: the search starts a level too far down.
BaseLevelKeysFurtherDown(v, c, Keys) ==
  {k \in Keys : \A l \in Levels : l > c.level + 2 =>
                   ~OverlapInLevel(v, l, [lo |-> k, hi |-> k])}

\* The user keys for which there is no file below the output of c.
BaseLevelKeys(v, c, Keys) ==
  {k \in Keys : \A l \in Levels : l >= c.level + 2 =>
                   ~OverlapInLevel(v, l, [lo |-> k, hi |-> k])}

\* Finalize: the levels whose score asks for a compaction.
FullLevels(v) ==
  {l \in 0..(NumLevels - 2) :
     IF l = 0 THEN Cardinality(v[0]) >= L0CompactionTrigger
              ELSE TotalFileSize(v[l]) >= MaxBytesForLevel}

\* PickCompaction: a full level and any of its files (whichever follows the
\* level's compact pointer), else the file its readers have worn out.
PickCompaction(v, worn) ==
  LET picked == IF FullLevels(v) # {}
                THEN UNION {{<<l, f>> : f \in v[l]} : l \in FullLevels(v)}
                ELSE worn
      with(l, f) == IF l = 0 THEN GetOverlappingInputs(v, 0, RangeOf({f})) ELSE {f}
  IN  {SetupOtherInputs(v, p[1], with(p[1], p[2])) : p \in picked}

\* CompactRange over all keys: every file of level 0, or of another level the
\* first files in key order, until they reach the size limit.
CompactRange(v, l) ==
  LET upTo(f) == {g \in v[l] : AtOrBefore(g.smallest, f.smallest)}
      limited == {f \in v[l] : TotalFileSize(upTo(f) \ {f}) < MaxOutputFileSize}
      inputs  == IF l = 0 THEN v[0] ELSE limited
  IN  IF inputs = {} THEN {} ELSE {SetupOtherInputs(v, l, inputs)}

\* Where an output may end: when it is full, before that only to keep down the
\* files it overlaps two levels below (ShouldStopBefore), or at the last entry.
OutputsOf(c, todo) ==
  {part \in (SUBSET todo) \ {{}} :
     /\ \A d \in part, e \in todo \ part : Before(d, e)
     /\ Cardinality(part) <= MaxOutputFileSize
     /\ \/ Cardinality(part) = MaxOutputFileSize \/ part = todo
        \/ TotalFileSize(Grandparents(c.version, c)) > MaxGrandParentOverlapBytes}

-----------------------------------------------------------------------------
\* New versions

\* Mutant: the last level passed is not looked at.
PickLevelBelow(v, r) ==
  LET free(l) == ~OverlapInLevel(v, l, r)
      reached == {l \in 0..MaxMemCompactLevel : \A m \in 1..(l - 1) : free(m)}
  IN  IF OverlapInLevel(v, 0, r) THEN 0
      ELSE CHOOSE l \in reached : \A m \in reached : m <= l

\* The level a flushed memtable goes to: as far down as nothing in its range is
\* passed on the way.
PickLevelForMemTableOutput(v, r) ==
  LET free(l) == /\ ~OverlapInLevel(v, l, r)
                 /\ l + 1 \in Levels => TotalFileSize(GetOverlappingInputs(v, l + 1, r))
                                          <= MaxGrandParentOverlapBytes
      reached == {l \in 0..MaxMemCompactLevel : \A m \in 1..l : free(m)}
  IN  IF OverlapInLevel(v, 0, r) THEN 0
      ELSE CHOOSE l \in reached : \A m \in reached : m <= l

\* Builder::Apply and SaveTo: a version edit takes files out of levels and puts
\* files into levels.
ApplyEdit(v, edit) ==
  [l \in Levels |-> {f \in v[l] : <<l, f>> \notin edit.deleted}
                      \cup {p[2] : p \in {q \in edit.added : q[1] = l}}]

InputDeletions(c) ==
  {<<c.level, f>> : f \in c.in0} \cup {<<c.level + 1, f>> : f \in c.in1}

\* What SaveTo and MaybeAddFile assert of every level but the first.
LevelsAreSorted(v) ==
  \A l \in Levels \ {0} : \A f, g \in v[l] :
     f # g => Before(f.largest, g.smallest) \/ Before(g.largest, f.smallest)

FilesOf(v) == UNION {v[l] : l \in Levels}
=============================================================================
