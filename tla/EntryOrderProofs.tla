-------------------------- MODULE EntryOrderProofs --------------------------
(***************************************************************************)
(* The order a Get of DBImpl relies on: no older entry of a key lies above  *)
(* a newer one, neither in memory nor in the files.                         *)
(***************************************************************************)
EXTENDS DBImplProofs

-----------------------------------------------------------------------------
(* The order of the entries                                                *)

\* Every entry of E was written after every entry of D.
AllAbove(E, D) == \A e \in E, d \in D : e.seq > d.seq

\* No entry of E was written after sequence number s.
SeqsTo(E, s) == \A e \in E : e.seq <= s

\* The memtable that is being flushed.
Flushing == IF imm = None THEN {} ELSE imm

EntriesIn(v) == EntriesOf(FilesOf(v))

\* The version that the edit under way will make.
NewVersion == ApplyEdit(current, edit)

\* The records of the logs from number a on.
LogsFrom(L, a) == {n \in DOMAIN L : n >= a}

\* The entries of a record of a log.
RecordAt(L, n, i) == EntriesOfRecord(L[n].records[i])

\* The records of the logs from a on were written after E.
LogsAbove(L, a, E) ==
  \A n \in LogsFrom(L, a) : \A i \in DOMAIN L[n].records : AllAbove(RecordAt(L, n, i), E)

\* No record of the logs from a on has a number beyond s.
LogsTo(L, a, s) ==
  \A n \in LogsFrom(L, a) : \A i \in DOMAIN L[n].records : SeqsTo(RecordAt(L, n, i), s)

\* Later records, and those of later logs, were written later.
LogsInOrder(L, a) ==
  \A m, n \in LogsFrom(L, a) : \A i \in DOMAIN L[m].records, j \in DOMAIN L[n].records :
     m < n \/ (m = n /\ i < j) => AllAbove(RecordAt(L, n, j), RecordAt(L, m, i))

\* The sequence numbers used up once the record in the log is applied.
Reserved ==
  lastSequence + (IF group # None /\ group.phase # "logging" THEN Len(OpsOf(group.size)) ELSE 0)

\* After an error the background thread has nothing more to write to the MANIFEST.
Dead == up = "open" /\ bgError /\ flush = None /\ (durable \/ (compact = None /\ edit = None))

\* The memtables above the files, and the files in order.
MemAbove ==
  /\ AllAbove(mem, Flushing \cup EntriesIn(current)) /\ AllAbove(Flushing, EntriesIn(current))
  /\ SeqsTo(mem \cup Flushing \cup EntriesIn(current), lastSequence)
  /\ NewestFirst(current)

\* The version that the edit will make is in order, and below the logs it keeps.
EditAbove ==
  edit # None =>
    /\ NewestFirst(NewVersion) /\ SeqsTo(EntriesIn(NewVersion), edit.last)
    /\ LogsAbove(logs, edit.log, EntriesIn(NewVersion))
    /\ up = "open" /\ flush = None => EntriesIn(NewVersion) \subseteq EntriesIn(current)

\* The logs hold what the files do not.
LogsFollow ==
  up = "open" =>
    /\ LogsAbove(logs, logfileNumber, Flushing)
    /\ LogsAbove(logs, logNumber, EntriesIn(current))
    /\ LogsTo(logs, logNumber, Reserved) /\ LogsInOrder(logs, logNumber)

\* A MANIFEST that DB::Open will accept, or a process that writes no more of it.
Recoverable == manifest.state # "corrupt" /\ LevelsAreSorted(manifest.version) /\ ~Dead

\* What a recovery will find is in order.
ManifestAbove ==
  Recoverable =>
    /\ NewestFirst(manifest.version) /\ SeqsTo(EntriesIn(manifest.version), manifest.last)
    /\ LogsAbove(logs, manifest.log, EntriesIn(manifest.version)) /\ LogsInOrder(logs, manifest.log)
    /\ up = "open" => LogsTo(logs, manifest.log, Reserved)

\* A compaction leaves no entry in its level that is older than one it takes.
InputsNewest ==
  compact # None =>
    /\ compact.level \in Levels /\ compact.level + 1 \in Levels
    /\ compact.in0 \subseteq current[compact.level] /\ compact.in1 \subseteq current[compact.level + 1]
    /\ \A f \in current[compact.level] \ compact.in0 : AllNewer(f.entries, EntriesOf(compact.in0))
    /\ compact.todo \cup EntriesOf(compact.outputs) \subseteq EntriesOf(InputsOf(compact))

\* Counters, and the edit of a flush: true whatever errors there are.
LogIsLast == up # "closed" => \A n \in DOMAIN logs : n <= logfileNumber

LastCounts ==
  /\ up # "closed" => manifest.last <= lastSequence
  /\ edit # None => manifest.last <= edit.last /\ edit.last <= lastSequence
  /\ up # "open" => mem = {} /\ imm = None
  /\ up = "open" => logNumber <= logfileNumber
  /\ edit # None => /\ logNumber <= edit.log /\ edit.log <= logfileNumber
                    /\ up = "recovering" => edit.log = logfileNumber /\ edit.last = lastSequence
  /\ up = "recovering" => \A n \in LogsFrom(logs, logfileNumber) : logs[n].records = <<>>

\* The edit of a flush adds the table of the memtable, at the level the code picks.
FlushForm ==
  edit # None /\ flush # None =>
    /\ edit.deleted = {} /\ edit.log = logfileNumber
    /\ \A q \in edit.added : /\ imm # {} /\ q[2] = File(flush, imm)
                             /\ q[1] = PickLevelForMemTableOutput(current, RangeOf({q[2]}))

\* The number of a flush is above those of all files.
FlushIsNewest ==
  flush # None => /\ Below(FilesOf(current), flush)
                  /\ ~durable => Below(FilesOf(manifest.version), flush)

IsCopy(f, l) == f.entries = imm /\ l = PickLevelForMemTableOutput(current, RangeOf({f}))

\* What the MANIFEST has and the version has not are copies of the memtable.
OnlyCopies == \A l \in Levels : \A f \in manifest.version[l] \ current[l] : IsCopy(f, l)

\* A compaction still under way after an error of a flush.
GoesOnAfterError ==
  up = "open" /\ compact # None /\ imm # None /\ bgError /\ ~durable /\ manifest.state # "corrupt"

CopiesOnly == GoesOnAfterError => OnlyCopies

\* Errors come from faults.
ErrorsAreFaults == bgError => used.fault > 0

CountInv == LogIsLast /\ LastCounts /\ FlushForm /\ FlushIsNewest /\ CopiesOnly /\ ErrorsAreFaults

\* No process that has failed to write something has ended since.
NoErrorThenCrash == used.fault = 0 \/ used.crash = 0

Order == MemAbove /\ EditAbove /\ LogsFollow /\ ManifestAbove /\ InputsNewest

OrderInv == NoErrorThenCrash => Order

\* A version edit brings in no entries but those of the files it adds.
LEMMA EntriesOfEdit ==
  ASSUME NEW v, NEW e
  PROVE  EntriesIn(ApplyEdit(v, e)) \subseteq EntriesIn(v) \cup EntriesOf({p[2] : p \in e.added})
<1>1. FilesOf(ApplyEdit(v, e)) \subseteq FilesOf(v) \cup {p[2] : p \in e.added}
  BY ApplyEditFiles
<1> QED
  BY <1>1 DEF EntriesIn, EntriesOf

\* What is above by its sequence numbers is newer.
LEMMA AboveIsNewer ==
  ASSUME NEW E, NEW D, AllAbove(E, D)
  PROVE  AllNewer(E, D)
BY DEF AllAbove, AllNewer

\* Tables whose ranges are apart have no user key in common.
LEMMA ApartKeys ==
  ASSUME NEW f, NEW g, GoodTable(f), GoodTable(g), ~Overlaps(g, RangeOf({f}))
  PROVE  \A a \in f.entries, b \in g.entries : a.key # b.key
<1> SUFFICES ASSUME NEW a \in f.entries, NEW b \in g.entries PROVE a.key # b.key
  OBVIOUS
<1>1. g.largest.key < f.smallest.key \/ f.largest.key < g.smallest.key
  BY NoOverlap
<1>2. /\ IsEntry(a) /\ IsEntry(f.smallest) /\ IsEntry(f.largest)
      /\ AtOrBefore(f.smallest, a) /\ AtOrBefore(a, f.largest)
  BY TableRange
<1>3. /\ IsEntry(b) /\ IsEntry(g.smallest) /\ IsEntry(g.largest)
      /\ AtOrBefore(g.smallest, b) /\ AtOrBefore(b, g.largest)
  BY TableRange
<1>4. f.smallest.key <= a.key /\ a.key <= f.largest.key
  BY <1>2, EntryOrder
<1>5. g.smallest.key <= b.key /\ b.key <= g.largest.key
  BY <1>3, EntryOrder
<1> QED
  BY <1>1, <1>2, <1>3, <1>4, <1>5 DEF IsEntry

\* A table added to a version keeps its order if it is above all files, has no key
\* in common with the levels it passes, and has the highest number of level 0.
LEMMA AddedOnTop ==
  ASSUME NEW v, NEW e, NEW p \in Levels, NEW F, DOMAIN v = Levels,
         e.deleted = {}, \A q \in e.added : q[1] = p /\ q[2] = F,
         NewestFirst(v), F.number \in Nat,
         \A l \in Levels : \A f \in v[l] :
            AllAbove(F.entries, f.entries) \/ (l = 0 /\ p = 0 /\ f.entries = F.entries),
         \A l \in Levels : \A f \in v[l] :
            l < p => \A a \in F.entries, b \in f.entries : a.key # b.key,
         \A f \in v[0] : f.number \in Nat /\ f.number < F.number
  PROVE  NewestFirst(ApplyEdit(v, e))
<1> DEFINE w == ApplyEdit(v, e)
<1>1. \A l \in Levels : \A f \in w[l] : f \in v[l] \/ (l = p /\ f = F)
  BY DEF ApplyEdit
<1>2. 0 \in Levels /\ Levels \subseteq Nat
  BY VersionSetAssumption DEF Levels
<1> HIDE DEF w
<1>3. ASSUME NEW f \in w[0], NEW g \in w[0], f.number > g.number
      PROVE  f.entries = g.entries \/ AllNewer(f.entries, g.entries)
  <2>1. CASE f \in v[0] /\ g \in v[0]
    BY <1>3, <2>1 DEF NewestFirst
  <2>2. CASE f = F /\ p = 0 /\ g \in v[0]
    <3>1. AllAbove(F.entries, g.entries) \/ g.entries = F.entries
      BY <1>2, <2>2
    <3> QED
      BY <2>2, <3>1, AboveIsNewer
  <2>3. CASE f \in v[0] /\ g = F
    BY <1>3, <2>3
  <2>4. CASE f = F /\ g = F
    BY <1>3, <2>4
  <2> QED
    BY <1>1, <1>2, <2>1, <2>2, <2>3, <2>4
<1>4. ASSUME NEW l \in Levels, NEW m \in Levels, l < m PROVE AllNewer(EntriesOf(w[l]), EntriesOf(w[m]))
  <2> SUFFICES ASSUME NEW a \in EntriesOf(w[l]), NEW b \in EntriesOf(w[m]), a.key = b.key
               PROVE  a.seq > b.seq
    BY DEF AllNewer
  <2>1. PICK f \in w[l] : a \in f.entries
    BY DEF EntriesOf
  <2>2. PICK g \in w[m] : b \in g.entries
    BY DEF EntriesOf
  <2>3. CASE f \in v[l] /\ g \in v[m]
    <3>1. a \in EntriesOf(v[l]) /\ b \in EntriesOf(v[m])
      BY <2>1, <2>2, <2>3 DEF EntriesOf
    <3> QED
      BY <1>4, <3>1 DEF NewestFirst, AllNewer
  <2>4. CASE l = p /\ f = F /\ g \in v[m]
    <3>1. AllAbove(F.entries, g.entries)
      BY <1>2, <1>4, <2>4
    <3> QED
      BY <2>1, <2>2, <2>4, <3>1 DEF AllAbove
  <2>5. CASE f \in v[l] /\ m = p /\ g = F
    BY <1>4, <2>1, <2>2, <2>5
  <2> QED
    BY <1>1, <1>2, <1>4, <2>3, <2>4, <2>5
<1> QED
  BY <1>3, <1>4 DEF NewestFirst, w

\* A compaction moves entries of its inputs to the next level; it keeps the order if
\* the files it leaves in its level are newer.
LEMMA MovedDown ==
  ASSUME NEW v, NEW c, NEW O, NEW e, DOMAIN v = Levels, NewestFirst(v),
         e.deleted = InputDeletions(c), e.added = {<<c.level + 1, f>> : f \in O},
         c.level \in Levels, c.level + 1 \in Levels,
         c.in0 \subseteq v[c.level], c.in1 \subseteq v[c.level + 1],
         \A f \in v[c.level] \ c.in0 : AllNewer(f.entries, EntriesOf(c.in0)),
         EntriesOf(O) \subseteq EntriesOf(InputsOf(c))
  PROVE  NewestFirst(ApplyEdit(v, e)) /\ EntriesIn(ApplyEdit(v, e)) \subseteq EntriesIn(v)
<1> DEFINE w == ApplyEdit(v, e)
           n == c.level + 1
<1>0. 0 \in Levels /\ Levels \subseteq Nat /\ n # 0 /\ n > c.level
  BY VersionSetAssumption DEF Levels
<1>1. \A l \in Levels : \A f \in w[l] : (f \in v[l] /\ (l = c.level => f \notin c.in0)) \/ (l = n /\ f \in O)
  BY DEF ApplyEdit, InputDeletions
<1>2. \A a \in EntriesOf(O) : a \in EntriesOf(c.in0) \/ a \in EntriesOf(c.in1)
  BY DEF EntriesOf, InputsOf
<1>3. EntriesOf(c.in0) \subseteq EntriesOf(v[c.level]) /\ EntriesOf(c.in1) \subseteq EntriesOf(v[n])
  BY DEF EntriesOf
<1> HIDE DEF w
<1>4. ASSUME NEW l \in Levels, NEW m \in Levels, l < m PROVE AllNewer(EntriesOf(w[l]), EntriesOf(w[m]))
  <2> SUFFICES ASSUME NEW a \in EntriesOf(w[l]), NEW b \in EntriesOf(w[m]), a.key = b.key
               PROVE  a.seq > b.seq
    BY DEF AllNewer
  <2>1. PICK f \in w[l] : a \in f.entries
    BY DEF EntriesOf
  <2>2. PICK g \in w[m] : b \in g.entries
    BY DEF EntriesOf
  <2>3. \A i, j \in Levels : i < j => \A x \in EntriesOf(v[i]), y \in EntriesOf(v[j]) :
                                          x.key = y.key => x.seq > y.seq
    BY DEF NewestFirst, AllNewer
  <2>4. CASE f \in v[l] /\ g \in v[m]
    <3>1. a \in EntriesOf(v[l]) /\ b \in EntriesOf(v[m])
      BY <2>1, <2>2, <2>4 DEF EntriesOf
    <3> QED
      BY <1>4, <2>3, <3>1
  <2>5. CASE l = n /\ f \in O /\ g \in v[m]
    <3>1. a \in EntriesOf(O) /\ b \in EntriesOf(v[m])
      BY <2>1, <2>2, <2>5 DEF EntriesOf
    <3>2. a \in EntriesOf(v[c.level]) \/ a \in EntriesOf(v[n])
      BY <1>2, <1>3, <3>1
    <3>3. c.level < m /\ n < m
      <4>1. c.level \in Nat /\ m \in Nat /\ n < m
        BY <1>0, <1>4, <2>5
      <4> QED
        BY <4>1
    <3>4. \A y \in EntriesOf(v[m]) :
            /\ \A x \in EntriesOf(v[c.level]) : x.key = y.key => x.seq > y.seq
            /\ \A x \in EntriesOf(v[n]) : x.key = y.key => x.seq > y.seq
      BY <2>3, <3>3
    <3> QED
      BY <3>1, <3>2, <3>4
  <2>6. CASE f \in v[l] /\ (l = c.level => f \notin c.in0) /\ m = n /\ g \in O
    <3>1. b \in EntriesOf(O) /\ a \in EntriesOf(v[l])
      BY <2>1, <2>2, <2>6 DEF EntriesOf
    <3>2. CASE b \in EntriesOf(c.in1)
      BY <1>3, <1>4, <2>3, <2>6, <3>1, <3>2
    <3>3. CASE b \in EntriesOf(c.in0) /\ l = c.level
      <4>1. AllNewer(f.entries, EntriesOf(c.in0))
        BY <2>6, <3>3
      <4> QED
        BY <2>1, <3>3, <4>1 DEF AllNewer
    <3>4. CASE b \in EntriesOf(c.in0) /\ l # c.level
      <4>1. l < c.level
        BY <1>0, <1>4, <2>6, <3>4
      <4> QED
        BY <1>3, <2>3, <3>1, <3>4, <4>1
    <3> QED
      BY <1>2, <3>1, <3>2, <3>3, <3>4
  <2> QED
    BY <1>0, <1>1, <1>4, <2>4, <2>5, <2>6
<1>5. ASSUME NEW f \in w[0], NEW g \in w[0], f.number > g.number
      PROVE  f.entries = g.entries \/ AllNewer(f.entries, g.entries)
  <2>1. f \in v[0] /\ g \in v[0]
    BY <1>0, <1>1
  <2> QED
    BY <1>5, <2>1 DEF NewestFirst
<1>6. NewestFirst(w)
  BY <1>4, <1>5 DEF NewestFirst
<1>7. EntriesIn(w) \subseteq EntriesIn(v)
  <2>1. \A l \in Levels : EntriesOf(w[l]) \subseteq EntriesOf(v[l]) \cup EntriesOf(O)
    BY <1>1 DEF EntriesOf
  <2>2. EntriesIn(w) \subseteq EntriesIn(v) \cup EntriesOf(O)
    <3>1. \A u : \A a \in EntriesIn(u) : \E l \in Levels : a \in EntriesOf(u[l])
      BY DEF EntriesIn, EntriesOf, FilesOf
    <3>2. \A l \in Levels : EntriesOf(v[l]) \subseteq EntriesIn(v)
      BY DEF EntriesIn, EntriesOf, FilesOf
    <3> QED
      BY <2>1, <3>1, <3>2
  <2>3. EntriesOf(v[c.level]) \subseteq EntriesIn(v) /\ EntriesOf(v[n]) \subseteq EntriesIn(v)
    BY DEF EntriesIn, EntriesOf, FilesOf
  <2> QED
    BY <1>2, <1>3, <2>2, <2>3
<1> QED
  BY <1>6, <1>7 DEF w

\* A finite set of files has one that ends last, and one that starts first.
LEMMA EndsOfFiles ==
  ASSUME NEW F, FileSet(F), F # {}
  PROVE  /\ \E z \in F : FindLargestKey(F) = z.largest /\ \A h \in F : AtOrBefore(h.largest, z.largest)
         /\ \E z \in F : \A h \in F : AtOrBefore(z.smallest, h.smallest)
<1> DEFINE S == {f.smallest : f \in F}
           L == {f.largest : f \in F}
<1>1. \A f \in F : IsEntry(f.smallest) /\ IsEntry(f.largest)
  BY TableRange DEF FileSet
<1>2. IsFiniteSet(S)
  <2> DEFINE g == [f \in F |-> f.smallest]
  <2>1. g \in Surjection(F, S)
    BY DEF Surjection
  <2> HIDE DEF g, S
  <2> QED
    BY <2>1, FS_Surjection DEF FileSet
<1>3. IsFiniteSet(L)
  <2> DEFINE g == [f \in F |-> f.largest]
  <2>1. g \in Surjection(F, L)
    BY DEF Surjection
  <2> HIDE DEF g, L
  <2> QED
    BY <2>1, FS_Surjection DEF FileSet
<1>4. S # {} /\ L # {} /\ (\A e \in S : IsEntry(e)) /\ (\A e \in L : IsEntry(e))
  BY <1>1
<1>5. SmallestKey(S) \in S /\ \A d \in S : AtOrBefore(SmallestKey(S), d)
  <2> HIDE DEF S, L
  <2> QED
    BY <1>2, <1>4, FirstAndLast
<1>6. LargestKey(L) \in L /\ \A d \in L : AtOrBefore(d, LargestKey(L))
  <2> HIDE DEF S, L
  <2> QED
    BY <1>3, <1>4, FirstAndLast
<1>7. \E z \in F : \A h \in F : AtOrBefore(z.smallest, h.smallest)
  BY <1>5
<1>8. \E z \in F : FindLargestKey(F) = z.largest /\ \A h \in F : AtOrBefore(h.largest, z.largest)
  BY <1>6 DEF FindLargestKey
<1> QED
  BY <1>7, <1>8

\* Files of a sorted level with no other file of the level among them.
Gapless(v, l, F) ==
  \A h, z \in F : \A f \in v[l] : Before(h.largest, f.smallest) /\ Before(f.largest, z.smallest) => f \in F

Sorted(F) == \A f, g \in F : f # g => Before(f.largest, g.smallest) \/ Before(g.largest, f.smallest)

\* A set of files that has all boundary files of F and of its own.
HasBoundaries(v, l, F, T) ==
  /\ FindSmallestBoundaryFile(v, l, FindLargestKey(F)) \subseteq T
  /\ \A h \in T : FindSmallestBoundaryFile(v, l, h.largest) \subseteq T

\* The search for boundary files goes on until it finds no more.
LEMMA BoundarySearchIsDone ==
  ASSUME NEW v, NEW l, NEW F \in SUBSET v[l], F # {}
  PROVE  \E G \in SUBSET v[l] :
           /\ AddBoundaryInputs(v, l, F) = F \cup G
           /\ HasBoundaries(v, l, F, G)
           /\ \A T \in SUBSET v[l] : HasBoundaries(v, l, F, T) => G \subseteq T
<1> DEFINE first == FindSmallestBoundaryFile(v, l, FindLargestKey(F))
           next(h) == FindSmallestBoundaryFile(v, l, h.largest)
           further(T) == first \cup UNION {next(g) : g \in T}
           G == {f \in v[l] : \A T \in SUBSET v[l] : further(T) \subseteq T => f \in T}
<1>1. AddBoundaryInputs(v, l, F) = F \cup G
  BY DEF AddBoundaryInputs, Search
<1>2. first \subseteq v[l] /\ \A h : next(h) \subseteq v[l]
  BY DEF FindSmallestBoundaryFile, BoundaryFiles
<1> HIDE DEF first, next
<1>3. \A T : further(T) \subseteq v[l]
  BY <1>2
<1>4. \A T, U : T \subseteq U => further(T) \subseteq further(U)
  OBVIOUS
<1>5. G \in SUBSET v[l]
  OBVIOUS
<1>6. \A T \in SUBSET v[l] : further(T) \subseteq T => G \subseteq T
  OBVIOUS
<1>7. \A T : first \subseteq T /\ (\A h \in T : next(h) \subseteq T) <=> further(T) \subseteq T
  OBVIOUS
<1> HIDE DEF further
<1>8. further(G) \subseteq G
  <2> SUFFICES ASSUME NEW f \in further(G), NEW T \in SUBSET v[l], further(T) \subseteq T PROVE f \in T
    BY <1>3
  <2>1. G \subseteq T
    BY <1>6
  <2> QED
    BY <1>4, <2>1
<1> HIDE DEF G
<1>9. \A T : HasBoundaries(v, l, F, T) <=> further(T) \subseteq T
  BY <1>7 DEF first, next, HasBoundaries
<1> QED
  BY <1>1, <1>5, <1>6, <1>8, <1>9

\* What a compaction of a sorted level leaves there is newer than its inputs: a
\* file with older entries of the user key of an input would be a boundary file.
LEMMA OthersAreNewer ==
  ASSUME NEW v, NEW l, FileSet(v[l]), Sorted(v[l]), NEW F \in SUBSET v[l], F # {}, Gapless(v, l, F)
  PROVE  \A f \in v[l] \ AddBoundaryInputs(v, l, F) :
            AllNewer(f.entries, EntriesOf(AddBoundaryInputs(v, l, F)))
<1>1. PICK G \in SUBSET v[l] :
           /\ AddBoundaryInputs(v, l, F) = F \cup G
           /\ FindSmallestBoundaryFile(v, l, FindLargestKey(F)) \subseteq G
           /\ \A h \in G : FindSmallestBoundaryFile(v, l, h.largest) \subseteq G
  BY BoundarySearchIsDone DEF HasBoundaries
<1> DEFINE A == AddBoundaryInputs(v, l, F)
<1>2. A = F \cup G /\ A \subseteq v[l]
  BY <1>1
<1>3. PICK z \in F : FindLargestKey(F) = z.largest /\ \A h \in F : AtOrBefore(h.largest, z.largest)
  <2>1. FileSet(F)
    BY FS_Subset DEF FileSet
  <2> QED
    BY <2>1, EndsOfFiles
<1>4. \A f \in v[l] : /\ IsEntry(f.smallest) /\ IsEntry(f.largest) /\ AtOrBefore(f.smallest, f.largest)
                      /\ \A e \in f.entries : IsEntry(e) /\ AtOrBefore(f.smallest, e) /\ AtOrBefore(e, f.largest)
  BY TableRange DEF FileSet
<1> HIDE DEF A
<1> SUFFICES ASSUME NEW f \in v[l] \ A, NEW g \in A, NEW a \in f.entries, NEW b \in g.entries, a.key = b.key
             PROVE  a.seq > b.seq
  BY DEF A, AllNewer, EntriesOf
<1>5. /\ IsEntry(a) /\ IsEntry(b) /\ IsEntry(f.smallest) /\ IsEntry(f.largest)
      /\ IsEntry(g.smallest) /\ IsEntry(g.largest)
      /\ AtOrBefore(f.smallest, a) /\ AtOrBefore(a, f.largest) /\ AtOrBefore(f.smallest, f.largest)
      /\ AtOrBefore(g.smallest, b) /\ AtOrBefore(b, g.largest)
  BY <1>2, <1>4
<1>6. CASE Before(f.largest, g.smallest)
  BY <1>5, <1>6 DEF IsEntry, Before, AtOrBefore
<1>7. CASE Before(g.largest, f.smallest)
  <2> DEFINE k == f.smallest.key
             X == {h \in A : Before(h.largest, f.smallest) /\ h.largest.key = k}
             next(h) == FindSmallestBoundaryFile(v, l, h.largest)
  <2>1. g \in X
    BY <1>5, <1>7 DEF IsEntry, Before, AtOrBefore
  <2>2. X \subseteq A /\ X \subseteq v[l]
    BY <1>2
  <2>3. PICK h \in X : \A x \in X : AtOrBefore(x.largest, h.largest)
    <3> HIDE DEF X
    <3>1. FileSet(X)
      BY <2>2, FS_Subset DEF FileSet
    <3> QED
      BY <2>1, <3>1, EndsOfFiles
  <2>4. h \in v[l] /\ h \in A /\ Before(h.largest, f.smallest) /\ h.largest.key = k
    BY <2>2
  <2>5. next(h) \subseteq A
    <3>1. CASE h \in G \/ h = z
      BY <1>1, <1>2, <1>3, <3>1
    <3>2. CASE h \in F /\ h # z
      <4>1. z \in v[l] /\ z \in A /\ z # f /\ AtOrBefore(h.largest, z.largest)
        BY <1>2, <1>3, <3>2
      <4>2. IsEntry(h.smallest) /\ IsEntry(h.largest) /\ IsEntry(z.smallest) /\ IsEntry(z.largest)
             /\ AtOrBefore(h.smallest, h.largest) /\ AtOrBefore(z.smallest, z.largest)
        BY <1>4, <2>4, <4>1
      <4>3. CASE Before(f.largest, z.smallest)
        <5>1. f \in F
          BY <2>4, <3>2, <4>3 DEF Gapless
        <5> QED
          BY <1>2, <5>1
      <4>4. CASE Before(z.largest, f.smallest)
        <5>1. z.largest.key = k
          BY <1>5, <2>4, <4>1, <4>2, <4>4 DEF IsEntry, Before, AtOrBefore
        <5>2. AtOrBefore(z.largest, h.largest)
          BY <2>3, <4>1, <4>4, <5>1
        <5>3. Before(h.largest, z.smallest) \/ Before(z.largest, h.smallest)
          BY <2>4, <3>2, <4>1 DEF Sorted
        <5> QED
          BY <4>1, <4>2, <5>2, <5>3 DEF IsEntry, Before, AtOrBefore
      <4> QED
        BY <4>1, <4>3, <4>4 DEF Sorted
    <3> QED
      BY <1>2, <2>4, <3>1, <3>2
  <2> DEFINE B == BoundaryFiles(v, l, h.largest)
  <2>6. f \in B /\ B \subseteq v[l] /\ \A y \in B : Before(h.largest, y.smallest) /\ y.smallest.key = k
    BY <2>4 DEF BoundaryFiles
  <2>7. PICK y \in B : \A u \in B : AtOrBefore(y.smallest, u.smallest)
    <3> HIDE DEF B
    <3>1. FileSet(B)
      BY <2>6, FS_Subset DEF FileSet
    <3> QED
      BY <2>6, <3>1, EndsOfFiles
  <2>8. y \in next(h)
    BY <2>7 DEF FindSmallestBoundaryFile
  <2>9. y \in v[l] /\ y \in A /\ y # f /\ AtOrBefore(y.smallest, f.smallest) /\ Before(h.largest, y.smallest)
         /\ y.smallest.key = k
    <3> HIDE DEF B, next
    <3> QED
      BY <2>5, <2>6, <2>7, <2>8
  <2>10. IsEntry(y.smallest) /\ IsEntry(y.largest) /\ AtOrBefore(y.smallest, y.largest) /\ IsEntry(h.largest)
    BY <1>4, <2>4, <2>9
  <2>11. Before(y.largest, f.smallest) \/ Before(f.largest, y.smallest)
    BY <2>9 DEF Sorted
  <2>12. Before(y.largest, f.smallest) /\ y.largest.key = k
    BY <1>5, <2>9, <2>10, <2>11 DEF IsEntry, Before, AtOrBefore
  <2>13. AtOrBefore(y.largest, h.largest)
    BY <2>3, <2>9, <2>12
  <2> QED
    BY <2>9, <2>10, <2>13 DEF IsEntry, Before, AtOrBefore
<1> QED
  BY <1>2, <1>6, <1>7 DEF Sorted

\* In level 0 the files found by overlap are all those that overlap one of them.
ClosedInLevelZero(v, F) ==
  \A g \in F : \A f \in v[0] : Overlaps(f, RangeOf({g})) => f \in F

\* The files GetOverlappingInputs takes of level 0 overlap none that it leaves.
LEMMA OverlapIsClosed ==
  ASSUME NEW v, NEW r
  PROVE  ClosedInLevelZero(v, GetOverlappingInputs(v, 0, r))
<1> DEFINE overlapping == {f \in v[0] : Overlaps(f, r)}
           further(T)  == overlapping \cup {f \in v[0] : \E g \in T : Overlaps(f, RangeOf({g}))}
           G == {f \in v[0] : \A T \in SUBSET v[0] : further(T) \subseteq T => f \in T}
<1>1. GetOverlappingInputs(v, 0, r) = G
  BY DEF GetOverlappingInputs, Search
<1>2. ASSUME NEW g \in G, NEW f \in v[0], Overlaps(f, RangeOf({g})), NEW T \in SUBSET v[0], further(T) \subseteq T
      PROVE  f \in T
  <2>1. g \in T
    BY <1>2
  <2>2. f \in further(T)
    BY <1>2, <2>1
  <2> QED
    BY <1>2, <2>2
<1>3. \A g \in G : \A f \in v[0] : Overlaps(f, RangeOf({g})) => f \in G
  <2> HIDE DEF further
  <2> QED
    BY <1>2
<1> QED
  BY <1>1, <1>3 DEF ClosedInLevelZero

\* Boundary files overlap, and so there are no more of them to add.
LEMMA NoMoreBoundaryFiles ==
  ASSUME NEW v, FileSet(v[0]), NEW F \in SUBSET v[0], F # {}, ClosedInLevelZero(v, F)
  PROVE  AddBoundaryInputs(v, 0, F) = F
<1>1. PICK G \in SUBSET v[0] :
           /\ AddBoundaryInputs(v, 0, F) = F \cup G
           /\ HasBoundaries(v, 0, F, G)
           /\ \A T \in SUBSET v[0] : HasBoundaries(v, 0, F, T) => G \subseteq T
  BY BoundarySearchIsDone
<1>2. PICK z \in F : FindLargestKey(F) = z.largest
  <2>1. FileSet(F)
    BY FS_Subset DEF FileSet
  <2> QED
    BY <2>1, EndsOfFiles
<1>3. \A h \in F : FindSmallestBoundaryFile(v, 0, h.largest) \subseteq F
  <2> SUFFICES ASSUME NEW h \in F, NEW f \in FindSmallestBoundaryFile(v, 0, h.largest) PROVE f \in F
    OBVIOUS
  <2>1. f \in v[0] /\ f.smallest.key = h.largest.key
    BY DEF FindSmallestBoundaryFile, BoundaryFiles
  <2>2. h \in v[0]
    OBVIOUS
  <2>3. GoodTable(h) /\ GoodTable(f)
    BY <2>1, <2>2 DEF FileSet
  <2>4. /\ h.smallest.key <= h.largest.key /\ f.smallest.key <= f.largest.key
        /\ IsEntry(h.smallest) /\ IsEntry(h.largest) /\ IsEntry(f.smallest) /\ IsEntry(f.largest)
    BY <2>3, TableRange
  <2>5. Overlaps(f, RangeOf({h}))
    <3>1. f.largest.key < h.smallest.key \/ h.largest.key < f.smallest.key \/ Overlaps(f, RangeOf({h}))
      BY <2>3, NoOverlap
    <3> QED
      BY <2>1, <2>4, <3>1 DEF IsEntry
  <2> QED
    BY <2>1, <2>5 DEF ClosedInLevelZero
<1>4. HasBoundaries(v, 0, F, F)
  BY <1>2, <1>3 DEF HasBoundaries
<1> QED
  BY <1>1, <1>4

\* The user keys of what a compaction leaves in level 0 are not those of its inputs.
LEMMA OthersHaveOtherKeys ==
  ASSUME NEW v, FileSet(v[0]), NEW F \in SUBSET v[0], ClosedInLevelZero(v, F)
  PROVE  \A f \in v[0] \ F : AllNewer(f.entries, EntriesOf(F))
<1> SUFFICES ASSUME NEW f \in v[0] \ F, NEW g \in F
             PROVE  \A a \in f.entries, b \in g.entries : a.key # b.key
  BY DEF AllNewer, EntriesOf
<1>1. GoodTable(f) /\ GoodTable(g) /\ ~Overlaps(f, RangeOf({g}))
  BY DEF FileSet, ClosedInLevelZero
<1>2. \A b \in g.entries, a \in f.entries : b.key # a.key
  BY <1>1, ApartKeys
<1> QED
  BY <1>2

\* Whether they start a compaction or are asked for by a larger range, the files
\* of one level that go into a compaction leave newer ones there.
StartsWell(v, l, F) == IF l = 0 THEN ClosedInLevelZero(v, F) ELSE Gapless(v, l, F)

\* A file that AddBoundaryInputs leaves holds no older entry of a key than one it takes.
LEMMA BoundaryLeavesNewer ==
  ASSUME NEW v, NEW l \in Levels, FileSet(v[l]), LevelsAreSorted(v), NEW F \in SUBSET v[l],
         StartsWell(v, l, F)
  PROVE  \A f \in v[l] \ AddBoundaryInputs(v, l, F) :
            AllNewer(f.entries, EntriesOf(AddBoundaryInputs(v, l, F)))
<1>1. CASE F = {}
  BY <1>1 DEF AddBoundaryInputs, AllNewer, EntriesOf
<1>2. CASE F # {} /\ l = 0
  <2>1. ClosedInLevelZero(v, F)
    BY <1>2 DEF StartsWell
  <2>2. AddBoundaryInputs(v, l, F) = F
    BY <1>2, <2>1, NoMoreBoundaryFiles
  <2> QED
    BY <1>2, <2>1, <2>2, OthersHaveOtherKeys
<1>3. CASE F # {} /\ l # 0
  <2>1. Gapless(v, l, F) /\ Sorted(v[l])
    BY <1>3 DEF StartsWell, LevelsAreSorted, Sorted
  <2> QED
    BY <1>3, <2>1, OthersAreNewer
<1> QED
  BY <1>1, <1>2, <1>3

\* The files of a sorted level that overlap a range have none of it among them.
LEMMA OverlapStartsWell ==
  ASSUME NEW v, NEW l \in Levels, FileSet(v[l]), NEW r, r.lo \in Int, r.hi \in Int
  PROVE  StartsWell(v, l, GetOverlappingInputs(v, l, r))
<1>1. CASE l = 0
  BY <1>1, OverlapIsClosed DEF StartsWell
<1>2. CASE l # 0
  <2>1. GetOverlappingInputs(v, l, r) = {f \in v[l] : Overlaps(f, r)}
    BY <1>2, OverlappingAreFound
  <2>2. \A f \in v[l] : IsEntry(f.smallest) /\ IsEntry(f.largest) /\ f.smallest.key <= f.largest.key
    BY TableRange DEF FileSet
  <2> SUFFICES ASSUME NEW h \in v[l], NEW z \in v[l], Overlaps(h, r), Overlaps(z, r), NEW f \in v[l],
                      Before(h.largest, f.smallest), Before(f.largest, z.smallest)
               PROVE  Overlaps(f, r)
    BY <1>2, <2>1 DEF StartsWell, Gapless
  <2>3. h.largest.key <= f.smallest.key /\ f.largest.key <= z.smallest.key
    BY <2>2 DEF Before, IsEntry
  <2>4. h.largest.key \in Int /\ f.smallest.key \in Int /\ f.largest.key \in Int /\ z.smallest.key \in Int
        /\ f.smallest.key <= f.largest.key
    BY <2>2 DEF IsEntry
  <2> QED
    BY <2>3, <2>4 DEF Overlaps
<1> QED
  BY <1>1, <1>2

\* So the files of its level that a compaction leaves hold newer entries of every key.
LEMMA SetupLeavesNewer ==
  ASSUME NEW v, NEW l \in Levels, l + 1 \in Levels, FileSet(v[l]), FileSet(v[l + 1]), LevelsAreSorted(v),
         NEW F \in SUBSET v[l], F # {}, StartsWell(v, l, F)
  PROVE  LET c == SetupOtherInputs(v, l, F)
         IN  \A f \in v[l] \ c.in0 : AllNewer(f.entries, EntriesOf(c.in0))
<1> DEFINE inputs0   == AddBoundaryInputs(v, l, F)
           inputs1   == GetOverlappingInputs(v, l + 1, RangeOf(inputs0))
           all       == RangeOf(inputs0 \cup inputs1)
           overlap0  == GetOverlappingInputs(v, l, all)
           expanded0 == AddBoundaryInputs(v, l, overlap0)
           c         == SetupOtherInputs(v, l, F)
<1>1. c.in0 \in {inputs0, expanded0}
  BY DEF SetupOtherInputs
<1>2. F \subseteq inputs0 /\ inputs0 \subseteq v[l]
  BY BoundaryFilesAdd
<1>3. inputs1 \subseteq v[l + 1] /\ overlap0 \subseteq v[l]
  BY OverlappingAreFound
<1>4. all.lo \in Int /\ all.hi \in Int
  <2>1. IsFiniteSet(inputs0) /\ IsFiniteSet(inputs1)
    BY <1>2, <1>3, FS_Subset DEF FileSet
  <2>2. IsFiniteSet(inputs0 \cup inputs1)
    BY <2>1, FS_Union
  <2> HIDE DEF inputs0, inputs1
  <2>3. FileSet(inputs0 \cup inputs1) /\ inputs0 \cup inputs1 # {}
    BY <1>2, <1>3, <2>2 DEF FileSet
  <2> QED
    BY <2>3, RangeBounds
<1>5. StartsWell(v, l, overlap0)
  BY <1>4, OverlapStartsWell
<1>6. \A f \in v[l] \ inputs0 : AllNewer(f.entries, EntriesOf(inputs0))
  BY BoundaryLeavesNewer
<1>7. \A f \in v[l] \ expanded0 : AllNewer(f.entries, EntriesOf(expanded0))
  BY <1>3, <1>5, BoundaryLeavesNewer
<1> HIDE DEF inputs0, expanded0, c
<1>8. \A f \in v[l] \ c.in0 : AllNewer(f.entries, EntriesOf(c.in0))
  BY <1>1, <1>6, <1>7
<1> QED
  BY <1>8 DEF c

\* The first files of a level, up to a size.
LEMMA FirstFilesStartWell ==
  ASSUME NEW v, NEW l \in Levels, l # 0, FileSet(v[l]), Sorted(v[l])
  PROVE  LET upTo(f) == {g \in v[l] : AtOrBefore(g.smallest, f.smallest)}
         IN  StartsWell(v, l, {f \in v[l] : TotalFileSize(upTo(f) \ {f}) < MaxOutputFileSize})
<1> DEFINE upTo(f) == {g \in v[l] : AtOrBefore(g.smallest, f.smallest)}
           limited == {f \in v[l] : TotalFileSize(upTo(f) \ {f}) < MaxOutputFileSize}
<1> SUFFICES ASSUME NEW h \in limited, NEW z \in limited, NEW f \in v[l],
                    Before(h.largest, f.smallest), Before(f.largest, z.smallest)
             PROVE  f \in limited
  BY DEF StartsWell, Gapless
<1>1. \A g \in v[l] : /\ IsEntry(g.smallest) /\ IsEntry(g.largest) /\ AtOrBefore(g.smallest, g.largest)
                      /\ GoodTable(g)
  BY TableRange DEF FileSet
<1>2. z \in v[l] /\ Before(f.smallest, z.smallest)
  BY <1>1 DEF IsEntry, Before, AtOrBefore
<1>3. upTo(f) \ {f} \subseteq upTo(z) \ {z}
  BY <1>1, <1>2 DEF IsEntry, Before, AtOrBefore
<1>4. IsFiniteSet(EntriesOf(upTo(z) \ {z}))
  <2>1. IsFiniteSet(upTo(z) \ {z})
    BY FS_Subset DEF FileSet
  <2> HIDE DEF upTo
  <2>2. \A g \in upTo(z) \ {z} : GoodTable(g)
    BY <1>1 DEF upTo
  <2> QED
    BY <2>1, <2>2, EntriesAreFinite DEF MemTable
<1>5. EntriesOf(upTo(f) \ {f}) \subseteq EntriesOf(upTo(z) \ {z})
  <2> HIDE DEF upTo
  <2> QED
    BY <1>3 DEF EntriesOf
<1>6. /\ TotalFileSize(upTo(f) \ {f}) <= TotalFileSize(upTo(z) \ {z})
      /\ TotalFileSize(upTo(f) \ {f}) \in Nat /\ TotalFileSize(upTo(z) \ {z}) \in Nat
  <2> HIDE DEF upTo
  <2>1. IsFiniteSet(EntriesOf(upTo(f) \ {f}))
    BY <1>4, <1>5, FS_Subset
  <2> QED
    BY <1>4, <1>5, <2>1, FS_Subset, FS_CardinalityType DEF TotalFileSize
<1>7. TotalFileSize(upTo(z) \ {z}) < MaxOutputFileSize
  OBVIOUS
<1>8. MaxOutputFileSize \in Nat
  BY VersionSetAssumption
<1> HIDE DEF upTo
<1> QED
  BY <1>6, <1>7, <1>8

\* Whatever compaction is chosen, the files it leaves in its level are newer.
LEMMA ChosenLeaveNewer ==
  ASSUME VersionsTyped, WorkTyped, LevelsAreSorted(current), \A m \in Levels : FileSet(current[m]),
         NEW c \in CompactionChoices
  PROVE  /\ c.level \in Levels /\ c.level + 1 \in Levels
         /\ c.in0 \subseteq current[c.level] /\ c.in1 \subseteq current[c.level + 1]
         /\ \A f \in current[c.level] \ c.in0 : AllNewer(f.entries, EntriesOf(c.in0))
<1>0. 0 \in Levels
  BY VersionSetAssumption DEF Levels
<1>1. \E l \in Levels : \E F \in SUBSET current[l] :
         l + 1 \in Levels /\ c = SetupOtherInputs(current, l, F) /\ F # {} /\ StartsWell(current, l, F)
  <2>1. CASE manual # None
    <3>1. manual \in Levels /\ manual + 1 \in Levels
      BY <2>1 DEF WorkTyped
    <3> DEFINE upTo(f) == {g \in current[manual] : AtOrBefore(g.smallest, f.smallest)}
               limited == {f \in current[manual] : TotalFileSize(upTo(f) \ {f}) < MaxOutputFileSize}
               chosen == IF manual = 0 THEN current[0] ELSE limited
    <3>2. c \in IF chosen = {} THEN {} ELSE {SetupOtherInputs(current, manual, chosen)}
      BY <2>1 DEF CompactionChoices, CompactRange
    <3>3. chosen \in SUBSET current[manual]
      OBVIOUS
    <3>4. StartsWell(current, manual, chosen)
      <4>1. CASE manual = 0
        BY <4>1 DEF StartsWell, ClosedInLevelZero
      <4>2. CASE manual # 0
        <5>1. Sorted(current[manual])
          BY <3>1, <4>2 DEF LevelsAreSorted, Sorted
        <5> QED
          BY <3>1, <4>2, <5>1, FirstFilesStartWell
      <4> QED
        BY <4>1, <4>2
    <3> HIDE DEF chosen
    <3>5. c = SetupOtherInputs(current, manual, chosen) /\ chosen # {}
      BY <3>2
    <3> QED
      BY <3>1, <3>3, <3>4, <3>5
  <2>2. CASE manual = None
    <3>1. PICK l \in Levels : \E F \in SUBSET current[l] :
              /\ l + 1 \in Levels /\ c = SetupOtherInputs(current, l, F)
              /\ \E f \in current[l] : F = StartingFiles(current, l, f)
      BY <2>2, ChosenInputs
    <3>2. PICK F \in SUBSET current[l] :
              /\ l + 1 \in Levels /\ c = SetupOtherInputs(current, l, F)
              /\ \E f \in current[l] : F = StartingFiles(current, l, f)
      BY <3>1
    <3>3. PICK f \in current[l] : F = StartingFiles(current, l, f)
      BY <3>2
    <3>4. F # {} /\ StartsWell(current, l, F)
      <4>1. CASE l = 0
        <5>1. GoodTable(f)
          BY <1>0 DEF FileSet
        <5>2. Overlaps(f, RangeOf({f}))
          <6>1. f.smallest.key <= f.largest.key /\ IsEntry(f.smallest) /\ IsEntry(f.largest)
            BY <5>1, TableRange
          <6>2. f.largest.key < f.smallest.key \/ f.largest.key < f.smallest.key \/ Overlaps(f, RangeOf({f}))
            BY <5>1, NoOverlap
          <6> QED
            BY <6>1, <6>2 DEF IsEntry
        <5>3. F = GetOverlappingInputs(current, 0, RangeOf({f}))
          BY <3>3, <4>1 DEF StartingFiles
        <5>4. f \in F
          BY <4>1, <5>2, <5>3, OverlappingAreFound
        <5> QED
          BY <4>1, <5>3, <5>4, OverlapIsClosed DEF StartsWell
      <4>2. CASE l # 0
        <5>1. F = {f}
          BY <3>3, <4>2 DEF StartingFiles
        <5>2. GoodTable(f)
          BY DEF FileSet
        <5>3. IsEntry(f.smallest) /\ IsEntry(f.largest) /\ AtOrBefore(f.smallest, f.largest)
          BY <5>2, TableRange
        <5>4. ASSUME NEW g \in current[l], Before(f.largest, g.smallest), Before(g.largest, f.smallest) PROVE FALSE
          <6>1. GoodTable(g)
            BY DEF FileSet
          <6>2. IsEntry(g.smallest) /\ IsEntry(g.largest) /\ AtOrBefore(g.smallest, g.largest)
            BY <6>1, TableRange
          <6> QED
            BY <5>3, <5>4, <6>2 DEF IsEntry, Before, AtOrBefore
        <5> QED
          BY <4>2, <5>1, <5>4 DEF StartsWell, Gapless
      <4> QED
        BY <4>1, <4>2
    <3> QED
      BY <3>2, <3>4
  <2> QED
    BY <2>1, <2>2
<1>2. PICK l \in Levels : \E F \in SUBSET current[l] :
         l + 1 \in Levels /\ c = SetupOtherInputs(current, l, F) /\ F # {} /\ StartsWell(current, l, F)
  BY <1>1
<1>3. PICK F \in SUBSET current[l] :
         l + 1 \in Levels /\ c = SetupOtherInputs(current, l, F) /\ F # {} /\ StartsWell(current, l, F)
  BY <1>2
<1>4. c.level = l /\ c.in0 \subseteq current[l] /\ c.in1 \subseteq current[l + 1]
  BY <1>3, SetupLevels
<1>5. \A f \in current[l] \ c.in0 : AllNewer(f.entries, EntriesOf(c.in0))
  BY <1>3, SetupLeavesNewer
<1> QED
  BY <1>3, <1>4, <1>5

-----------------------------------------------------------------------------
(* The order of the records                                                *)

\* Logs that hold some of the records of others, in the same order.
Fewer(L, M) ==
  \A n \in DOMAIN M : \E p :
    \A i \in DOMAIN M[n].records :
      /\ n \in DOMAIN L /\ p[i] \in DOMAIN L[n].records /\ M[n].records[i] = L[n].records[p[i]]
      /\ \A j \in DOMAIN M[n].records : i < j => p[i] < p[j]

\* With fewer records in the logs what held of all of them still does.
LEMMA FewerRecords ==
  ASSUME NEW L, NEW M, Fewer(L, M), NEW a
  PROVE  /\ \A E : LogsAbove(L, a, E) => LogsAbove(M, a, E)
         /\ \A s : LogsTo(L, a, s) => LogsTo(M, a, s)
         /\ LogsInOrder(L, a) => LogsInOrder(M, a)
<1>1. \A n \in LogsFrom(M, a) : \A i \in DOMAIN M[n].records :
         n \in LogsFrom(L, a) /\ \E k \in DOMAIN L[n].records : RecordAt(M, n, i) = RecordAt(L, n, k)
  BY DEF Fewer, LogsFrom, RecordAt
<1>2. ASSUME NEW E, LogsAbove(L, a, E) PROVE LogsAbove(M, a, E)
  BY <1>1, <1>2 DEF LogsAbove
<1>3. ASSUME NEW s, LogsTo(L, a, s) PROVE LogsTo(M, a, s)
  BY <1>1, <1>3 DEF LogsTo
<1>4. ASSUME LogsInOrder(L, a) PROVE LogsInOrder(M, a)
  <2> SUFFICES ASSUME NEW m \in LogsFrom(M, a), NEW n \in LogsFrom(M, a),
                      NEW i \in DOMAIN M[m].records, NEW j \in DOMAIN M[n].records,
                      m < n \/ (m = n /\ i < j)
               PROVE  AllAbove(RecordAt(M, n, j), RecordAt(M, m, i))
    BY DEF LogsInOrder
  <2>1. CASE m < n
    BY <1>1, <1>4, <2>1 DEF LogsInOrder
  <2>2. CASE m = n /\ i < j
    <3>1. PICK p : \A k \in DOMAIN M[n].records :
                     /\ n \in DOMAIN L /\ p[k] \in DOMAIN L[n].records
                     /\ M[n].records[k] = L[n].records[p[k]]
                     /\ \A h \in DOMAIN M[n].records : k < h => p[k] < p[h]
      BY DEF Fewer, LogsFrom
    <3>2. p[i] < p[j] /\ p[i] \in DOMAIN L[n].records /\ p[j] \in DOMAIN L[n].records
      BY <2>2, <3>1
    <3>3. RecordAt(M, n, i) = RecordAt(L, n, p[i]) /\ RecordAt(M, n, j) = RecordAt(L, n, p[j])
      BY <2>2, <3>1 DEF RecordAt
    <3>4. n \in LogsFrom(L, a)
      BY <1>1
    <3> QED
      BY <1>4, <2>2, <3>2, <3>3, <3>4 DEF LogsInOrder
  <2> QED
    BY <2>1, <2>2
<1> QED
  BY <1>2, <1>3, <1>4

\* From a later log on there are fewer.
LEMMA LaterLogs ==
  ASSUME NEW L, NEW c \in Nat, DOMAIN L \subseteq 0..c, NEW a \in Nat, NEW b \in Nat, a <= b
  PROVE  /\ \A E : LogsAbove(L, a, E) => LogsAbove(L, b, E)
         /\ \A s : LogsTo(L, a, s) => LogsTo(L, b, s)
         /\ LogsInOrder(L, a) => LogsInOrder(L, b)
<1>1. LogsFrom(L, b) \subseteq LogsFrom(L, a)
  BY DEF LogsFrom
<1> QED
  BY <1>1 DEF LogsAbove, LogsTo, LogsInOrder

\* The bounds of the records may be widened.
LEMMA WiderBounds ==
  ASSUME NEW L, NEW a, NEW s \in Int, NEW t \in Int, s <= t, NEW E, NEW D \in SUBSET E
  PROVE  /\ (\A n \in LogsFrom(L, a) : \A i \in DOMAIN L[n].records : \A e \in RecordAt(L, n, i) : e.seq \in Int)
              /\ LogsTo(L, a, s) => LogsTo(L, a, t)
         /\ LogsAbove(L, a, E) => LogsAbove(L, a, D)
<1>1. LogsAbove(L, a, E) => LogsAbove(L, a, D)
  BY DEF LogsAbove, AllAbove
<1>2. ASSUME \A n \in LogsFrom(L, a) : \A i \in DOMAIN L[n].records : \A e \in RecordAt(L, n, i) : e.seq \in Int,
             LogsTo(L, a, s)
      PROVE  LogsTo(L, a, t)
  BY <1>2 DEF LogsTo, SeqsTo
<1> QED
  BY <1>1, <1>2

\* The elements at some places of a sequence keep their order.
LEMMA AtPlacesKeepOrder ==
  ASSUME NEW S, NEW s \in Seq(S), NEW places
  PROVE  \E p : \A i \in DOMAIN AtPlaces(s, places) :
            /\ p[i] \in DOMAIN s /\ AtPlaces(s, places)[i] = s[p[i]]
            /\ \A j \in DOMAIN AtPlaces(s, places) : i < j => p[i] < p[j]
<1>1. PICK c : /\ AtPlaces(s, places) = c[Len(s)]
               /\ c[0] = <<>>
               /\ \A i \in 1..Len(s) : c[i] = KeepAt(c[i - 1], s, i, places)
  BY PlaceByPlace
<1> DEFINE n == Len(s)
           Ordered(d, p, i) == \A k \in DOMAIN d : /\ p[k] \in 1..i /\ d[k] = s[p[k]]
                                                   /\ \A j \in DOMAIN d : k < j => p[k] < p[j]
           P == {i \in 0..n : c[i] \in Seq(S) /\ \E p : Ordered(c[i], p, i)}
<1>2. n \in Nat /\ DOMAIN s = 1..n /\ \A i \in 1..n : s[i] \in S
  OBVIOUS
<1>3. \A i \in 1..n : c[i] = KeepAt(c[i - 1], s, i, places)
  BY <1>1
<1> HIDE DEF n
<1>4. 0 \in P
  <2>1. c[0] \in Seq(S) /\ \A p : Ordered(c[0], p, 0)
    BY <1>1
  <2> QED
    BY <1>2, <2>1
<1>5. ASSUME NEW i \in 1..n, i - 1 \in P PROVE i \in P
  <2> DEFINE d == c[i - 1]
  <2>1. d \in Seq(S) /\ s[i] \in S /\ i \in Nat
    BY <1>2, <1>5
  <2>2. PICK p : Ordered(d, p, i - 1)
    BY <1>5
  <2>3. c[i] = IF i \in places THEN Append(d, s[i]) ELSE d
    BY <1>3 DEF KeepAt
  <2> HIDE DEF d
  <2>4. \A k \in DOMAIN d : /\ p[k] \in 1..(i - 1) /\ d[k] = s[p[k]]
                            /\ \A j \in DOMAIN d : k < j => p[k] < p[j]
    BY <2>2
  <2>5. CASE i \notin places
    <3>1. c[i] \in Seq(S) /\ Ordered(c[i], p, i)
      BY <2>1, <2>3, <2>4, <2>5
    <3> HIDE DEF Ordered
    <3> QED
      BY <1>2, <3>1
  <2>6. CASE i \in places
    <3> DEFINE m == Len(d)
               q == [k \in 1..(m + 1) |-> IF k = m + 1 THEN i ELSE p[k]]
    <3>1. m \in Nat /\ DOMAIN d = 1..m
      BY <2>1
    <3>2. /\ c[i] \in Seq(S) /\ DOMAIN c[i] = 1..(m + 1) /\ c[i][m + 1] = s[i]
          /\ \A k \in 1..m : c[i][k] = d[k]
      BY <2>1, <2>3, <2>6
    <3>3. q[m + 1] = i /\ \A k \in 1..m : q[k] = p[k] /\ p[k] \in 1..(i - 1)
      BY <2>4, <3>1
    <3> HIDE DEF m, q
    <3>4. ASSUME NEW k \in 1..(m + 1)
          PROVE  /\ q[k] \in 1..i /\ c[i][k] = s[q[k]]
                 /\ \A j \in 1..(m + 1) : k < j => q[k] < q[j]
      <4>1. CASE k = m + 1
        BY <2>1, <3>1, <3>2, <3>3, <4>1
      <4>2. CASE k \in 1..m
        <5>1. q[k] = p[k] /\ p[k] \in 1..(i - 1) /\ c[i][k] = s[q[k]]
          BY <2>4, <3>1, <3>2, <3>3, <4>2
        <5>2. ASSUME NEW j \in 1..(m + 1), k < j PROVE q[k] < q[j]
          <6>1. CASE j = m + 1
            BY <2>1, <3>3, <5>1, <6>1
          <6>2. CASE j \in 1..m
            BY <2>4, <3>1, <3>3, <4>2, <5>2, <6>2
          <6> QED
            BY <3>1, <6>1, <6>2
        <5> QED
          BY <2>1, <5>1, <5>2
      <4> QED
        BY <3>1, <4>1, <4>2
    <3>5. Ordered(c[i], q, i)
      BY <3>2, <3>4
    <3> HIDE DEF Ordered
    <3> QED
      BY <1>2, <3>2, <3>5
  <2> QED
    BY <2>5, <2>6
<1>6. n \in P
  <2>1. 0..n \subseteq P
    <3> HIDE DEF P
    <3> QED
      BY <1>2, <1>4, <1>5, UpTo
  <2> QED
    BY <1>2, <2>1
<1>7. PICK p : Ordered(c[n], p, n)
  BY <1>6
<1>8. AtPlaces(s, places) = c[n]
  BY <1>1 DEF n
<1> QED
  BY <1>2, <1>7, <1>8

\* A new log file, logs deleted, a log synced and a crash leave no more records.
LEMMA NewLogHasFewer ==
  ASSUME NEW n, logs' = WithLog(n)
  PROVE  Fewer(logs, logs') /\ logs'[n].records = <<>>
<1> DEFINE id == [i \in Nat |-> i]
<1>1. logs'[n].records = <<>> /\ n \in DOMAIN logs' /\ DOMAIN logs' = DOMAIN logs \cup {n}
  BY DEF WithLog, EmptyLog
<1>2. ASSUME NEW k \in DOMAIN logs', k # n PROVE k \in DOMAIN logs /\ logs'[k] = logs[k]
  BY <1>2 DEF WithLog
<1>3. ASSUME NEW k \in DOMAIN logs'
      PROVE  \E p : \A i \in DOMAIN logs'[k].records :
               /\ k \in DOMAIN logs /\ p[i] \in DOMAIN logs[k].records
               /\ logs'[k].records[i] = logs[k].records[p[i]]
               /\ \A j \in DOMAIN logs'[k].records : i < j => p[i] < p[j]
  <2>1. CASE k = n
    <3>1. DOMAIN logs'[k].records = {}
      BY <1>1, <2>1
    <3> QED
      BY <3>1
  <2>2. CASE k # n
    <3> DEFINE p == [i \in DOMAIN logs[k].records |-> i]
    <3>1. \A i \in DOMAIN logs[k].records : p[i] = i
      OBVIOUS
    <3> HIDE DEF p
    <3> QED
      BY <1>2, <2>2, <3>1
  <2> QED
    BY <2>1, <2>2
<1> QED
  BY <1>1, <1>3 DEF Fewer

\* Deleting logs and syncing them adds no record.
LEMMA SameRecordsAreFewer ==
  ASSUME NEW L, NEW M, DOMAIN M \subseteq DOMAIN L, \A n \in DOMAIN M : M[n].records = L[n].records
  PROVE  Fewer(L, M)
<1>1. ASSUME NEW n \in DOMAIN M
      PROVE  \E p : \A i \in DOMAIN M[n].records :
               /\ n \in DOMAIN L /\ p[i] \in DOMAIN L[n].records /\ M[n].records[i] = L[n].records[p[i]]
               /\ \A j \in DOMAIN M[n].records : i < j => p[i] < p[j]
  <2> DEFINE p == [i \in DOMAIN L[n].records |-> i]
  <2>1. \A i \in DOMAIN L[n].records : p[i] = i
    OBVIOUS
  <2> HIDE DEF p
  <2> QED
    BY <2>1
<1> QED
  BY <1>1 DEF Fewer

\* Nor does a crash, which cuts the logs at a record that was not synced.
LEMMA CrashLeavesFewer ==
  ASSUME LogsHoldRecords, NEW kind, ProcessDies(kind)
  PROVE  Fewer(logs, logs')
<1>1. PICK b \in Nat : \A k \in DOMAIN logs : logs[k].records \in Seq(RecordsTo(b))
  BY DEF LogsHoldRecords
<1>2. DOMAIN logs' = DOMAIN logs /\ \A k \in DOMAIN logs : logs'[k] \in Remains(logs[k], kind)
  BY DEF ProcessDies
<1>3. ASSUME NEW n \in DOMAIN logs'
      PROVE  \E p : \A i \in DOMAIN logs'[n].records :
               /\ n \in DOMAIN logs /\ p[i] \in DOMAIN logs[n].records
               /\ logs'[n].records[i] = logs[n].records[p[i]]
               /\ \A j \in DOMAIN logs'[n].records : i < j => p[i] < p[j]
  <2> DEFINE s == logs[n].records
  <2>1. PICK end, skip : logs'[n] = LeftOf(logs[n], kind, end, skip)
    BY <1>2 DEF Remains
  <2> DEFINE Q == (1..end) \ (Torn(logs[n]) \cup skip)
  <2>2. logs'[n].records = AtPlaces(s, Q)
    BY <2>1 DEF LeftOf
  <2>3. s \in Seq(RecordsTo(b))
    BY <1>1, <1>2
  <2> HIDE DEF Q
  <2> QED
    BY <1>2, <2>2, <2>3, AtPlacesKeepOrder
<1> QED
  BY <1>3 DEF Fewer

\* A record more at the end of the last log, with higher sequence numbers.
LEMMA AppendedKeepsOrder ==
  ASSUME LogsTyped, LogsBounded, NEW n \in Nat, \A k \in DOMAIN logs : k <= n, NEW r,
         logs' = [logs EXCEPT ![n].records = Append(@, r)], NEW a
  PROVE  /\ \A E : LogsAbove(logs, a, E) /\ AllAbove(EntriesOfRecord(r), E) => LogsAbove(logs', a, E)
         /\ \A s : LogsTo(logs, a, s) /\ SeqsTo(EntriesOfRecord(r), s) => LogsTo(logs', a, s)
         /\ \A s \in Nat : LogsInOrder(logs, a) /\ LogsTo(logs, a, s)
              /\ (\A e \in EntriesOfRecord(r) : e.seq \in Int /\ e.seq > s)
              /\ (\A k \in LogsFrom(logs, a) : \A i \in DOMAIN logs[k].records :
                    \A e \in RecordAt(logs, k, i) : e.seq \in Int)
              => LogsInOrder(logs', a)
<1>1. PICK S : logs \in [DOMAIN logs -> [records : Seq(S), synced : Nat]]
  BY DEF LogsTyped
<1>2. DOMAIN logs' = DOMAIN logs /\ DOMAIN logs \subseteq Nat
  BY DEF LogsBounded
<1>3. \A k \in DOMAIN logs : k # n => logs'[k] = logs[k]
  BY <1>2
<1>4. n \in DOMAIN logs => logs'[n].records = Append(logs[n].records, r)
  BY <1>1
<1>5. \A k \in DOMAIN logs : logs[k].records \in Seq(S)
  BY <1>1
<1> DEFINE isNew(k, i) == k = n /\ i = Len(logs[n].records) + 1
<1>6. \A k \in LogsFrom(logs', a) : \A i \in DOMAIN logs'[k].records :
        /\ k \in LogsFrom(logs, a) /\ k \in Nat /\ i \in Nat
        /\ \/ i \in DOMAIN logs[k].records /\ RecordAt(logs', k, i) = RecordAt(logs, k, i)
           \/ isNew(k, i) /\ RecordAt(logs', k, i) = EntriesOfRecord(r)
  <2> SUFFICES ASSUME NEW k \in DOMAIN logs, NEW i \in DOMAIN logs'[k].records
               PROVE  /\ i \in Nat
                      /\ \/ i \in DOMAIN logs[k].records /\ logs'[k].records[i] = logs[k].records[i]
                         \/ isNew(k, i) /\ logs'[k].records[i] = r
    BY <1>2 DEF LogsFrom, RecordAt
  <2>1. CASE k # n
    <3>1. logs[k].records \in Seq(S) /\ logs'[k].records = logs[k].records
      BY <1>3, <1>5, <2>1
    <3> QED
      BY <3>1
  <2>2. CASE k = n
    <3> DEFINE q == logs[n].records
    <3>1. q \in Seq(S) /\ logs'[k].records = Append(q, r)
      BY <1>4, <1>5, <2>2
    <3> HIDE DEF q
    <3>2. Len(q) \in Nat /\ DOMAIN q = 1..Len(q) /\ DOMAIN Append(q, r) = 1..(Len(q) + 1)
          /\ Append(q, r)[Len(q) + 1] = r /\ \A j \in 1..Len(q) : Append(q, r)[j] = q[j]
      BY <3>1
    <3>3. i \in 1..(Len(q) + 1)
      BY <3>1, <3>2
    <3>4. i \in Nat /\ (i \in 1..Len(q) \/ i = Len(q) + 1)
      BY <3>2, <3>3
    <3> QED
      BY <2>2, <3>1, <3>2, <3>4 DEF q
  <2> QED
    BY <2>1, <2>2
<1> HIDE DEF isNew
<1>7. ASSUME NEW E, LogsAbove(logs, a, E), AllAbove(EntriesOfRecord(r), E) PROVE LogsAbove(logs', a, E)
  <2> SUFFICES ASSUME NEW k \in LogsFrom(logs', a), NEW i \in DOMAIN logs'[k].records
               PROVE  AllAbove(RecordAt(logs', k, i), E)
    BY DEF LogsAbove
  <2>1. CASE k \in LogsFrom(logs, a) /\ i \in DOMAIN logs[k].records /\ RecordAt(logs', k, i) = RecordAt(logs, k, i)
    BY <1>7, <2>1 DEF LogsAbove
  <2> QED
    BY <1>6, <1>7, <2>1
<1>8. ASSUME NEW s, LogsTo(logs, a, s), SeqsTo(EntriesOfRecord(r), s) PROVE LogsTo(logs', a, s)
  <2> SUFFICES ASSUME NEW k \in LogsFrom(logs', a), NEW i \in DOMAIN logs'[k].records
               PROVE  SeqsTo(RecordAt(logs', k, i), s)
    BY DEF LogsTo
  <2>1. CASE k \in LogsFrom(logs, a) /\ i \in DOMAIN logs[k].records /\ RecordAt(logs', k, i) = RecordAt(logs, k, i)
    BY <1>8, <2>1 DEF LogsTo
  <2> QED
    BY <1>6, <1>8, <2>1
<1>9. ASSUME NEW s \in Nat, LogsInOrder(logs, a), LogsTo(logs, a, s),
             \A e \in EntriesOfRecord(r) : e.seq \in Int /\ e.seq > s,
             \A k \in LogsFrom(logs, a) : \A i \in DOMAIN logs[k].records :
                 \A e \in RecordAt(logs, k, i) : e.seq \in Int
      PROVE  LogsInOrder(logs', a)
  <2> SUFFICES ASSUME NEW m \in LogsFrom(logs', a), NEW k \in LogsFrom(logs', a),
                      NEW i \in DOMAIN logs'[m].records, NEW j \in DOMAIN logs'[k].records,
                      m < k \/ (m = k /\ i < j)
               PROVE  AllAbove(RecordAt(logs', k, j), RecordAt(logs', m, i))
    BY DEF LogsInOrder
  <2>1. m \in LogsFrom(logs, a) /\ k \in LogsFrom(logs, a) /\ m \in Nat /\ k \in Nat /\ i \in Nat /\ j \in Nat
    BY <1>6
  <2>2. m <= n /\ k <= n
    BY <2>1 DEF LogsFrom
  <2>3. CASE i \in DOMAIN logs[m].records /\ RecordAt(logs', m, i) = RecordAt(logs, m, i)
    <3>1. CASE j \in DOMAIN logs[k].records /\ RecordAt(logs', k, j) = RecordAt(logs, k, j)
      BY <1>9, <2>1, <2>3, <3>1 DEF LogsInOrder
    <3>2. CASE RecordAt(logs', k, j) = EntriesOfRecord(r)
      <4>1. \A d \in RecordAt(logs, m, i) : d.seq <= s /\ d.seq \in Int
        BY <1>9, <2>1, <2>3 DEF LogsTo, SeqsTo
      <4>2. \A e \in EntriesOfRecord(r) : \A d \in RecordAt(logs, m, i) : e.seq > d.seq
        BY <1>9, <4>1
      <4> QED
        BY <2>3, <3>2, <4>2 DEF AllAbove
    <3> QED
      BY <1>6, <3>1, <3>2
  <2>4. CASE isNew(m, i)
    <3>1. m = n /\ k = n /\ i = Len(logs[n].records) + 1
      BY <2>1, <2>2, <2>4 DEF isNew
    <3>2. logs[n].records \in Seq(S)
      BY <1>5, <2>1, <3>1 DEF LogsFrom
    <3>3. j \in DOMAIN logs[n].records \/ j = Len(logs[n].records) + 1
      BY <1>6, <3>1 DEF isNew
    <3>4. j <= Len(logs[n].records) + 1 /\ Len(logs[n].records) \in Nat
      BY <3>2, <3>3
    <3> QED
      BY <2>1, <3>1, <3>4
  <2> QED
    BY <1>6, <2>3, <2>4
<1> QED
  BY <1>7, <1>8, <1>9

\* The memtables a log is replayed into follow the order of its records.
LEMMA MemTablesInOrder ==
  ASSUME NEW S, NEW records \in Seq(S),
         \A i, j \in DOMAIN records :
            i < j => AllAbove(EntriesOfRecord(records[j]), EntriesOfRecord(records[i]))
  PROVE  LET ms == MemTablesOf(records)
         IN  /\ \A i \in DOMAIN ms : ms[i] \subseteq UNION {EntriesOfRecord(records[k]) : k \in DOMAIN records}
             /\ \A i, j \in DOMAIN ms : i < j => AllAbove(ms[j], ms[i])
<1> DEFINE n == Len(records)
           F(f) == f = [i \in 0..n |-> IF i = 0 THEN [full |-> <<>>, mem |-> {}]
                                      ELSE InsertRecord(f[i - 1], records[i])]
           c == CHOOSE f : F(f)
           E(i) == UNION {EntriesOfRecord(records[k]) : k \in 1..i}
           InOrder(q, m, B) == /\ q \in Seq(SUBSET B) /\ m \subseteq B
                               /\ \A k \in DOMAIN q : AllAbove(m, q[k])
                               /\ \A i, j \in DOMAIN q : i < j => AllAbove(q[j], q[i])
           P == {i \in 0..n : InOrder(c[i].full, c[i].mem, E(i))}
<1>1. n \in Nat /\ DOMAIN records = 1..n
  OBVIOUS
<1>2. MemTablesOf(records) = IF c[n].mem = {} THEN c[n].full ELSE Append(c[n].full, c[n].mem)
  BY DEF MemTablesOf
<1> HIDE DEF n
<1>3. \E f : F(f)
  BY <1>1, MemTablesExist
<1>4. F(c)
  <2> HIDE DEF F
  <2> QED
    BY <1>3
<1> HIDE DEF c
<1>5. c[0] = [full |-> <<>>, mem |-> {}]
  BY <1>1, <1>4
<1>6. ASSUME NEW i \in 1..n PROVE c[i] = InsertRecord(c[i - 1], records[i])
  <2>1. i \in 0..n /\ i # 0
    BY <1>1
  <2> QED
    BY <1>4, <2>1
<1> HIDE DEF F
\* A memtable that is full is put behind the others.
<1>7. ASSUME NEW B, NEW q, NEW m, InOrder(q, m, B)
      PROVE  /\ Append(q, m) \in Seq(SUBSET B)
             /\ \A i, j \in DOMAIN Append(q, m) : i < j => AllAbove(Append(q, m)[j], Append(q, m)[i])
  <2> DEFINE z == Len(q)
             a == Append(q, m)
  <2>1. q \in Seq(SUBSET B) /\ m \in SUBSET B
    BY <1>7
  <2>2. /\ a \in Seq(SUBSET B) /\ z \in Nat /\ DOMAIN a = 1..(z + 1) /\ DOMAIN q = 1..z
        /\ a[z + 1] = m /\ \A i \in 1..z : a[i] = q[i]
    BY <2>1
  <2> HIDE DEF z, a
  <2>3. ASSUME NEW i \in 1..(z + 1), NEW j \in 1..(z + 1), i < j PROVE AllAbove(a[j], a[i])
    <3>1. i \in 1..z /\ a[i] = q[i]
      BY <2>2, <2>3
    <3>2. CASE j = z + 1
      BY <1>7, <2>2, <3>1, <3>2
    <3>3. CASE j \in 1..z
      BY <1>7, <2>2, <2>3, <3>1, <3>3
    <3> QED
      BY <2>2, <3>2, <3>3
  <2> QED
    BY <2>2, <2>3 DEF a
<1>8. 0 \in P
  <2>1. 0 \in 0..n
    BY <1>1
  <2>2. InOrder(<<>>, {}, E(0))
    OBVIOUS
  <2>3. c[0].full = <<>> /\ c[0].mem = {}
    BY <1>5
  <2> HIDE DEF InOrder, E
  <2> QED
    BY <2>1, <2>2, <2>3
<1>9. ASSUME NEW i \in 1..n, i - 1 \in P PROVE i \in P
  <2> DEFINE q == c[i - 1].full
             w == c[i - 1].mem
             x == EntriesOfRecord(records[i])
             m == w \cup x
             B == E(i - 1)
  <2>1. InOrder(q, w, B)
    BY <1>9
  <2>2. c[i] = IF Cardinality(m) > WriteBufferSize
               THEN [full |-> Append(q, m), mem |-> {}] ELSE [full |-> q, mem |-> m]
    BY <1>6 DEF InsertRecord
  <2>3. \A k \in 1..(i - 1) : AllAbove(x, EntriesOfRecord(records[k]))
    BY <1>1
  <2>4. AllAbove(x, B)
    BY <2>3 DEF AllAbove
  <2>5. E(i) = B \cup x
    <3>1. 1..i = (1..(i - 1)) \cup {i}
      BY <1>1
    <3> QED
      BY <3>1
  <2> DEFINE D == E(i)
  <2> HIDE DEF x, B, q, w, E, D
  <2>6. InOrder(q, m, D)
    <3>1. q \in Seq(SUBSET D)
      <4>1. SUBSET B \subseteq SUBSET D
        BY <2>5 DEF D
      <4>2. q \in Seq(SUBSET B)
        BY <2>1
      <4> QED
        BY <4>1, <4>2
    <3>2. ASSUME NEW k \in DOMAIN q PROVE AllAbove(m, q[k])
      <4>1. q[k] \subseteq B /\ AllAbove(w, q[k])
        BY <2>1
      <4> QED
        BY <2>4, <4>1 DEF AllAbove
    <3>3. m \subseteq D
      BY <2>1, <2>5 DEF D
    <3> HIDE DEF m
    <3> QED
      BY <2>1, <3>1, <3>2, <3>3
  <2> HIDE DEF m
  <2>7. InOrder(Append(q, m), {}, D)
    <3>1. /\ Append(q, m) \in Seq(SUBSET D)
          /\ \A g, h \in DOMAIN Append(q, m) : g < h => AllAbove(Append(q, m)[h], Append(q, m)[g])
      <4> HIDE DEF InOrder
      <4> QED
        BY <1>7, <2>6
    <3> QED
      BY <3>1 DEF AllAbove
  <2>8. InOrder(c[i].full, c[i].mem, D)
    <3> HIDE DEF InOrder
    <3> QED
      BY <2>2, <2>6, <2>7
  <2>9. i \in 0..n
    BY <1>1
  <2> HIDE DEF InOrder
  <2> QED
    BY <2>8, <2>9 DEF D
<1>10. n \in P
  <2>1. 0..n \subseteq P
    <3> HIDE DEF P
    <3> QED
      BY <1>1, <1>8, <1>9, UpTo
  <2> HIDE DEF P
  <2> QED
    BY <1>1, <2>1
<1> DEFINE ms == MemTablesOf(records)
<1>11. InOrder(c[n].full, c[n].mem, E(n))
  BY <1>10
<1>12. ms \in Seq(SUBSET E(n)) /\ \A i, j \in DOMAIN ms : i < j => AllAbove(ms[j], ms[i])
  <2> HIDE DEF E
  <2>1. CASE ms = c[n].full
    BY <1>11, <2>1
  <2>2. CASE ms = Append(c[n].full, c[n].mem)
    <3> HIDE DEF InOrder, ms
    <3> QED
      BY <1>7, <1>11, <2>2
  <2> QED
    BY <1>2, <2>1, <2>2
<1>13. \A i \in DOMAIN ms : ms[i] \subseteq E(n)
  <2> HIDE DEF ms, E
  <2> QED
    BY <1>12
<1> DEFINE all == UNION {EntriesOfRecord(records[k]) : k \in DOMAIN records}
<1>14. E(n) = all
  BY <1>1
<1> HIDE DEF ms, E, all
<1>15. \A i \in DOMAIN ms : ms[i] \subseteq all
  BY <1>13, <1>14
<1> QED
  BY <1>12, <1>15 DEF ms, all

\* The tables of a recovery are numbered in the order of the records they hold.
LEMMA RecoveredInOrder ==
  ASSUME LogsTyped, LogsBounded, LogsHoldRecords, manifest.next \in Nat,
         LogsInOrder(logs, manifest.log), NEW E, LogsAbove(logs, manifest.log, E)
  PROVE  /\ \A f \in Recovered.files : AllAbove(f.entries, E)
         /\ \A f, g \in Recovered.files : f.number > g.number => AllAbove(f.entries, g.entries)
<1>0. PICK b \in Nat : \A k \in DOMAIN logs : logs[k].records \in Seq(RecordsTo(b))
  BY DEF LogsHoldRecords
<1> DEFINE F(f) == f = [n \in 0..LastLog |->
                          RecoverUpTo(IF n = 0 THEN [files |-> {}, next |-> manifest.next + 1]
                                      ELSE f[n - 1], n)]
           c == CHOOSE f : F(f)
           Of(n) == UNION {UNION {RecordAt(logs, k, i) : i \in DOMAIN logs[k].records} :
                             k \in {m \in LogsFrom(logs, manifest.log) : m <= n}}
           Good(acc, B) ==
             /\ acc.next \in Nat
             /\ \A f \in acc.files : f.number \in Nat /\ f.number < acc.next /\ f.entries \subseteq B
             /\ \A f, g \in acc.files : f.number > g.number => AllAbove(f.entries, g.entries)
           P == {n \in 0..LastLog : Good(c[n], Of(n))}
<1>1. LastLog \in Nat /\ DOMAIN logs \subseteq 0..LastLog
  BY LastLogIsLast
<1>2. Recovered = c[LastLog]
  BY DEF Recovered
<1>3. \E f : F(f)
  BY <1>1, RecoveredExists
<1>4. F(c)
  <2> HIDE DEF F
  <2> QED
    BY <1>3
<1> HIDE DEF c
\* One log more.
<1>5. ASSUME NEW acc, NEW B, Good(acc, B), NEW n \in 0..LastLog, NEW D, B \subseteq D,
             n \in LogsFrom(logs, manifest.log) =>
               \A i \in DOMAIN logs[n].records :
                 AllAbove(RecordAt(logs, n, i), B) /\ RecordAt(logs, n, i) \subseteq D
      PROVE  Good(RecoverUpTo(acc, n), D)
  <2> DEFINE ms == MemTablesOf(logs[n].records)
             r == RecoverLogFile(acc, n)
  <2>1. CASE ~(n \in DOMAIN logs /\ n >= manifest.log)
    <3>1. RecoverUpTo(acc, n) = acc
      BY <2>1 DEF RecoverUpTo
    <3>2. \A f \in acc.files : f.entries \subseteq D
      BY <1>5
    <3> QED
      BY <1>5, <3>1, <3>2
  <2>2. CASE n \in DOMAIN logs /\ n >= manifest.log
    <3>1. RecoverUpTo(acc, n) = r /\ n \in LogsFrom(logs, manifest.log) /\ n \in Nat
      BY <2>2 DEF RecoverUpTo, LogsFrom
    <3>2. logs[n].records \in Seq(RecordsTo(b))
      BY <1>0, <2>2
    <3>3. \A i, j \in DOMAIN logs[n].records :
             i < j => AllAbove(EntriesOfRecord(logs[n].records[j]), EntriesOfRecord(logs[n].records[i]))
      BY <3>1 DEF LogsInOrder, RecordAt
    <3> DEFINE all == UNION {EntriesOfRecord(logs[n].records[k]) : k \in DOMAIN logs[n].records}
    <3>4. /\ \A i \in DOMAIN ms : ms[i] \subseteq all
          /\ \A i, j \in DOMAIN ms : i < j => AllAbove(ms[j], ms[i])
      BY <3>2, <3>3, MemTablesInOrder
    <3>5. AllAbove(all, B) /\ all \subseteq D
      BY <1>5, <3>1 DEF AllAbove, RecordAt
    <3>6. Len(ms) \in Nat /\ DOMAIN ms = 1..Len(ms)
      <4> DEFINE X == UNION {EntriesOfRecord(x) : x \in RecordsTo(b)}
                 U == SUBSET X
      <4>1. \A x \in RecordsTo(b) : EntriesOfRecord(x) \subseteq X
        OBVIOUS
      <4> HIDE DEF X
      <4>2. ms \in Seq(U \ {{}})
        BY <3>2, <4>1, MemTablesInSeq
      <4> HIDE DEF ms, U
      <4> QED
        BY <4>2
    <3>7. /\ r.files = acc.files \cup {File(acc.next + i - 1, ms[i]) : i \in DOMAIN ms}
          /\ r.next = IF acc.next + Len(ms) <= n THEN n + 1 ELSE acc.next + Len(ms)
      BY DEF RecoverLogFile, WithTables
    <3> HIDE DEF ms, r, all
    <3>8. acc.next \in Nat /\ r.next \in Nat /\ acc.next + Len(ms) <= r.next
      BY <1>5, <3>1, <3>6, <3>7
    <3>9. \A f \in acc.files : f.number \in Nat /\ f.number < acc.next /\ f.entries \subseteq B
      BY <1>5
    <3>10. ASSUME NEW f \in r.files
           PROVE  \/ f \in acc.files
                  \/ \E i \in 1..Len(ms) : f.number = acc.next + i - 1 /\ f.entries = ms[i]
      BY <3>6, <3>7 DEF File
    <3>11. ASSUME NEW f \in r.files
           PROVE  f.number \in Nat /\ f.number < r.next /\ f.entries \subseteq D
      <4>1. CASE f \in acc.files
        BY <1>5, <3>6, <3>8, <3>9, <4>1
      <4>2. ASSUME NEW i \in 1..Len(ms), f.number = acc.next + i - 1, f.entries = ms[i]
            PROVE  f.number \in Nat /\ f.number < r.next /\ f.entries \subseteq D
        <5>1. f.entries \subseteq D
          BY <3>4, <3>5, <3>6, <4>2
        <5> QED
          BY <3>6, <3>8, <4>2, <5>1
      <4> QED
        BY <3>10, <4>1, <4>2
    <3>12. ASSUME NEW f \in r.files, NEW g \in r.files, f.number > g.number
           PROVE  AllAbove(f.entries, g.entries)
      <4>1. CASE f \in acc.files /\ g \in acc.files
        BY <1>5, <3>12, <4>1
      <4>2. ASSUME NEW i \in 1..Len(ms), f.number = acc.next + i - 1, f.entries = ms[i], g \in acc.files
            PROVE  AllAbove(f.entries, g.entries)
        <5>1. ms[i] \subseteq all /\ g.entries \subseteq B
          BY <3>4, <3>6, <3>9, <4>2
        <5> QED
          BY <3>5, <4>2, <5>1 DEF AllAbove
      <4>3. ASSUME NEW i \in 1..Len(ms), f \in acc.files, g.number = acc.next + i - 1
            PROVE  FALSE
        BY <3>6, <3>8, <3>9, <3>12, <4>3
      <4>4. ASSUME NEW i \in 1..Len(ms), f.number = acc.next + i - 1, f.entries = ms[i],
                   NEW j \in 1..Len(ms), g.number = acc.next + j - 1, g.entries = ms[j]
            PROVE  AllAbove(f.entries, g.entries)
        <5>1. j < i
          BY <3>6, <3>8, <3>12, <4>4
        <5> QED
          BY <3>4, <3>6, <4>4, <5>1
      <4> QED
        BY <3>10, <4>1, <4>2, <4>3, <4>4
    <3>13. Good(r, D)
      BY <3>8, <3>11, <3>12
    <3> HIDE DEF Good
    <3> QED
      BY <3>1, <3>13
  <2> QED
    BY <2>1, <2>2
<1>6. \A n \in 0..LastLog : n \in LogsFrom(logs, manifest.log) =>
         \A i \in DOMAIN logs[n].records : RecordAt(logs, n, i) \subseteq Of(n)
  OBVIOUS
<1>7. \A n \in 1..LastLog : Of(n - 1) \subseteq Of(n)
  <2> SUFFICES ASSUME NEW n \in 1..LastLog PROVE Of(n - 1) \subseteq Of(n)
    OBVIOUS
  <2>1. {m \in LogsFrom(logs, manifest.log) : m <= n - 1} \subseteq {m \in LogsFrom(logs, manifest.log) : m <= n}
    BY <1>1 DEF LogsFrom
  <2> QED
    BY <2>1
<1>8. ASSUME NEW n \in 1..LastLog, n \in LogsFrom(logs, manifest.log), NEW i \in DOMAIN logs[n].records
      PROVE  AllAbove(RecordAt(logs, n, i), Of(n - 1))
  <2>1. \A k \in LogsFrom(logs, manifest.log) : k <= n - 1 => k < n
    BY <1>1 DEF LogsFrom
  <2>2. \A k \in LogsFrom(logs, manifest.log) : k <= n - 1 =>
           \A j \in DOMAIN logs[k].records : AllAbove(RecordAt(logs, n, i), RecordAt(logs, k, j))
    BY <1>8, <2>1 DEF LogsInOrder
  <2> QED
    BY <2>2 DEF AllAbove
<1> HIDE DEF Of
<1>9. 0 \in P
  <2> DEFINE a == [files |-> {}, next |-> manifest.next + 1]
  <2>1. 0 \in 0..LastLog
    BY <1>1
  <2>2. c[0] = RecoverUpTo(a, 0)
    BY <1>4, <2>1
  <2>3. Good(a, {})
    OBVIOUS
  <2>4. \A D : AllAbove(D, {})
    BY DEF AllAbove
  <2>5. Good(c[0], Of(0))
    <3> HIDE DEF a, Good
    <3>1. {} \subseteq Of(0)
      OBVIOUS
    <3> QED
      BY <1>5, <1>6, <2>1, <2>2, <2>3, <2>4, <3>1
  <2> HIDE DEF Good
  <2> QED
    BY <2>1, <2>5
<1>10. ASSUME NEW n \in 1..LastLog, n - 1 \in P PROVE n \in P
  <2>1. n \in 0..LastLog /\ n # 0
    BY <1>1
  <2>2. c[n] = RecoverUpTo(c[n - 1], n)
    BY <1>4, <2>1
  <2>3. Good(c[n - 1], Of(n - 1))
    BY <1>10
  <2> HIDE DEF Good
  <2>4. Of(n - 1) \subseteq Of(n)
    BY <1>7
  <2>5. n \in LogsFrom(logs, manifest.log) =>
               \A i \in DOMAIN logs[n].records :
                 AllAbove(RecordAt(logs, n, i), Of(n - 1)) /\ RecordAt(logs, n, i) \subseteq Of(n)
    BY <1>6, <1>8, <2>1
  <2>6. Good(c[n], Of(n))
    BY <1>5, <2>1, <2>2, <2>3, <2>4, <2>5
  <2> QED
    BY <2>1, <2>6
<1> HIDE DEF F
<1>11. LastLog \in P
  <2> HIDE DEF P
  <2>1. 0..LastLog \subseteq P
    BY <1>1, <1>9, <1>10, UpTo
  <2> QED
    BY <1>1, <2>1
<1>12. Good(Recovered, Of(LastLog))
  <2> HIDE DEF Good
  <2> QED
    BY <1>2, <1>11
<1>13. AllAbove(Of(LastLog), E)
  <2>1. \A k \in LogsFrom(logs, manifest.log) : \A i \in DOMAIN logs[k].records : AllAbove(RecordAt(logs, k, i), E)
    BY DEF LogsAbove
  <2> QED
    BY <2>1 DEF AllAbove, Of
<1>14. \A f \in Recovered.files : f.entries \subseteq Of(LastLog)
  BY <1>12
<1> QED
  BY <1>12, <1>13, <1>14 DEF AllAbove

-----------------------------------------------------------------------------
(* Counters, errors and copies                                             *)

\* What the MANIFEST holds once an edit has been written, or partly.
LEMMA ManifestAfter ==
  ASSUME Shapes, EditWritten \/ EditFails
  PROVE  \/ up = "recovering" /\ manifest' = Whole(NewVersion, edit)
         \/ /\ up # "recovering" /\ manifest' = Whole(ApplyEdit(manifest.version, edit), edit)
            /\ manifest.state \notin {"torn", "corrupt"}
         \/ /\ manifest'.version = manifest.version /\ manifest'.log = manifest.log
            /\ manifest'.last = manifest.last
            /\ manifest'.state # "corrupt" => manifest.state # "corrupt" /\ EditFails
<1>1. DOMAIN manifest = {"state", "version", "log", "next", "last"}
  BY DEF Shapes
<1>2. CASE up = "recovering" /\ manifest' = Whole(ApplyEdit(current, edit), edit)
  BY <1>2 DEF NewVersion
<1>3. CASE /\ up # "recovering" /\ manifest' = Whole(ApplyEdit(manifest.version, edit), edit)
           /\ manifest.state \notin {"torn", "corrupt"}
  BY <1>3
<1>4. CASE manifest' = [manifest EXCEPT !.state = "corrupt"]
  BY <1>1, <1>4
<1>5. CASE EditFails /\ manifest' = manifest
  BY <1>5
<1>6. CASE EditFails /\ manifest' = [manifest EXCEPT !.state = IF @ = "whole" THEN "torn" ELSE @]
  BY <1>1, <1>6
<1>7. \/ Appended(manifest, edit) = [manifest EXCEPT !.state = "corrupt"]
      \/ /\ Appended(manifest, edit) = Whole(ApplyEdit(manifest.version, edit), edit)
         /\ manifest.state \notin {"torn", "corrupt"}
  BY DEF Appended
<1>8. \/ up = "recovering" /\ manifest' = Whole(ApplyEdit(current, edit), edit)
      \/ up # "recovering" /\ manifest' = Appended(manifest, edit)
      \/ EditFails /\ manifest' = manifest
      \/ EditFails /\ manifest' = [manifest EXCEPT !.state = IF @ = "whole" THEN "torn" ELSE @]
  BY DEF EditWritten, EditFails
<1> QED
  BY <1>2, <1>3, <1>4, <1>5, <1>6, <1>7, <1>8

\* A group uses up sequence numbers.
LEMMA GroupCounts ==
  ASSUME WritersTyped, lastSequence \in Nat, group # None
  PROVE  /\ Len(OpsOf(group.size)) \in Nat
         /\ \A e \in EntriesOfRecord(GroupRecord) :
              /\ e.seq \in Int /\ e.seq > lastSequence
              /\ e.seq <= lastSequence + Len(OpsOf(group.size))
<1> DEFINE ops == OpsOf(group.size)
<1>1. ops \in Seq(Operations)
  BY GroupRecordIsGood
<1>2. GroupRecord.seq = lastSequence + 1 /\ GroupRecord.ops = ops
  BY DEF GroupRecord
<1> HIDE DEF ops
<1>3. Len(ops) \in Nat /\ DOMAIN ops = 1..Len(ops)
  BY <1>1
<1>4. ASSUME NEW e \in EntriesOfRecord(GroupRecord)
      PROVE  e.seq \in Int /\ e.seq > lastSequence /\ e.seq <= lastSequence + Len(ops)
  <2>1. PICK i \in 1..Len(ops) : e.seq = lastSequence + 1 + i - 1
    BY <1>2, <1>3 DEF EntriesOfRecord
  <2> QED
    BY <1>3, <2>1
<1> QED
  BY <1>3, <1>4 DEF ops

\* Each step, by what it does to the counters, the logs and the MANIFEST.
LEMMA LogIsLastNext ==
  ASSUME FileInv, LogIsLast, [Next]_vars
  PROVE  LogIsLast'
<1>1. CASE UNCHANGED <<up, logfileNumber>> /\ DOMAIN logs' \subseteq DOMAIN logs
  BY <1>1 DEF LogIsLast
<1>2. CASE up = "open" /\ SwitchMemTable
  <2>1. logfileNumber' = nextFileNumber /\ DOMAIN logs' = DOMAIN logs \cup {nextFileNumber}
    BY <1>2 DEF SwitchMemTable, WithLog
  <2>2. nextFileNumber \in Nat /\ \A n \in DOMAIN logs : n \in Nat /\ n < nextFileNumber
    BY <1>2 DEF FileInv, CountsAreAhead
  <2> QED
    BY <2>1, <2>2 DEF LogIsLast
<1>3. CASE up' = "closed"
  BY <1>3 DEF LogIsLast
<1>4. CASE Recover
  <2>1. logfileNumber' = Recovered.next /\ DOMAIN logs' = DOMAIN logs \cup {Recovered.next}
    BY <1>4 DEF Recover, WithLog
  <2>2. /\ Recovered.next \in Nat /\ manifest.next < Recovered.next
        /\ \A n \in DOMAIN logs : n >= manifest.log => n < Recovered.next
    BY RecoveryCounts DEF FileInv, ManifestCounts
  <2>3. manifest.log \in Nat /\ manifest.next \in Nat /\ manifest.log <= manifest.next
    BY DEF FileInv, ManifestCounts
  <2>4. \A n \in DOMAIN logs : n \in Nat
    BY DEF FileInv, LogsBounded
  <2>5. \A n \in DOMAIN logs : n < Recovered.next
    BY <2>2, <2>3, <2>4
  <2> QED
    BY <2>1, <2>2, <2>4, <2>5 DEF LogIsLast
<1>5. CASE Write
  BY <1>1, <1>2, <1>5
     DEF Write, Enqueue, BeginWrite, ForceSwitch, RefuseWrite, AddRecord, SyncLog, ApplyWrite,
         AddRecordFails, SyncFails, NoSwitch, AtHead, memVars, diskVars
<1>6. CASE Background
  BY <1>1, <1>6
     DEF Background, StartFlush, FlushBuilt, BuildTableFails, StartTrivialMove, StartCompaction,
         BackgroundCallIdle, WriteOutput, FinishCompaction, OutputFails, EditWritten, EditFails,
         InstallFlush, InstallMove, InstallCompaction, DeleteObsoleteFiles, Restrict2, memVars, diskVars
<1>7. CASE Read
  BY <1>1, <1>7 DEF Read, StartRead, EndRead, GetSnapshot, ReleaseSnapshot, RequestCompactRange,
                    memVars, diskVars
<1>8. CASE OpenInstalled
  <2>1. up # "closed" /\ logfileNumber' = logfileNumber /\ DOMAIN logs' \subseteq DOMAIN logs
    BY <1>8 DEF OpenInstalled, DeleteObsoleteFiles, Restrict2, memVars
  <2> QED
    BY <2>1 DEF LogIsLast
<1>9. CASE NewDB \/ OpenFails \/ Abort \/ \E kind \in {"process", "machine"} : Crash(kind)
  BY <1>1, <1>3, <1>9 DEF NewDB, OpenFails, Abort, Crash, ProcessDies, memVars
<1> QED
  BY <1>1, <1>4, <1>5, <1>6, <1>7, <1>8, <1>9 DEF Next, Open, vars, memVars, diskVars

\* The counters stay ahead of what the MANIFEST and the edit hold.
LEMMA LastCountsNext ==
  ASSUME FileInv, TypedInv, LastCounts, [Next]_vars
  PROVE  LastCounts'
<1>0. /\ Shapes /\ Quiet /\ WritersTyped /\ CountsTyped /\ LogsHoldRecords
      /\ logfileNumber \in Nat /\ logNumber \in Nat /\ nextFileNumber \in Nat /\ lastSequence \in Nat
      /\ manifest.last \in Nat /\ (edit # None => edit.last \in Nat /\ edit.log \in Nat)
  BY DEF FileInv, EditCounts, TypedInv, TypeInv, CountsTyped
<1>1. CASE UNCHANGED <<up, edit, manifest, lastSequence, mem, imm, logNumber, logfileNumber, logs>>
  BY <1>1 DEF LastCounts
<1>2. CASE /\ up = "open" /\ UNCHANGED <<up, manifest, edit, logNumber>>
           /\ lastSequence' \in Nat /\ lastSequence <= lastSequence'
           /\ logfileNumber' \in Nat /\ logfileNumber <= logfileNumber'
  BY <1>0, <1>2 DEF LastCounts
<1>3. CASE /\ up = "open" /\ UNCHANGED <<up, manifest, lastSequence, logNumber, logfileNumber>>
           /\ edit'.last = lastSequence /\ edit'.log \in {logfileNumber, logNumber}
  BY <1>0, <1>3 DEF LastCounts
<1>4. CASE EditWritten \/ EditFails
  <2>1. /\ edit # None /\ edit' \in {edit, None}
        /\ UNCHANGED <<up, lastSequence, mem, imm, logNumber, logfileNumber, logs>>
    BY <1>4 DEF EditWritten, EditFails, memVars, setVars, countVars
  <2>2. \A v : Whole(v, edit).last = edit.last
    BY DEF Whole
  <2>3. manifest'.last \in {manifest.last, edit.last}
    BY <1>0, <1>4, <2>2, ManifestAfter
  <2> QED
    BY <1>0, <2>1, <2>3 DEF LastCounts
<1>5. CASE /\ edit # None /\ InstallVersion /\ up' = "open"
           /\ UNCHANGED <<manifest, lastSequence, logfileNumber>>
  <2>1. edit' = None /\ logNumber' = edit.log
    BY <1>5 DEF InstallVersion
  <2>2. up # "closed"
    BY <1>0, <1>5 DEF Quiet
  <2> QED
    BY <1>0, <1>5, <2>1, <2>2 DEF LastCounts
<1>6. CASE Recover
  <2> DEFINE Q == {manifest.last} \cup {e.seq : e \in EntriesOf(Recovered.files)}
  <2>1. /\ up = "closed" /\ up' = "recovering" /\ logNumber' = manifest.log
        /\ logfileNumber' = Recovered.next /\ lastSequence' = Max2(Q)
        /\ logs' = WithLog(Recovered.next)
        /\ edit'.last = lastSequence' /\ edit'.log = Recovered.next
        /\ UNCHANGED <<manifest, mem, imm>>
    BY <1>6 DEF Recover
  <2>2. manifest.last <= Max2(Q) /\ Max2(Q) \in Nat
    BY <1>0, RecoveredTables DEF FileInv, ManifestCounts
  <2>3. /\ Recovered.next \in Nat /\ manifest.next < Recovered.next
        /\ \A n \in DOMAIN logs : n >= manifest.log => n < Recovered.next
    BY RecoveryCounts DEF FileInv, ManifestCounts
  <2>4. manifest.log \in Nat /\ manifest.next \in Nat /\ manifest.log <= manifest.next
    BY DEF FileInv, ManifestCounts
  <2>5. \A n \in DOMAIN logs : n \in Nat
    BY DEF FileInv, LogsBounded
  <2> HIDE DEF Q
  <2>6. \A n \in LogsFrom(logs', logfileNumber') : n = Recovered.next
    <3>1. DOMAIN logs' = DOMAIN logs \cup {Recovered.next}
      BY <2>1 DEF WithLog
    <3> QED
      BY <2>1, <2>3, <2>4, <2>5, <3>1 DEF LogsFrom
  <2>7. logs'[Recovered.next].records = <<>>
    BY <2>1, NewLogHasFewer
  <2> QED
    BY <1>0, <2>1, <2>2, <2>3, <2>4, <2>6, <2>7 DEF LastCounts
<1>7. CASE up' = "closed" /\ mem' = {} /\ imm' = None /\ edit' = None
  BY <1>7 DEF LastCounts
<1>8. CASE Write
  <2>1. CASE \E w \in Writers : Enqueue(w) \/ RefuseWrite(w)
    BY <1>1, <2>1 DEF Enqueue, RefuseWrite, memVars, setVars, countVars, bgVars, diskVars
  <2>2. CASE \E w \in Writers : BeginWrite(w) \/ ForceSwitch(w)
    <3>1. up = "open" /\ UNCHANGED <<up, manifest, edit, logNumber, lastSequence>>
      BY <2>2 DEF BeginWrite, ForceSwitch, AtHead
    <3>2. logfileNumber' \in {logfileNumber, nextFileNumber}
      BY <2>2 DEF BeginWrite, ForceSwitch, NoSwitch, SwitchMemTable, memVars
    <3>3. logfileNumber <= nextFileNumber
      BY <3>1 DEF FileInv, CountsAreAhead
    <3> QED
      BY <1>0, <1>2, <3>1, <3>2, <3>3
  <2>3. CASE AddRecord \/ SyncLog \/ ApplyWrite \/ AddRecordFails \/ SyncFails
    <3>1. /\ group # None /\ UNCHANGED <<up, manifest, edit, logNumber, logfileNumber>>
          /\ lastSequence' \in {lastSequence, lastSequence + Len(OpsOf(group.size))}
      BY <2>3 DEF AddRecord, SyncLog, ApplyWrite, AddRecordFails, SyncFails, FinishGroup, memVars,
                  setVars, countVars, bgVars, diskVars
    <3>2. Len(OpsOf(group.size)) \in Nat
      BY <1>0, <3>1, GroupCounts
    <3>3. up = "open"
      BY <1>0, <3>1 DEF Quiet
    <3> QED
      BY <1>0, <1>2, <3>1, <3>2, <3>3
  <2> QED
    BY <1>8, <2>1, <2>2, <2>3 DEF Write
<1>9. CASE Background
  <2>1. CASE StartFlush \/ BuildTableFails \/ StartCompaction \/ BackgroundCallIdle \/ WriteOutput \/ OutputFails
    <3>1. CASE StartFlush \/ BuildTableFails \/ OutputFails
      BY <1>1, <3>1 DEF StartFlush, BuildTableFails, OutputFails, memVars, setVars, countVars, diskVars
    <3>2. CASE StartCompaction \/ BackgroundCallIdle
      BY <1>1, <3>2 DEF StartCompaction, BackgroundCallIdle, memVars, setVars, countVars, diskVars
    <3>3. CASE WriteOutput
      BY <1>1, <3>3 DEF WriteOutput, memVars, setVars, countVars, diskVars
    <3> QED
      BY <2>1, <3>1, <3>2, <3>3
  <2>2. CASE FlushBuilt \/ StartTrivialMove \/ FinishCompaction
    <3>1. /\ UNCHANGED <<up, manifest, lastSequence, logNumber, logfileNumber>>
          /\ flush # None \/ compact # None \/ up = "open"
      BY <2>2 DEF FlushBuilt, StartTrivialMove, FinishCompaction, BackgroundCompaction, memVars, setVars,
                  countVars, diskVars
    <3>2. up = "open"
      BY <1>0, <3>1 DEF Quiet
    <3>3. /\ FlushEdit.last = lastSequence /\ FlushEdit.log = logfileNumber
          /\ CompactionEdit.last = lastSequence /\ CompactionEdit.log = logNumber
          /\ \A c : MoveEdit(c).last = lastSequence /\ MoveEdit(c).log = logNumber
      BY DEF FlushEdit, CompactionEdit, MoveEdit
    <3>4. edit'.last = lastSequence /\ edit'.log \in {logfileNumber, logNumber}
      BY <2>2, <3>3 DEF FlushBuilt, StartTrivialMove, FinishCompaction, LogAndApply
    <3> QED
      BY <1>3, <3>1, <3>2, <3>4
  <2>3. CASE InstallFlush \/ InstallMove \/ InstallCompaction
    <3>1. /\ edit # None /\ InstallVersion /\ UNCHANGED <<up, manifest, lastSequence, logfileNumber>>
          /\ flush # None \/ compact # None \/ up = "open"
      BY <2>3 DEF InstallFlush, InstallMove, InstallCompaction, memVars, countVars, diskVars
    <3> QED
      BY <1>0, <1>5, <3>1 DEF Quiet
  <2> QED
    BY <1>4, <1>9, <2>1, <2>2, <2>3 DEF Background
<1>10. CASE Read
  BY <1>1, <1>10 DEF Read, StartRead, EndRead, GetSnapshot, ReleaseSnapshot, RequestCompactRange,
                     memVars, setVars, countVars, bgVars, diskVars
<1>11. CASE NewDB
  <2>1. /\ up' = "closed" /\ up = "closed" /\ UNCHANGED <<mem, imm, edit>>
    BY <1>11 DEF NewDB, memVars, bgVars
  <2> QED
    BY <1>0, <1>7, <2>1 DEF LastCounts, Quiet
<1>12. CASE OpenInstalled
  BY <1>5, <1>12 DEF OpenInstalled, countVars, memVars
<1>13. CASE OpenFails \/ Abort \/ \E kind \in {"process", "machine"} : Crash(kind)
  BY <1>7, <1>13 DEF OpenFails, Abort, Crash, ProcessDies
<1> QED
  BY <1>1, <1>6, <1>8, <1>9, <1>10, <1>11, <1>12, <1>13
     DEF Next, Open, vars, memVars, setVars, countVars, bgVars, diskVars

\* A memtable that is flushed stays what it is until the flush is over.
LEMMA FlushKeeps ==
  ASSUME FileInv, TypedInv, [Next]_vars, flush # None, flush' # None
  PROVE  UNCHANGED <<flush, imm, current, logfileNumber, up>> /\ up = "open"
<1>0. Quiet /\ imm # None /\ up = "open"
  BY DEF FileInv, Quiet, TypedInv, TypeInv, WorkTyped
<1>1. ~SwitchMemTable
  BY <1>0 DEF SwitchMemTable
<1>2. CASE UNCHANGED <<flush, imm, current, logfileNumber, up>>
  BY <1>0, <1>2
<1>3. CASE Write
  BY <1>1, <1>2, <1>3
     DEF Write, Enqueue, BeginWrite, ForceSwitch, RefuseWrite, AddRecord, SyncLog, ApplyWrite,
         AddRecordFails, SyncFails, NoSwitch, memVars, setVars, bgVars
<1>4. CASE Background
  <2>1. CASE StartFlush \/ BuildTableFails \/ BackgroundCallIdle
    BY <1>2, <2>1 DEF StartFlush, BuildTableFails, BackgroundCallIdle, NoBackgroundWork, memVars,
       setVars
  <2>2. CASE StartCompaction \/ OutputFails
    BY <1>2, <2>2 DEF StartCompaction, OutputFails, BackgroundCompaction, NoBackgroundWork, memVars,
       setVars
  <2>3. CASE WriteOutput
    BY <1>2, <2>3 DEF WriteOutput, memVars, setVars
  <2>4. CASE FlushBuilt \/ StartTrivialMove \/ FinishCompaction
    BY <1>2, <2>4 DEF FlushBuilt, StartTrivialMove, FinishCompaction, BackgroundCompaction,
       NoBackgroundWork, memVars, setVars
  <2>5. CASE EditWritten \/ EditFails
    BY <1>2, <2>5 DEF EditWritten, EditFails, memVars, setVars
  <2>6. CASE InstallFlush \/ InstallMove \/ InstallCompaction
    BY <1>2, <2>6 DEF InstallFlush, InstallMove, InstallCompaction, memVars, setVars
  <2> QED
    BY <1>4, <2>1, <2>2, <2>3, <2>4, <2>5, <2>6 DEF Background
<1>5. CASE Read
  BY <1>2, <1>5 DEF Read, StartRead, EndRead, GetSnapshot, ReleaseSnapshot, RequestCompactRange,
                    memVars, setVars, bgVars
<1>6. CASE Open
  BY <1>0, <1>6 DEF Open, NewDB, Recover, OpenInstalled, OpenFails
<1>7. CASE Abort \/ \E kind \in {"process", "machine"} : Crash(kind)
  BY <1>7 DEF Abort, Crash, ProcessDies
<1> QED
  BY <1>2, <1>3, <1>4, <1>5, <1>6, <1>7 DEF Next, vars, memVars, setVars, bgVars

\* What a step may do to the edit while a memtable is flushed.
LEMMA FlushFormNext ==
  ASSUME FileInv, TypedInv, FlushForm, [Next]_vars
  PROVE  FlushForm'
<1> SUFFICES ASSUME edit' # None, flush' # None PROVE FlushForm'
  BY DEF FlushForm
<1>1. CASE flush = None
  <2>1. Quiet
    BY DEF FileInv
  <2>2. CASE Write \/ Read
    BY <1>1, <2>2 DEF Write, Enqueue, BeginWrite, ForceSwitch, RefuseWrite, AddRecord, SyncLog, ApplyWrite,
         AddRecordFails, SyncFails, bgVars, Read, StartRead, EndRead, GetSnapshot, ReleaseSnapshot,
         RequestCompactRange
  <2>3. CASE Background
    <3>1. CASE StartFlush \/ BuildTableFails \/ BackgroundCallIdle
      BY <1>1, <3>1 DEF StartFlush, BuildTableFails, BackgroundCallIdle, NoBackgroundWork
    <3>2. CASE StartCompaction \/ OutputFails
      BY <1>1, <3>2 DEF StartCompaction, OutputFails, BackgroundCompaction, NoBackgroundWork
    <3>3. CASE WriteOutput
      BY <1>1, <3>3 DEF WriteOutput
    <3>4. CASE FlushBuilt \/ StartTrivialMove \/ FinishCompaction
      BY <1>1, <3>4 DEF FlushBuilt, StartTrivialMove, FinishCompaction, BackgroundCompaction,
         NoBackgroundWork
    <3>5. CASE EditWritten \/ EditFails
      BY <1>1, <3>5 DEF EditWritten, EditFails
    <3>6. CASE InstallFlush \/ InstallMove \/ InstallCompaction
      BY <1>1, <3>6 DEF InstallFlush, InstallMove, InstallCompaction
    <3> QED
      BY <2>3, <3>1, <3>2, <3>3, <3>4, <3>5, <3>6 DEF Background
  <2>4. CASE Open \/ Abort \/ \E kind \in {"process", "machine"} : Crash(kind)
    BY <1>1, <2>4 DEF Open, NewDB, Recover, OpenInstalled, OpenFails, Abort, Crash, ProcessDies, bgVars
  <2> QED
    BY <1>1, <2>2, <2>3, <2>4 DEF Next, vars, bgVars
<1>2. CASE flush # None
  <2>1. UNCHANGED <<flush, imm, current, logfileNumber, up>> /\ up = "open"
    BY <1>2, FlushKeeps
  <2>2. CASE edit' = edit
    BY <1>2, <2>1, <2>2 DEF FlushForm
  <2>3. CASE edit' = FlushEdit
    <3>1. FlushEdit.log = logfileNumber
      BY DEF FlushEdit
    <3> QED
      BY <2>1, <2>3, <3>1, FlushEditIs DEF FlushForm
  <2>4. CASE Write \/ Read
    BY <2>2, <2>4 DEF Write, Enqueue, BeginWrite, ForceSwitch, RefuseWrite, AddRecord, SyncLog, ApplyWrite,
         AddRecordFails, SyncFails, bgVars, Read, StartRead, EndRead, GetSnapshot, ReleaseSnapshot,
         RequestCompactRange
  <2>5. CASE Background
    <3>1. CASE StartFlush \/ BuildTableFails \/ BackgroundCallIdle
      BY <1>2, <2>2, <2>3, <3>1 DEF StartFlush, BuildTableFails, BackgroundCallIdle,
         NoBackgroundWork
    <3>2. CASE StartCompaction \/ OutputFails
      BY <1>2, <2>2, <2>3, <3>2 DEF StartCompaction, OutputFails, BackgroundCompaction,
         NoBackgroundWork
    <3>3. CASE WriteOutput
      BY <1>2, <2>2, <2>3, <3>3 DEF WriteOutput
    <3>4. CASE FlushBuilt \/ StartTrivialMove \/ FinishCompaction
      BY <1>2, <2>2, <2>3, <3>4 DEF FlushBuilt, StartTrivialMove, FinishCompaction,
         BackgroundCompaction, NoBackgroundWork, LogAndApply
    <3>5. CASE EditWritten \/ EditFails
      BY <1>2, <2>2, <2>3, <3>5 DEF EditWritten, EditFails
    <3>6. CASE InstallFlush \/ InstallMove \/ InstallCompaction
      BY <1>2, <2>2, <2>3, <3>6 DEF InstallFlush, InstallMove, InstallCompaction, InstallVersion
    <3> QED
      BY <2>5, <3>1, <3>2, <3>3, <3>4, <3>5, <3>6 DEF Background
  <2>6. CASE Open \/ Abort \/ \E kind \in {"process", "machine"} : Crash(kind)
    BY <2>1, <2>6 DEF Open, NewDB, Recover, OpenInstalled, OpenFails, Abort, Crash, ProcessDies
  <2> QED
    BY <2>2, <2>4, <2>5, <2>6 DEF Next, vars, bgVars
<1> QED
  BY <1>1, <1>2

\* A table being built has the highest number.
LEMMA FlushIsNewestNext ==
  ASSUME FileInv, TypedInv, FlushIsNewest, [Next]_vars
  PROVE  FlushIsNewest'
<1> SUFFICES ASSUME flush' # None PROVE FlushIsNewest'
  BY DEF FlushIsNewest
<1>1. CASE StartFlush
  <2>1. up = "open" /\ flush' = nextFileNumber /\ UNCHANGED <<current, manifest, durable>>
    BY <1>1 DEF StartFlush, setVars, diskVars
  <2>2. Below(HeldFiles, nextFileNumber)
    BY <2>1 DEF FileInv, CountsAreAhead
  <2>3. FilesOf(current) \cup FilesOf(manifest.version) \subseteq HeldFiles
    BY DEF HeldFiles, LiveFiles
  <2> QED
    BY <2>1, <2>2, <2>3 DEF FlushIsNewest, Below
<1>2. CASE ~StartFlush
  <2>0. flush # None
    <3>1. Quiet
      BY DEF FileInv
    <3>2. CASE Write \/ Read
      BY <3>2 DEF Write, Enqueue, BeginWrite, ForceSwitch, RefuseWrite, AddRecord, SyncLog, ApplyWrite,
           AddRecordFails, SyncFails, bgVars, Read, StartRead, EndRead, GetSnapshot, ReleaseSnapshot,
           RequestCompactRange
    <3>3. CASE Background
      <4>1. CASE BuildTableFails \/ BackgroundCallIdle
        BY <4>1 DEF BuildTableFails, BackgroundCallIdle, NoBackgroundWork
      <4>2. CASE StartCompaction \/ OutputFails
        BY <4>2 DEF StartCompaction, OutputFails, BackgroundCompaction, NoBackgroundWork
      <4>3. CASE WriteOutput
        BY <4>3 DEF WriteOutput
      <4>4. CASE FlushBuilt \/ StartTrivialMove \/ FinishCompaction
        BY <4>4 DEF FlushBuilt, StartTrivialMove, FinishCompaction, BackgroundCompaction,
           NoBackgroundWork
      <4>5. CASE EditWritten \/ EditFails
        BY <4>5 DEF EditWritten, EditFails
      <4>6. CASE InstallFlush \/ InstallMove \/ InstallCompaction
        BY <4>6 DEF InstallFlush, InstallMove, InstallCompaction
      <4> QED
        BY <1>2, <3>3, <4>1, <4>2, <4>3, <4>4, <4>5, <4>6 DEF Background
    <3>4. CASE Open \/ Abort \/ \E kind \in {"process", "machine"} : Crash(kind)
      BY <3>4 DEF Open, NewDB, Recover, OpenInstalled, OpenFails, Abort, Crash, ProcessDies, bgVars
    <3> QED
      BY <3>2, <3>3, <3>4 DEF Next, vars, bgVars
  <2>1. UNCHANGED <<flush, imm, current, logfileNumber, up>> /\ up = "open"
    BY <2>0, FlushKeeps
  <2>2. CASE durable'
    BY <2>0, <2>1, <2>2 DEF FlushIsNewest, Below
  <2>3. CASE UNCHANGED <<durable, manifest>>
    BY <2>0, <2>1, <2>3 DEF FlushIsNewest, Below
  <2>4. CASE Write \/ Read
    BY <2>3, <2>4 DEF Write, Enqueue, BeginWrite, ForceSwitch, RefuseWrite, AddRecord, SyncLog, ApplyWrite,
         AddRecordFails, SyncFails, bgVars, diskVars, Read, StartRead, EndRead, GetSnapshot,
         ReleaseSnapshot, RequestCompactRange
  <2>5. CASE Background
    <3>1. CASE BuildTableFails \/ BackgroundCallIdle
      BY <2>0, <2>2, <2>3, <3>1 DEF BuildTableFails, BackgroundCallIdle, NoBackgroundWork, diskVars
    <3>2. CASE StartCompaction \/ OutputFails
      BY <2>0, <2>2, <2>3, <3>2 DEF StartCompaction, OutputFails, BackgroundCompaction,
         NoBackgroundWork, diskVars
    <3>3. CASE WriteOutput
      BY <2>0, <2>2, <2>3, <3>3 DEF WriteOutput, diskVars
    <3>4. CASE FlushBuilt \/ StartTrivialMove \/ FinishCompaction
      BY <2>0, <2>2, <2>3, <3>4 DEF FlushBuilt, StartTrivialMove, FinishCompaction,
         BackgroundCompaction, NoBackgroundWork, LogAndApply, diskVars
    <3>5. CASE EditWritten \/ EditFails
      BY <2>0, <2>2, <2>3, <3>5 DEF EditWritten, EditFails, diskVars
    <3>6. CASE InstallFlush \/ InstallMove \/ InstallCompaction
      BY <2>0, <2>2, <2>3, <3>6 DEF InstallFlush, InstallMove, InstallCompaction, diskVars
    <3> QED
      BY <1>2, <2>5, <3>1, <3>2, <3>3, <3>4, <3>5, <3>6 DEF Background
  <2>6. CASE Open \/ Abort \/ \E kind \in {"process", "machine"} : Crash(kind)
    BY <2>1, <2>6 DEF Open, NewDB, Recover, OpenInstalled, OpenFails, Abort, Crash, ProcessDies
  <2> QED
    BY <2>3, <2>4, <2>5, <2>6 DEF Next, vars, bgVars, diskVars
<1> QED
  BY <1>1, <1>2

\* Events are only counted up.
LEMMA EventsAddUp ==
  ASSUME UsedTyped, [Next]_vars
  PROVE  /\ used'.fault \in Nat /\ used'.crash \in Nat /\ used.fault \in Nat /\ used.crash \in Nat
         /\ used.fault <= used'.fault /\ used.crash <= used'.crash
<1>0. {"crash", "fault", "snapshot", "read", "manual", "flush"} = Events
  BY DEF Events
<1>1. ASSUME NEW what \in Events, Spend(what)
      PROVE  used.fault <= used'.fault /\ used.crash <= used'.crash
  <2>1. /\ used' = [used EXCEPT ![what] = @ + 1] /\ DOMAIN used = Events
        /\ used.fault \in Nat /\ used.crash \in Nat
    BY <1>0, <1>1 DEF Spend, UsedTyped
  <2>2. used'.fault \in {used.fault, used.fault + 1} /\ used'.crash \in {used.crash, used.crash + 1}
    BY <1>0, <2>1
  <2> QED
    BY <2>1, <2>2
<1>2. CASE used' = used
  BY <1>0, <1>2 DEF UsedTyped
<1>3. used' = used \/ \E what \in Events : Spend(what)
  <2>1. CASE Write
    BY <1>0, <2>1 DEF Write, Enqueue, BeginWrite, ForceSwitch, RefuseWrite, AddRecord, SyncLog,
             ApplyWrite, AddRecordFails, SyncFails
  <2>2. CASE Background
    <3>1. CASE StartFlush \/ BuildTableFails \/ BackgroundCallIdle
      BY <1>0, <3>1 DEF StartFlush, BuildTableFails, BackgroundCallIdle
    <3>2. CASE StartCompaction \/ OutputFails
      BY <1>0, <3>2 DEF StartCompaction, OutputFails
    <3>3. CASE WriteOutput
      BY <1>0, <3>3 DEF WriteOutput
    <3>4. CASE FlushBuilt \/ StartTrivialMove \/ FinishCompaction
      BY <1>0, <3>4 DEF FlushBuilt, StartTrivialMove, FinishCompaction
    <3>5. CASE EditWritten \/ EditFails
      BY <1>0, <3>5 DEF EditWritten, EditFails
    <3>6. CASE InstallFlush \/ InstallMove \/ InstallCompaction
      BY <1>0, <3>6 DEF InstallFlush, InstallMove, InstallCompaction
    <3> QED
      BY <2>2, <3>1, <3>2, <3>3, <3>4, <3>5, <3>6 DEF Background
  <2>3. CASE Read
    BY <1>0, <2>3 DEF Read, StartRead, EndRead, GetSnapshot, ReleaseSnapshot, RequestCompactRange
  <2>4. CASE Open
    BY <1>0, <2>4 DEF Open, NewDB, Recover, OpenInstalled, OpenFails
  <2> QED
    BY <1>0, <2>1, <2>2, <2>3, <2>4 DEF Next, Abort, Crash, vars
<1>4. UsedTyped'
  BY EventsKeepTypes
<1>5. used'.fault \in Nat /\ used'.crash \in Nat /\ used.fault \in Nat /\ used.crash \in Nat
  BY <1>0, <1>4 DEF UsedTyped
<1> QED
  BY <1>1, <1>2, <1>3, <1>5

\* A fault is counted.
LEMMA FaultsCount ==
  ASSUME UsedTyped, Spend("fault")
  PROVE  used'.fault > 0
<1>1. used' = [used EXCEPT !.fault = @ + 1] /\ used \in [Events -> Nat] /\ "fault" \in Events
  BY DEF Spend, UsedTyped, Events
<1>2. used'.fault = used.fault + 1 /\ used.fault \in Nat
  BY <1>1
<1> QED
  BY <1>2

\* No step but one that fails brings an error.
ErrorStep == bgError' = bgError \/ bgError' = FALSE \/ Spend("fault")

\* Every step that sets bg_error_ uses up a fault.
LEMMA ErrorsComeFromFaults ==
  ASSUME [Next]_vars
  PROVE  ErrorStep
<1>1. CASE Write
  BY <1>1 DEF Write, Enqueue, BeginWrite, ForceSwitch, RefuseWrite, AddRecord, SyncLog,
              ApplyWrite, AddRecordFails, SyncFails, NoSwitch, SwitchMemTable, bgVars, ErrorStep
<1>2. CASE Background
  <2>1. CASE StartFlush \/ BuildTableFails \/ BackgroundCallIdle
    BY <2>1 DEF StartFlush, BuildTableFails, BackgroundCallIdle, ErrorStep
  <2>2. CASE StartCompaction \/ OutputFails
    BY <2>2 DEF StartCompaction, OutputFails, ErrorStep
  <2>3. CASE WriteOutput
    BY <2>3 DEF WriteOutput, ErrorStep
  <2>4. CASE FlushBuilt \/ StartTrivialMove \/ FinishCompaction
    BY <2>4 DEF FlushBuilt, StartTrivialMove, FinishCompaction, ErrorStep
  <2>5. CASE EditWritten \/ EditFails
    BY <2>5 DEF EditWritten, EditFails, ErrorStep
  <2>6. CASE InstallFlush \/ InstallMove \/ InstallCompaction
    BY <2>6 DEF InstallFlush, InstallMove, InstallCompaction, ErrorStep
  <2> QED
    BY <1>2, <2>1, <2>2, <2>3, <2>4, <2>5, <2>6 DEF Background
<1>3. CASE Read
  BY <1>3 DEF Read, StartRead, EndRead, GetSnapshot, ReleaseSnapshot, RequestCompactRange, bgVars, ErrorStep
<1>4. CASE Open
  BY <1>4 DEF Open, NewDB, Recover, OpenInstalled, OpenFails, ProcessDies, bgVars, ErrorStep
<1>5. CASE Abort \/ (\E kind \in {"process", "machine"} : Crash(kind)) \/ UNCHANGED vars
  BY <1>5 DEF Abort, Crash, ProcessDies, vars, bgVars, ErrorStep
<1> QED
  BY <1>1, <1>2, <1>3, <1>4, <1>5 DEF Next

\* So there is no error without a fault.
LEMMA ErrorsAreFaultsNext ==
  ASSUME UsedTyped, ErrorsAreFaults, [Next]_vars
  PROVE  ErrorsAreFaults'
<1>1. CASE Spend("fault")
  BY <1>1, FaultsCount DEF ErrorsAreFaults
<1>2. used.fault <= used'.fault /\ used.fault \in Nat /\ used'.fault \in Nat
  BY EventsAddUp
<1>3. CASE bgError' = bgError
  <2>1. bgError' => used.fault > 0
    BY <1>3, Zenon DEF ErrorsAreFaults
  <2> QED
    BY <1>2, <2>1 DEF ErrorsAreFaults
<1>4. CASE bgError' = FALSE
  BY <1>4 DEF ErrorsAreFaults
<1>5. ErrorStep
  BY ErrorsComeFromFaults
<1> HIDE DEF ErrorsAreFaults
<1> QED
  BY <1>1, <1>3, <1>4, <1>5, Zenon DEF ErrorStep

\* What the failed write of a flush may leave in the MANIFEST.
LEMMA FailedFlush ==
  ASSUME FileInv, TypedInv, FlushForm, CopiesOnly, EditFails, flush # None, compact # None
  PROVE  CopiesOnly'
<1>0. /\ edit # None /\ ~durable /\ up = "open" /\ UNCHANGED <<current, imm, up>>
      /\ Shapes /\ ManifestIsCurrent /\ imm # None
  BY DEF EditFails, setVars, memVars, FileInv, TypedInv, TypeInv, WorkTyped
<1>0a. \A f, l : IsCopy(f, l)' <=> IsCopy(f, l)
  BY <1>0 DEF IsCopy
<1> SUFFICES ASSUME manifest'.state # "corrupt", NEW l \in Levels, NEW f \in manifest'.version[l] \ current[l]
             PROVE  IsCopy(f, l)
  BY <1>0, <1>0a DEF CopiesOnly, GoesOnAfterError, OnlyCopies
<1>1. ASSUME manifest.state # "corrupt", f \in manifest.version[l] PROVE IsCopy(f, l)
  <2>1. CASE Synced
    BY <1>0, <1>1, <2>1 DEF Synced
  <2>2. CASE ~Synced
    <3>1. bgError
      BY <1>0, <2>2 DEF ManifestIsCurrent
    <3> QED
      BY <1>0, <1>1, <3>1 DEF CopiesOnly, GoesOnAfterError, OnlyCopies
  <2> QED
    BY <2>1, <2>2
<1>2. CASE manifest'.version = manifest.version /\ manifest.state # "corrupt"
  BY <1>1, <1>2
<1>3. CASE manifest' = Whole(ApplyEdit(manifest.version, edit), edit) /\ manifest.state \notin {"torn", "corrupt"}
  <2>1. manifest'.version = ApplyEdit(manifest.version, edit)
    BY <1>3 DEF Whole
  <2>2. f \in manifest.version[l] \/ \E q \in edit.added : q[1] = l /\ q[2] = f
    BY <2>1 DEF ApplyEdit
  <2>3. ASSUME NEW q \in edit.added, q[1] = l, q[2] = f PROVE IsCopy(f, l)
    <3>1. q[2] = File(flush, imm) /\ q[1] = PickLevelForMemTableOutput(current, RangeOf({q[2]}))
      BY <1>0 DEF FlushForm
    <3>2. File(flush, imm).entries = imm
      BY DEF File
    <3> QED
      BY <2>3, <3>1, <3>2 DEF IsCopy
  <2> QED
    BY <1>1, <1>3, <2>2, <2>3
<1> QED
  BY <1>0, <1>2, <1>3, ManifestAfter

\* What a compaction that goes on after an error may find in the MANIFEST and not in
\* the current version are copies of the memtable.
LEMMA CopiesOnlyNext ==
  ASSUME FileInv, TypedInv, FlushForm, CopiesOnly, [Next]_vars
  PROVE  CopiesOnly'
<1> SUFFICES ASSUME up' = "open", compact' # None, imm' # None, bgError', ~durable',
                    manifest'.state # "corrupt"
             PROVE  OnlyCopies'
  BY DEF CopiesOnly, GoesOnAfterError
<1>0. Quiet /\ ManifestIsCurrent
  BY DEF FileInv
<1>0a. UNCHANGED <<current, imm>> => \A f, l : IsCopy(f, l)' <=> IsCopy(f, l)
  BY DEF IsCopy
<1>0b. OnlyCopies /\ UNCHANGED <<current, imm, manifest>> => OnlyCopies'
  BY <1>0a DEF OnlyCopies
<1>1. CASE UNCHANGED <<up, imm, bgError, durable, manifest, current>> /\ compact # None
  BY <1>0b, <1>1 DEF CopiesOnly, GoesOnAfterError
<1>2. CASE UNCHANGED <<compact, durable, manifest, current, up, imm>> /\ ~bgError
  <2>1. Synced
    BY <1>0, <1>2 DEF ManifestIsCurrent
  <2>2. manifest.version = current
    BY <1>2, <2>1 DEF Synced
  <2> QED
    BY <1>2, <2>2 DEF OnlyCopies
<1>3. CASE Write
  <2>1. CASE \E w \in Writers : Enqueue(w) \/ RefuseWrite(w)
    BY <1>1, <2>1 DEF Enqueue, RefuseWrite, memVars, setVars, bgVars, diskVars
  <2>2. CASE \E w \in Writers : BeginWrite(w) \/ ForceSwitch(w)
    BY <2>2 DEF BeginWrite, ForceSwitch, NoSwitch, SwitchMemTable
  <2>3. CASE AddRecord \/ SyncLog \/ ApplyWrite \/ AddRecordFails
    BY <1>1, <2>3 DEF AddRecord, SyncLog, ApplyWrite, AddRecordFails, memVars, setVars, bgVars, diskVars
  <2>4. CASE SyncFails
    BY <1>1, <1>2, <2>4 DEF SyncFails, memVars, setVars, diskVars, TypedInv, TypeInv, WorkTyped
  <2> QED
    BY <1>3, <2>1, <2>2, <2>3, <2>4 DEF Write
<1>4. CASE Background
  <2>1. CASE StartFlush \/ BackgroundCallIdle \/ FlushBuilt \/ FinishCompaction
    BY <1>1, <2>1 DEF StartFlush, BackgroundCallIdle, FlushBuilt, FinishCompaction, LogAndApply,
                      memVars, setVars, diskVars
  <2>2. CASE StartCompaction \/ StartTrivialMove
    BY <1>0, <2>2 DEF StartCompaction, StartTrivialMove, BackgroundCompaction, NoBackgroundWork, memVars
  <2>3. CASE BuildTableFails
    BY <1>1, <1>2, <2>3 DEF BuildTableFails, memVars, setVars, diskVars, TypedInv, TypeInv, WorkTyped
  <2>4. CASE WriteOutput
    <3>1. compact # None /\ UNCHANGED <<up, imm, bgError, durable, manifest, current>>
      BY <2>4 DEF WriteOutput, memVars, setVars, diskVars
    <3> QED
      BY <1>1, <3>1
  <2>5. CASE OutputFails \/ EditWritten
    BY <2>5 DEF OutputFails, CleanupCompaction, EditWritten
  <2>6. CASE EditFails
    <3>1. flush # None /\ compact # None
      BY <2>6 DEF EditFails, CleanupCompaction
    <3> QED
      BY <2>6, <3>1, FailedFlush DEF CopiesOnly, GoesOnAfterError
  <2>7. CASE InstallFlush \/ InstallMove \/ InstallCompaction
    BY <2>7 DEF InstallFlush, InstallMove, InstallCompaction, CleanupCompaction
  <2> QED
    BY <1>4, <2>1, <2>2, <2>3, <2>4, <2>5, <2>6, <2>7 DEF Background
<1>5. CASE Read
  BY <1>1, <1>5 DEF Read, StartRead, EndRead, GetSnapshot, ReleaseSnapshot, RequestCompactRange, memVars,
                    setVars, bgVars, diskVars
<1>6. CASE Open
  <2>1. CASE NewDB \/ Recover \/ OpenInstalled
    BY <1>0, <2>1 DEF NewDB, Recover, OpenInstalled, Quiet, bgVars
  <2> QED
    BY <1>6, <2>1 DEF Open, OpenFails, ProcessDies
<1> QED
  BY <1>1, <1>3, <1>4, <1>5, <1>6 DEF Next, Abort, Crash, ProcessDies, vars, memVars, setVars, bgVars, diskVars

\* The counters are always in order, whatever fails.
LEMMA CountInvAlways == Spec => [](FileInv /\ TypedInv /\ CountInv)
<1>1. Init => CountInv
  BY DEF Init, CountInv, LogIsLast, LastCounts, FlushForm, FlushIsNewest, CopiesOnly, GoesOnAfterError, ErrorsAreFaults
<1>2. ASSUME FileInv, TypedInv, CountInv, [Next]_vars PROVE CountInv'
  <2>1. UsedTyped /\ LogIsLast /\ LastCounts /\ FlushForm /\ FlushIsNewest /\ CopiesOnly /\ ErrorsAreFaults
    BY <1>2 DEF TypedInv, TypeInv, CountInv
  <2>2. LogIsLast' /\ LastCounts' /\ FlushForm'
    BY <1>2, <2>1, LogIsLastNext, LastCountsNext, FlushFormNext
  <2>3. FlushIsNewest' /\ CopiesOnly' /\ ErrorsAreFaults'
    BY <1>2, <2>1, FlushIsNewestNext, CopiesOnlyNext, ErrorsAreFaultsNext
  <2> QED
    BY <2>2, <2>3 DEF CountInv
<1>3. FileInv /\ TypedInv /\ CountInv /\ [Next]_vars => CountInv'
  BY <1>2
<1> QED
  BY <1>1, <1>3, TypedInvAlways, PTL DEF Spec

-----------------------------------------------------------------------------
(* The operations of a group while calls join the queue                    *)

Folds(f, W, n) == f = [i \in 0..n |-> IF i = 0 THEN <<>> ELSE f[i - 1] \o Batch[W[i]]]

Folded(W, n) == CHOOSE f : Folds(f, W, n)

\* A batch is folded into its entries one operation at a time.
LEMMA FoldedExists ==
  ASSUME NEW W, NEW n \in Nat
  PROVE  Folds(Folded(W, n), W, n)
<1>1. \E f : Folds(f, W, n)
  <2> DEFINE D(a, i) == a \o Batch[W[i]]
             b == <<>>
             R(f, N) == f = [i \in 0..N |-> IF i = 0 THEN b ELSE D(f[i - 1], i)]
             Q == {N \in 0..n : \E f : R(f, N)}
  <2> HIDE DEF D, b
  <2>1. 0 \in Q
    <3> DEFINE g == [i \in 0..0 |-> b]
    <3>1. R(g, 0)
      OBVIOUS
    <3>2. \E f : R(f, 0)
      <4> HIDE DEF g, R
      <4> QED
        BY <3>1
    <3> QED
      BY <3>2
  <2>2. ASSUME NEW N \in 1..n, N - 1 \in Q PROVE N \in Q
    <3>1. PICK f : R(f, N - 1)
      BY <2>2
    <3> DEFINE g == [i \in 0..N |-> IF i = N THEN D(f[N - 1], N) ELSE f[i]]
    <3>2. \A i \in 0..N : i # 0 => g[i - 1] = f[i - 1]
      OBVIOUS
    <3>3. \A i \in 0..(N - 1) : f[i] = IF i = 0 THEN b ELSE D(f[i - 1], i)
      BY <3>1
    <3>4. \A i \in 0..N : g[i] = IF i = 0 THEN b ELSE D(g[i - 1], i)
      BY <3>2, <3>3
    <3>5. R(g, N)
      <4>1. g = [i \in 0..N |-> g[i]]
        OBVIOUS
      <4> HIDE DEF g
      <4> QED
        BY <3>4, <4>1
    <3>6. \E h : R(h, N)
      <4> HIDE DEF g, R
      <4> QED
        BY <3>5
    <3> QED
      BY <3>6
  <2>3. n \in Q
    <3> HIDE DEF Q
    <3>1. 0..n \subseteq Q
      BY <2>1, <2>2, UpTo
    <3> QED
      BY <3>1
  <2>4. PICK f : R(f, n)
    BY <2>3
  <2> QED
    BY <2>4 DEF D, b, Folds
<1> QED
  BY <1>1 DEF Folded

\* The entries of a record depend on its operations only.
LEMMA SameOperations ==
  ASSUME NEW V, NEW W, NEW n \in Nat, \A i \in 1..n : V[i] = W[i]
  PROVE  Folded(V, n)[n] = Folded(W, n)[n]
<1> DEFINE c == Folded(V, n)
           d == Folded(W, n)
           Q == {i \in 0..n : c[i] = d[i]}
           D(a, v) == a \o Batch[v]
<1>1. /\ c = [i \in 0..n |-> IF i = 0 THEN <<>> ELSE D(c[i - 1], V[i])]
      /\ d = [i \in 0..n |-> IF i = 0 THEN <<>> ELSE D(d[i - 1], W[i])]
  BY FoldedExists DEF Folds
<1> HIDE DEF c, d, D
<1>2. /\ \A i \in 0..n : c[i] = IF i = 0 THEN <<>> ELSE D(c[i - 1], V[i])
      /\ \A i \in 0..n : d[i] = IF i = 0 THEN <<>> ELSE D(d[i - 1], W[i])
  BY <1>1
<1>3. 0 \in Q
  BY <1>2
<1>4. ASSUME NEW i \in 1..n, i - 1 \in Q PROVE i \in Q
  <2>1. i \in 0..n /\ i # 0 /\ c[i - 1] = d[i - 1] /\ V[i] = W[i]
    BY <1>4
  <2> QED
    BY <1>2, <2>1
<1>5. n \in Q
  <2> HIDE DEF Q
  <2>1. 0..n \subseteq Q
    BY <1>3, <1>4, UpTo
  <2> QED
    BY <2>1
<1> QED
  BY <1>5 DEF c, d

\* A call that joins the queue is not in the group under way.
LEMMA EnqueueKeepsGroup ==
  ASSUME WritersTyped, group # None, NEW w, writers' = Append(writers, w), group' = group
  PROVE  OpsOf(group.size)' = OpsOf(group.size)
<1>1. PICK n : n = group.size
  OBVIOUS
<1>2. n \in Nat /\ n \in 1..Len(writers) /\ writers \in Seq(Writers)
  BY <1>1 DEF WritersTyped
<1>3. \A i \in 1..n : writers[i] = writers'[i]
  BY <1>2
<1>4. OpsOf(n) = Folded(writers, n)[n]
  BY DEF OpsOf, Folded, Folds
<1>5. OpsOf(n)' = Folded(writers', n)[n]
  BY DEF OpsOf, Folded, Folds
<1>6. Folded(writers, n)[n] = Folded(writers', n)[n]
  BY <1>2, <1>3, SameOperations
<1>7. OpsOf(group.size)' = OpsOf(n)'
  BY <1>1
<1> QED
  BY <1>1, <1>4, <1>5, <1>6, <1>7

\* The entries of the records of the logs have numbers.
RecordsHaveNumbers ==
  \A n \in DOMAIN logs : \A i \in DOMAIN logs[n].records : \A e \in RecordAt(logs, n, i) : e.seq \in Nat

\* The entries of a record have the numbers the record reserves.
LEMMA RecordsNumbered ==
  ASSUME LogsHoldRecords
  PROVE  RecordsHaveNumbers
<1> SUFFICES ASSUME NEW n \in DOMAIN logs, NEW i \in DOMAIN logs[n].records PROVE
                    \A e \in RecordAt(logs, n, i) : e.seq \in Nat
  BY DEF RecordsHaveNumbers
<1>1. PICK b \in Nat : \A m \in DOMAIN logs : logs[m].records \in Seq(RecordsTo(b))
  BY DEF LogsHoldRecords
<1>2. logs[n].records[i] \in RecordsTo(b)
  BY <1>1
<1> QED
  BY <1>1, <1>2, RecordEntries DEF RecordAt, MemTable, AreEntries

-----------------------------------------------------------------------------
(* What a step leaves alone                                                *)

\* Once dead, the background thread stays so until the process ends.
LEMMA DeadIsFinal ==
  ASSUME FileInv, TypedInv, ErrorsAreFaults, NoErrorThenCrash', [Next]_vars, Dead
  PROVE  Dead'
<1>0. /\ Quiet /\ up = "open" /\ bgError /\ flush = None
      /\ \/ durable /\ edit # None
         \/ ~durable /\ compact = None /\ edit = None
  BY DEF FileInv, Quiet, Dead
<1>1. CASE UNCHANGED <<up, bgError, flush, durable, compact, edit>>
  BY <1>1, Zenon DEF Dead
<1>2. CASE up' = "open" /\ bgError' /\ flush' = None /\ compact' = None /\ edit' = None
  BY <1>2 DEF Dead
<1>3. CASE Write
  <2>1. CASE SyncFails
    <3>1. up' = "open" /\ bgError' /\ UNCHANGED <<flush, durable, compact, edit>>
      BY <1>0, <2>1 DEF SyncFails
    <3> QED
      BY <3>1, Zenon DEF Dead
  <2>2. CASE ~SyncFails
    <3>1. UNCHANGED <<up, flush, durable, compact, edit>>
      BY <1>3, <2>2 DEF Write, Enqueue, BeginWrite, ForceSwitch, RefuseWrite, AddRecord, SyncLog,
              ApplyWrite, AddRecordFails, bgVars
    <3>2. bgError' = bgError
      BY <1>3, <2>2 DEF Write, Enqueue, BeginWrite, ForceSwitch, RefuseWrite, AddRecord, SyncLog,
              ApplyWrite, AddRecordFails, NoSwitch, SwitchMemTable, bgVars
    <3> QED
      BY <1>1, <3>1, <3>2
  <2> QED
    BY <2>1, <2>2
<1>4. CASE Background
  <2>1. CASE StartFlush \/ FlushBuilt \/ BuildTableFails \/ StartTrivialMove \/ StartCompaction
    BY <1>0, <2>1 DEF StartFlush, FlushBuilt, BuildTableFails, StartTrivialMove, StartCompaction,
                      BackgroundCompaction
  <2>2. CASE WriteOutput \/ FinishCompaction \/ OutputFails \/ EditWritten \/ EditFails
    <3>0. WriteOutput => compact # None /\ edit = None
      BY DEF WriteOutput
    <3>1. ~WriteOutput
      BY <1>0, <3>0
    <3>2. ~FinishCompaction /\ ~OutputFails
      BY <1>0 DEF FinishCompaction, OutputFails
    <3>3. ~EditWritten /\ ~EditFails
      BY <1>0 DEF EditWritten, EditFails
    <3> QED
      BY <2>2, <3>1, <3>2, <3>3
  <2>3. CASE BackgroundCallIdle
    <3>1. UNCHANGED <<up, flush, durable, compact, edit>> /\ bgError' = bgError
      BY <2>3 DEF BackgroundCallIdle
    <3> QED
      BY <1>1, <3>1
  <2>4. CASE InstallFlush
    BY <1>0, <2>4 DEF InstallFlush
  <2>5. CASE InstallMove
    <3>1. up' = up /\ bgError' = bgError /\ flush' = flush /\ compact' = compact /\ compact = None /\ edit' = None
      BY <2>5 DEF InstallMove, InstallVersion
    <3> QED
      BY <1>0, <1>2, <3>1, Zenon
  <2>6. CASE InstallCompaction
    <3>1. up' = up /\ bgError' = bgError /\ flush' = flush /\ compact' = None /\ edit' = None
      BY <2>6 DEF InstallCompaction, InstallVersion, CleanupCompaction
    <3> QED
      BY <1>0, <1>2, <3>1, Zenon
  <2> QED
    BY <1>4, <2>1, <2>2, <2>3, <2>4, <2>5, <2>6 DEF Background
<1>5. CASE Read
  <2>1. UNCHANGED <<up, flush, durable, compact, edit>>
    BY <1>5 DEF Read, StartRead, EndRead, GetSnapshot, ReleaseSnapshot, RequestCompactRange, bgVars
  <2>2. bgError' = bgError
    BY <1>5 DEF Read, StartRead, EndRead, GetSnapshot, ReleaseSnapshot, RequestCompactRange, bgVars
  <2> QED
    BY <1>1, <2>1, <2>2
<1>6. CASE Open
  BY <1>0, <1>6 DEF Open, NewDB, Recover, OpenInstalled, OpenFails
<1>7. CASE Abort
  BY <1>0, <1>7 DEF Abort, EditsDue
<1>8. CASE \E kind \in {"process", "machine"} : Crash(kind)
  <2>1. used.fault > 0 /\ UsedTyped
    BY <1>0 DEF ErrorsAreFaults, TypedInv, TypeInv
  <2>2. used' = [used EXCEPT !.crash = @ + 1]
    BY <1>8 DEF Crash, Spend
  <2>3. used'.fault = used.fault /\ used'.crash = used.crash + 1 /\ used.crash \in Nat
    BY <2>1, <2>2 DEF UsedTyped, Events
  <2> QED
    BY <2>1, <2>3 DEF NoErrorThenCrash
<1>9. CASE UNCHANGED vars
  BY <1>1, <1>9 DEF vars, bgVars
<1> QED
  BY <1>3, <1>4, <1>5, <1>6, <1>7, <1>8, <1>9 DEF Next

\* What has not been recoverable does not become so by a step that keeps the MANIFEST.
LEMMA StaysUnrecoverable ==
  ASSUME FileInv, TypedInv, ErrorsAreFaults, NoErrorThenCrash', [Next]_vars,
         manifest'.version = manifest.version,
         manifest'.state # "corrupt" => manifest.state # "corrupt"
  PROVE  Recoverable' => Recoverable
BY DeadIsFinal DEF Recoverable

\* All entries have numbers.
LEMMA EntriesTyped ==
  ASSUME FileInv, TypedInv
  PROVE  /\ AreEntries(mem \cup Flushing \cup EntriesIn(current) \cup EntriesIn(manifest.version))
         /\ edit # None => AreEntries(EntriesIn(NewVersion))
         /\ \A f \in FilesOf(current) \cup FilesOf(manifest.version) : GoodTable(f)
<1>1. AreEntries(mem) /\ AreEntries(Flushing)
  BY DEF TypedInv, TypeInv, MemTyped, MemTable, Flushing, AreEntries
<1>2. FilesOf(current) \cup FilesOf(manifest.version) \cup Added \subseteq tables
  BY DEF FileInv, HeldFilesExist, HeldFiles, LiveFiles
<1>3. \A f \in tables : GoodTable(f) /\ AreEntries(f.entries)
  BY DEF TypedInv, TypeInv, TablesAreGood, GoodTable
<1>4. edit # None => FilesOf(NewVersion) \subseteq FilesOf(current) \cup Added
  BY ApplyEditFiles DEF NewVersion, Added
<1>5. ASSUME NEW F \in SUBSET tables PROVE AreEntries(EntriesOf(F))
  BY <1>3 DEF AreEntries, EntriesOf
<1>6. AreEntries(EntriesIn(current)) /\ AreEntries(EntriesIn(manifest.version))
  BY <1>2, <1>5 DEF EntriesIn
<1>7. edit # None => AreEntries(EntriesIn(NewVersion))
  BY <1>2, <1>4, <1>5 DEF EntriesIn
<1>8. AreEntries(mem \cup Flushing \cup EntriesIn(current) \cup EntriesIn(manifest.version))
  BY <1>1, <1>6 DEF AreEntries
<1> QED
  BY <1>2, <1>3, <1>7, <1>8

\* The part about memory is kept by a step that leaves memory and files alone.
LEMMA MemKept ==
  ASSUME FileInv, TypedInv, MemAbove, UNCHANGED <<mem, imm, current>>,
         lastSequence' \in Nat, lastSequence <= lastSequence'
  PROVE  MemAbove'
<1>1. Flushing' = Flushing
  BY DEF Flushing
<1>2. lastSequence \in Nat
  BY DEF TypedInv, TypeInv, CountsTyped
<1>3. SeqsTo(mem \cup Flushing \cup EntriesIn(current), lastSequence')
  BY <1>2, EntriesTyped DEF MemAbove, SeqsTo, AreEntries
<1> QED
  BY <1>1, <1>3 DEF MemAbove

\* The part about the edit is kept by a step that leaves it alone and adds no record.
LEMMA EditKept ==
  ASSUME EditAbove, UNCHANGED <<edit, current, up>>, Fewer(logs, logs'), edit # None => flush' = flush
  PROVE  EditAbove'
<1>1. NewVersion' = NewVersion
  BY DEF NewVersion
<1> QED
  BY <1>1, FewerRecords DEF EditAbove

\* A later bound of the sequence numbers.
LEMMA LaterBound ==
  ASSUME LogsHoldRecords, NEW s \in Nat, NEW t \in Nat, s <= t, NEW a, LogsTo(logs, a, s)
  PROVE  LogsTo(logs, a, t)
BY RecordsNumbered DEF RecordsHaveNumbers, LogsTo, LogsFrom, SeqsTo

\* The part about the logs is kept by a step that adds no record to them.
LEMMA LogsKept ==
  ASSUME TypedInv, LogsFollow, UNCHANGED <<imm, current, logNumber, logfileNumber>>,
         Fewer(logs, logs'),
         up' = "open" => up = "open" /\ Reserved \in Nat /\ Reserved' \in Nat /\ Reserved <= Reserved'
  PROVE  LogsFollow'
<1> SUFFICES ASSUME up' = "open" PROVE LogsFollow'
  BY DEF LogsFollow
<1>1. Flushing' = Flushing
  BY DEF Flushing
<1>2. LogsTo(logs, logNumber, Reserved')
  BY LaterBound DEF TypedInv, TypeInv, LogsFollow
<1> QED
  BY <1>1, <1>2, FewerRecords DEF LogsFollow

\* What a recovery would find is kept by a step that adds no record and no edit.
LEMMA ManifestKept ==
  ASSUME TypedInv, ManifestAbove, Recoverable' => Recoverable,
         manifest'.version = manifest.version, manifest'.log = manifest.log, manifest'.last = manifest.last,
         Fewer(logs, logs'),
         up' = "open" => up = "open" /\ Reserved \in Nat /\ Reserved' \in Nat /\ Reserved <= Reserved'
  PROVE  ManifestAbove'
<1> SUFFICES ASSUME Recoverable' PROVE ManifestAbove'
  BY DEF ManifestAbove
<1>1. /\ NewestFirst(manifest.version) /\ SeqsTo(EntriesIn(manifest.version), manifest.last)
      /\ LogsAbove(logs, manifest.log, EntriesIn(manifest.version)) /\ LogsInOrder(logs, manifest.log)
      /\ up = "open" => LogsTo(logs, manifest.log, Reserved)
  BY DEF ManifestAbove
<1>2. up' = "open" => LogsTo(logs, manifest.log, Reserved')
  BY <1>1, LaterBound DEF TypedInv, TypeInv
<1> QED
  BY <1>1, <1>2, FewerRecords DEF ManifestAbove

\* The inputs of a compaction stay its inputs until it ends.
LEMMA InputsKept ==
  ASSUME InputsNewest, UNCHANGED <<compact, current>> \/ compact' = None
  PROVE  InputsNewest'
BY DEF InputsNewest

\* A step that leaves the entries where they are.
LEMMA QuietStep ==
  ASSUME FileInv, TypedInv, CountInv, Order, NoErrorThenCrash', [Next]_vars, up = "open",
         UNCHANGED <<up, mem, imm, logfileNumber, current, logNumber, manifest, edit>>,
         Fewer(logs, logs'), edit # None => flush' = flush, compact' = compact \/ compact' = None,
         lastSequence' \in Nat, lastSequence <= lastSequence',
         Reserved \in Nat, Reserved' \in Nat, Reserved <= Reserved'
  PROVE  Order'
<1>1. MemAbove /\ EditAbove /\ LogsFollow /\ ManifestAbove /\ InputsNewest
  BY DEF Order
<1>2. Recoverable' => Recoverable
  BY StaysUnrecoverable DEF CountInv
<1>3. MemAbove' /\ EditAbove'
  BY <1>1, MemKept, EditKept
<1>4. LogsFollow' /\ ManifestAbove'
  BY <1>1, <1>2, LogsKept, ManifestKept
<1>5. InputsNewest'
  BY <1>1, InputsKept
<1> QED
  BY <1>3, <1>4, <1>5 DEF Order

\* No sequence number in use is above those handed out.
LEMMA ReservedIsNumber ==
  ASSUME TypedInv
  PROVE  Reserved \in Nat /\ lastSequence \in Nat /\ lastSequence <= Reserved
<1>1. WritersTyped /\ lastSequence \in Nat
  BY DEF TypedInv, TypeInv, CountsTyped
<1>2. group # None => Len(OpsOf(group.size)) \in Nat
  BY <1>1, GroupCounts
<1> QED
  BY <1>1, <1>2 DEF Reserved

\* The same logs hold the same records.
LEMMA SameLogs ==
  ASSUME \/ logs' = logs
         \/ DOMAIN logs' \subseteq DOMAIN logs /\ \A n \in DOMAIN logs' : logs'[n].records = logs[n].records
  PROVE  Fewer(logs, logs')
BY SameRecordsAreFewer

-----------------------------------------------------------------------------
(* Writers keep the order                                                  *)

\* The memtable and the log are switched: the new log is empty.
LEMMA SwitchKeepsOrder ==
  ASSUME FileInv, TypedInv, CountInv, Order, NoErrorThenCrash', [Next]_vars, up = "open",
         SwitchMemTable, UNCHANGED <<up, logNumber, manifest, edit, flush, compact, lastSequence>>,
         Reserved' = Reserved
  PROVE  Order'
<1>0. /\ MemAbove /\ EditAbove /\ LogsFollow /\ ManifestAbove /\ InputsNewest
      /\ LogIsLast /\ ErrorsAreFaults
  BY DEF Order, CountInv
<1>1. /\ imm = None /\ imm' = mem /\ mem' = {} /\ current' = current
      /\ logfileNumber' = nextFileNumber /\ logs' = WithLog(nextFileNumber)
  BY DEF SwitchMemTable
<1>2. Fewer(logs, logs') /\ logs'[nextFileNumber].records = <<>> /\ DOMAIN logs' = DOMAIN logs \cup {nextFileNumber}
  BY <1>1, NewLogHasFewer DEF WithLog
<1>3. nextFileNumber \in Nat /\ \A n \in DOMAIN logs : n \in Nat /\ n < nextFileNumber
  BY DEF FileInv, CountsAreAhead
<1>4. Flushing = {} /\ Flushing' \subseteq mem
  BY <1>1 DEF Flushing
<1>5. MemAbove'
  <2>1. AllAbove(Flushing', EntriesIn(current))
    BY <1>0, <1>4 DEF MemAbove, AllAbove
  <2>2. SeqsTo(Flushing' \cup EntriesIn(current), lastSequence)
    BY <1>0, <1>4 DEF MemAbove, SeqsTo
  <2> QED
    BY <1>0, <1>1, <2>1, <2>2 DEF MemAbove, AllAbove
<1>6. EditAbove'
  BY <1>0, <1>1, <1>2, EditKept
<1>7. Recoverable' => Recoverable
  BY <1>0, StaysUnrecoverable
<1>8. Reserved \in Nat
  BY ReservedIsNumber
<1>9. ManifestAbove'
  BY <1>0, <1>2, <1>7, <1>8, ManifestKept
<1>10. LogsFollow'
  <2>1. \A n \in LogsFrom(logs', logfileNumber') : n = nextFileNumber
    BY <1>1, <1>2, <1>3 DEF LogsFrom
  <2>2. LogsAbove(logs', logfileNumber', Flushing')
    BY <1>2, <2>1 DEF LogsAbove
  <2>3. LogsAbove(logs', logNumber, EntriesIn(current)) /\ LogsInOrder(logs', logNumber)
        /\ LogsTo(logs', logNumber, Reserved')
    BY <1>0, <1>2, FewerRecords DEF LogsFollow
  <2> QED
    BY <1>1, <2>2, <2>3 DEF LogsFollow
<1>11. InputsNewest'
  BY <1>0, <1>1, InputsKept
<1> QED
  BY <1>5, <1>6, <1>9, <1>10, <1>11 DEF Order

\* A record more at the end of the logs, with numbers above all others.
LEMMA RecordKeepsOrder ==
  ASSUME FileInv, TypedInv, CountInv, Order, NoErrorThenCrash', [Next]_vars, up = "open",
         UNCHANGED <<up, mem, imm, logfileNumber, current, logNumber, manifest, edit, flush, compact>>,
         NEW r, logs' = [logs EXCEPT ![logfileNumber].records = Append(@, r)],
         Reserved = lastSequence,
         \A e \in EntriesOfRecord(r) : e.seq \in Int /\ e.seq > lastSequence /\ e.seq <= Reserved',
         Reserved' \in Nat, lastSequence' \in Nat, lastSequence <= lastSequence', lastSequence <= Reserved'
  PROVE  Order'
<1>0. /\ MemAbove /\ EditAbove /\ LogsFollow /\ ManifestAbove /\ InputsNewest
      /\ LogIsLast /\ ErrorsAreFaults /\ LastCounts /\ LogsHoldRecords
      /\ logfileNumber \in Nat /\ lastSequence \in Nat /\ manifest.last \in Nat
      /\ edit # None => edit.last \in Nat
      /\ LogsTyped /\ LogsBounded
  BY DEF Order, CountInv, TypedInv, TypeInv, CountsTyped, FileInv
<1>1. \A k \in DOMAIN logs : k <= logfileNumber
  BY <1>0 DEF LogIsLast
<1>2. PICK n \in Nat : n = logfileNumber
  BY <1>0
<1>3. PICK s \in Nat : s = lastSequence
  BY <1>0
<1>4. PICK t \in Nat : t = Reserved'
  OBVIOUS
<1>5. ASSUME NEW a
      PROVE  /\ \A E : LogsAbove(logs, a, E) /\ AllAbove(EntriesOfRecord(r), E) => LogsAbove(logs', a, E)
             /\ LogsTo(logs, a, s) => LogsTo(logs', a, t)
             /\ LogsInOrder(logs, a) /\ LogsTo(logs, a, s) => LogsInOrder(logs', a)
  <2>1. /\ \A E : LogsAbove(logs, a, E) /\ AllAbove(EntriesOfRecord(r), E) => LogsAbove(logs', a, E)
        /\ \A b : LogsTo(logs, a, b) /\ SeqsTo(EntriesOfRecord(r), b) => LogsTo(logs', a, b)
        /\ \A b \in Nat : LogsInOrder(logs, a) /\ LogsTo(logs, a, b)
              /\ (\A e \in EntriesOfRecord(r) : e.seq \in Int /\ e.seq > b)
              /\ (\A k \in LogsFrom(logs, a) : \A i \in DOMAIN logs[k].records :
                    \A e \in RecordAt(logs, k, i) : e.seq \in Int)
              => LogsInOrder(logs', a)
    BY <1>0, <1>1, <1>2, AppendedKeepsOrder
  <2>2. \A k \in LogsFrom(logs, a) : \A i \in DOMAIN logs[k].records :
           \A e \in RecordAt(logs, k, i) : e.seq \in Int
    BY <1>0, RecordsNumbered DEF RecordsHaveNumbers, LogsFrom
  <2>3. LogsTo(logs, a, s) => LogsTo(logs, a, t)
    BY <1>0, <1>3, <1>4, LaterBound
  <2>4. SeqsTo(EntriesOfRecord(r), t)
    BY <1>4 DEF SeqsTo
  <2> QED
    BY <1>3, <2>1, <2>2, <2>3, <2>4
<1>6. ASSUME NEW E, AreEntries(E), NEW b \in Nat, b <= lastSequence, SeqsTo(E, b)
      PROVE  AllAbove(EntriesOfRecord(r), E)
  <2> SUFFICES ASSUME NEW e \in EntriesOfRecord(r), NEW d \in E PROVE e.seq > d.seq
    BY DEF AllAbove
  <2>1. d.seq \in Nat /\ d.seq <= b
    BY <1>6 DEF SeqsTo, AreEntries
  <2>2. e.seq \in Int /\ e.seq > lastSequence
    OBVIOUS
  <2>3. b \in Nat /\ b <= lastSequence /\ lastSequence \in Nat
    BY <1>0, <1>6
  <2> QED
    BY <2>1, <2>2, <2>3
<1>7. /\ AreEntries(mem \cup Flushing \cup EntriesIn(current) \cup EntriesIn(manifest.version))
      /\ edit # None => AreEntries(EntriesIn(NewVersion))
  BY EntriesTyped
<1>8. MemAbove'
  BY <1>0, MemKept
<1>9. EditAbove'
  <2> SUFFICES ASSUME edit # None PROVE EditAbove'
    BY DEF EditAbove
  <2>1. NewVersion' = NewVersion
    BY DEF NewVersion
  <2>2. edit.last <= lastSequence
    BY <1>0 DEF LastCounts
  <2>3. AllAbove(EntriesOfRecord(r), EntriesIn(NewVersion))
    BY <1>0, <1>6, <1>7, <2>2 DEF EditAbove
  <2>4. LogsAbove(logs', edit.log, EntriesIn(NewVersion))
    BY <1>0, <1>5, <2>3 DEF EditAbove
  <2> QED
    BY <1>0, <2>1, <2>4 DEF EditAbove
<1>10. LogsFollow'
  <2>1. Flushing' = Flushing
    BY DEF Flushing
  <2>2. AreEntries(Flushing) /\ AreEntries(EntriesIn(current))
    BY <1>7 DEF AreEntries
  <2>3. SeqsTo(Flushing, lastSequence) /\ SeqsTo(EntriesIn(current), lastSequence)
    BY <1>0 DEF MemAbove, SeqsTo
  <2>4. AllAbove(EntriesOfRecord(r), Flushing) /\ AllAbove(EntriesOfRecord(r), EntriesIn(current))
    BY <1>0, <1>6, <2>2, <2>3
  <2> QED
    BY <1>0, <1>3, <1>4, <1>5, <2>1, <2>4 DEF LogsFollow
<1>11. Recoverable' => Recoverable
  BY <1>0, StaysUnrecoverable
<1>12. ManifestAbove'
  <2> SUFFICES ASSUME Recoverable' PROVE ManifestAbove'
    BY DEF ManifestAbove
  <2>1. /\ NewestFirst(manifest.version) /\ SeqsTo(EntriesIn(manifest.version), manifest.last)
        /\ LogsAbove(logs, manifest.log, EntriesIn(manifest.version)) /\ LogsInOrder(logs, manifest.log)
        /\ LogsTo(logs, manifest.log, s)
    BY <1>0, <1>3, <1>11 DEF ManifestAbove
  <2>2. AreEntries(EntriesIn(manifest.version)) /\ manifest.last <= lastSequence
    BY <1>0, <1>7 DEF AreEntries, LastCounts
  <2>3. AllAbove(EntriesOfRecord(r), EntriesIn(manifest.version))
    BY <1>0, <1>6, <2>1, <2>2
  <2> QED
    BY <1>4, <1>5, <2>1, <2>3 DEF ManifestAbove
<1>13. InputsNewest'
  BY <1>0, InputsKept
<1> QED
  BY <1>8, <1>9, <1>10, <1>12, <1>13 DEF Order

\* The group is in the memtable.
LEMMA ApplyKeepsOrder ==
  ASSUME FileInv, TypedInv, CountInv, Order, NoErrorThenCrash', [Next]_vars, ApplyWrite
  PROVE  Order'
<1> DEFINE k == Len(OpsOf(group.size))
           new == EntriesOfRecord(GroupRecord)
<1>0. /\ MemAbove /\ EditAbove /\ LogsFollow /\ ManifestAbove /\ InputsNewest /\ ErrorsAreFaults
      /\ WritersTyped /\ lastSequence \in Nat
  BY DEF Order, CountInv, TypedInv, TypeInv, CountsTyped
<1>1. /\ group # None /\ group.phase = "applying" /\ group' = None /\ mem' = mem \cup new
      /\ lastSequence' = lastSequence + k
      /\ UNCHANGED <<up, imm, logfileNumber, current, logNumber, manifest, edit, flush, compact, logs>>
  BY DEF ApplyWrite, FinishGroup, setVars, bgVars, diskVars
<1>2. up = "open"
  BY <1>1 DEF FileInv, Quiet
<1>3. k \in Nat /\ \A e \in new : e.seq \in Int /\ e.seq > lastSequence /\ e.seq <= lastSequence + k
  BY <1>0, <1>1, GroupCounts
<1>4. Reserved = lastSequence + k /\ Reserved' = lastSequence + k
  BY <1>0, <1>1, <1>3 DEF Reserved
<1> HIDE DEF k, new
<1>5. AreEntries(mem \cup Flushing \cup EntriesIn(current))
  BY EntriesTyped DEF AreEntries
<1>6. MemAbove'
  <2>1. Flushing' = Flushing
    BY <1>1 DEF Flushing
  <2>2. AllAbove(mem', Flushing \cup EntriesIn(current))
    BY <1>0, <1>1, <1>3, <1>5 DEF MemAbove, AllAbove, SeqsTo, AreEntries
  <2>3. SeqsTo(mem' \cup Flushing \cup EntriesIn(current), lastSequence')
    BY <1>0, <1>1, <1>3, <1>5 DEF MemAbove, SeqsTo, AreEntries
  <2> QED
    BY <1>0, <1>1, <2>1, <2>2, <2>3 DEF MemAbove
<1>7. Fewer(logs, logs')
  BY <1>1, SameLogs
<1>8. Recoverable' => Recoverable
  BY <1>0, <1>1, StaysUnrecoverable
<1>9. EditAbove' /\ LogsFollow' /\ ManifestAbove' /\ InputsNewest'
  <2>1. Reserved \in Nat /\ Reserved' \in Nat /\ Reserved <= Reserved'
    BY <1>0, <1>3, <1>4
  <2> QED
    BY <1>0, <1>1, <1>2, <1>7, <1>8, <2>1, EditKept, LogsKept, ManifestKept, InputsKept
<1> QED
  BY <1>6, <1>9 DEF Order

\* A group that goes on with its next phase is still a group.
LEMMA WrittenGroup ==
  ASSUME WritersTyped, group # None, NEW p \in {"logging", "syncing", "applying"},
         group' = [group EXCEPT !.phase = p]
  PROVE  group' # None
<1>1. group' = [size |-> group.size, phase |-> p] /\ group.size \in Nat
  BY DEF WritersTyped
<1> QED
  BY <1>1, DBImplAssumption

\* Groups of writes number their entries above all others, in the order of the log.
LEMMA WritersKeepOrder ==
  ASSUME FileInv, TypedInv, CountInv, Order, NoErrorThenCrash', [Next]_vars, Write
  PROVE  Order'
<1> DEFINE k == Len(OpsOf(group.size))
<1>0. /\ WritersTyped /\ lastSequence \in Nat /\ Reserved \in Nat /\ lastSequence <= Reserved
      /\ group # None => up = "open" /\ k \in Nat
      /\ LogsTyped /\ LogsBounded
  BY ReservedIsNumber, GroupCounts DEF TypedInv, TypeInv, FileInv, Quiet
<1>1. ASSUME NEW w \in Writers, Enqueue(w)
      PROVE  Order'
  <2>1. /\ up = "open" /\ writers' = Append(writers, w) /\ group' = group
        /\ UNCHANGED <<up, mem, imm, logfileNumber, current, logNumber, manifest, edit, flush, compact,
                       logs, lastSequence>>
    BY <1>1 DEF Enqueue, memVars, setVars, bgVars, diskVars, countVars
  <2>2. Fewer(logs, logs')
    BY <2>1, SameLogs
  <2>3. Reserved' = Reserved
    <3>1. CASE group = None
      BY <2>1, <3>1 DEF Reserved
    <3>2. CASE group # None
      <4>1. OpsOf(group.size)' = OpsOf(group.size)
        BY <1>0, <2>1, <3>2, EnqueueKeepsGroup
      <4> QED
        BY <2>1, <4>1 DEF Reserved
    <3> QED
      BY <3>1, <3>2
  <2> QED
    BY <1>0, <2>1, <2>2, <2>3, QuietStep
<1>2. ASSUME NEW w \in Writers, RefuseWrite(w)
      PROVE  Order'
  <2>1. /\ up = "open" /\ group = None /\ group' = None
        /\ UNCHANGED <<up, mem, imm, logfileNumber, current, logNumber, manifest, edit, flush, compact,
                       logs, lastSequence>>
    BY <1>2 DEF RefuseWrite, AtHead, memVars, setVars, bgVars, diskVars, countVars
  <2>2. Fewer(logs, logs')
    BY <2>1, SameLogs
  <2>3. Reserved' = lastSequence /\ Reserved = lastSequence
    BY <1>0, <2>1 DEF Reserved
  <2> QED
    BY <1>0, <2>1, <2>2, <2>3, QuietStep
<1>3. ASSUME NEW w \in Writers, ForceSwitch(w)
      PROVE  Order'
  <2>1. /\ up = "open" /\ SwitchMemTable /\ group = None /\ group' = None
        /\ UNCHANGED <<up, logNumber, manifest, edit, flush, compact, lastSequence>>
    BY <1>3 DEF ForceSwitch, AtHead
  <2>2. Reserved' = lastSequence /\ Reserved = lastSequence
    BY <1>0, <2>1 DEF Reserved
  <2> QED
    BY <2>1, <2>2, SwitchKeepsOrder
<1>4. ASSUME NEW w \in Writers, BeginWrite(w)
      PROVE  Order'
  <2>1. /\ up = "open" /\ group = None /\ group'.phase = "logging"
        /\ UNCHANGED <<up, logNumber, manifest, edit, flush, compact, lastSequence>>
        /\ NoSwitch \/ SwitchMemTable
    BY <1>4 DEF BeginWrite, AtHead
  <2>2. Reserved' = lastSequence /\ Reserved = lastSequence
    BY <1>0, <2>1 DEF Reserved
  <2>3. CASE NoSwitch
    <3>1. UNCHANGED <<mem, imm, logfileNumber, current, logs>>
      BY <2>3 DEF NoSwitch, memVars
    <3>2. Fewer(logs, logs')
      BY <3>1, SameLogs
    <3> QED
      BY <1>0, <2>1, <2>2, <3>1, <3>2, QuietStep
  <2>4. CASE SwitchMemTable
    BY <2>1, <2>2, <2>4, SwitchKeepsOrder
  <2> QED
    BY <2>1, <2>3, <2>4
<1>5. CASE AddRecord
  <2>1. /\ group # None /\ group.phase = "logging" /\ group'.phase # "logging"
        /\ logs' = [logs EXCEPT ![logfileNumber].records = Append(@, GroupRecord)]
        /\ writers' = writers /\ group'.size = group.size
        /\ UNCHANGED <<up, mem, imm, logfileNumber, current, logNumber, manifest, edit, flush, compact,
                       lastSequence>>
    BY <1>0, <1>5 DEF AddRecord, WritersTyped, memVars, setVars, bgVars, countVars
  <2>2. k' = k
    BY <2>1 DEF OpsOf
  <2>3. group' # None
    BY <1>0, <1>5, WrittenGroup DEF AddRecord
  <2>4. Reserved = lastSequence /\ Reserved' = lastSequence + k
    BY <1>0, <2>1, <2>2, <2>3 DEF Reserved
  <2>5. Reserved' \in Nat /\ lastSequence' \in Nat /\ lastSequence <= Reserved' /\ lastSequence <= lastSequence'
    BY <1>0, <2>1, <2>4
  <2>6. \A e \in EntriesOfRecord(GroupRecord) : e.seq \in Int /\ e.seq > lastSequence /\ e.seq <= Reserved'
    BY <1>0, <2>1, <2>4, GroupCounts
  <2> QED
    BY <2>1, <2>4, <2>5, <2>6, <1>0, RecordKeepsOrder
<1>6. CASE SyncLog
  <2>1. /\ group # None /\ group.phase = "syncing" /\ group'.phase = "applying"
        /\ logs' = [logs EXCEPT ![logfileNumber].synced = Len(logs[logfileNumber].records)]
        /\ writers' = writers /\ group'.size = group.size
        /\ UNCHANGED <<up, mem, imm, logfileNumber, current, logNumber, manifest, edit, flush, compact,
                       lastSequence>>
    BY <1>0, <1>6 DEF SyncLog, WritersTyped, memVars, setVars, bgVars, countVars
  <2>2. k' = k
    BY <2>1 DEF OpsOf
  <2>5. group' # None
    BY <1>0, <1>6, WrittenGroup DEF SyncLog
  <2>3. Reserved' \in Nat /\ Reserved <= Reserved'
    BY <1>0, <2>1, <2>2, <2>5 DEF Reserved
  <2>4. Fewer(logs, logs')
    <3>1. DOMAIN logs' = DOMAIN logs /\ \A n \in DOMAIN logs : logs'[n].records = logs[n].records
      BY <1>0, <2>1 DEF LogsTyped
    <3> QED
      BY <3>1, SameLogs
  <2> QED
    BY <1>0, <2>1, <2>3, <2>4, QuietStep
<1>7. CASE ApplyWrite
  BY <1>7, ApplyKeepsOrder
<1>8. CASE AddRecordFails
  <2>1. /\ group # None /\ group.phase = "logging" /\ group' = None /\ lastSequence' = lastSequence + k
        /\ \/ logs' = logs
           \/ logs' = [logs EXCEPT ![logfileNumber].records = Append(@, TornRecord)]
        /\ UNCHANGED <<up, mem, imm, logfileNumber, current, logNumber, manifest, edit, flush, compact>>
    BY <1>8 DEF AddRecordFails, FinishGroup, memVars, setVars, bgVars
  <2>2. Reserved = lastSequence /\ Reserved' = lastSequence'
    BY <1>0, <2>1 DEF Reserved
  <2>3. lastSequence' \in Nat /\ lastSequence <= lastSequence'
    BY <1>0, <2>1
  <2>4. CASE logs' = logs
    BY <1>0, <2>1, <2>2, <2>3, <2>4, SameLogs, QuietStep
  <2>5. CASE logs' = [logs EXCEPT ![logfileNumber].records = Append(@, TornRecord)]
    <3>1. EntriesOfRecord(TornRecord) = {}
      BY DEF EntriesOfRecord, TornRecord
    <3> QED
      BY <1>0, <2>1, <2>2, <2>3, <2>5, <3>1, RecordKeepsOrder
  <2> QED
    BY <2>1, <2>4, <2>5
<1>9. CASE SyncFails
  <2>1. /\ group # None /\ group.phase = "syncing" /\ group' = None /\ lastSequence' = lastSequence + k
        /\ UNCHANGED <<up, mem, imm, logfileNumber, current, logNumber, manifest, edit, flush, compact, logs>>
    BY <1>9 DEF SyncFails, FinishGroup, memVars, setVars, diskVars
  <2>2. Reserved = lastSequence + k /\ Reserved' = lastSequence'
    BY <1>0, <2>1 DEF Reserved
  <2>3. lastSequence' \in Nat /\ lastSequence <= lastSequence' /\ Reserved <= Reserved'
    BY <1>0, <2>1, <2>2
  <2> QED
    BY <1>0, <2>1, <2>2, <2>3, SameLogs, QuietStep
<1> QED
  BY <1>1, <1>2, <1>3, <1>4, <1>5, <1>6, <1>7, <1>8, <1>9 DEF Write

-----------------------------------------------------------------------------
(* The background thread begins                                            *)

\* The background thread takes no numbers and leaves the memtable and the queue alone.
LEMMA BackgroundTakesNoNumbers ==
  ASSUME Background
  PROVE  /\ UNCHANGED <<group, writers, lastSequence, mem, logfileNumber>>
         /\ Reserved' = Reserved
<1>1. UNCHANGED <<group, writers, lastSequence, mem, logfileNumber>>
  <2>1. CASE StartFlush \/ BuildTableFails \/ BackgroundCallIdle
    BY <2>1 DEF StartFlush, BuildTableFails, BackgroundCallIdle, writeVars, memVars, countVars
  <2>2. CASE StartCompaction \/ OutputFails
    BY <2>2 DEF StartCompaction, OutputFails, writeVars, memVars, countVars
  <2>3. CASE WriteOutput
    BY <2>3 DEF WriteOutput, writeVars, memVars, countVars
  <2>4. CASE FlushBuilt \/ StartTrivialMove \/ FinishCompaction
    BY <2>4 DEF FlushBuilt, StartTrivialMove, FinishCompaction, writeVars, memVars, countVars
  <2>5. CASE EditWritten \/ EditFails
    BY <2>5 DEF EditWritten, EditFails, writeVars, memVars, countVars
  <2>6. CASE InstallFlush \/ InstallMove \/ InstallCompaction
    BY <2>6 DEF InstallFlush, InstallMove, InstallCompaction, writeVars, memVars, countVars
  <2> QED
    BY <2>1, <2>2, <2>3, <2>4, <2>5, <2>6 DEF Background
<1>2. OpsOf(group.size)' = OpsOf(group.size)
  BY <1>1 DEF OpsOf
<1> QED
  BY <1>1, <1>2 DEF Reserved

\* A step that goes from one thing to do to another.
LEMMA WorkStep ==
  ASSUME FileInv, TypedInv, CountInv, Order, NoErrorThenCrash', [Next]_vars, Background, up = "open",
         UNCHANGED <<up, imm, current, logNumber, manifest, logs>>,
         EditAbove', InputsNewest'
  PROVE  Order'
<1>1. MemAbove /\ LogsFollow /\ ManifestAbove
  BY DEF Order
<1>2. Recoverable' => Recoverable
  BY StaysUnrecoverable DEF CountInv
<1>3. /\ UNCHANGED <<lastSequence, mem, logfileNumber>> /\ Reserved' = Reserved
      /\ lastSequence' \in Nat /\ lastSequence <= lastSequence'
      /\ Reserved \in Nat /\ Reserved' \in Nat /\ Reserved <= Reserved'
  BY ReservedIsNumber, BackgroundTakesNoNumbers
<1>4. Fewer(logs, logs')
  BY SameLogs
<1>5. MemAbove'
  BY <1>1, <1>3, MemKept
<1>6. LogsFollow' /\ ManifestAbove'
  BY <1>1, <1>2, <1>3, <1>4, LogsKept, ManifestKept
<1> QED
  BY <1>5, <1>6 DEF Order

\* What is above two sets of entries is above their parts.
LEMMA AboveBoth ==
  ASSUME NEW L, NEW a, NEW E, NEW D, LogsAbove(L, a, E), LogsAbove(L, a, D), NEW X, X \subseteq E \cup D
  PROVE  LogsAbove(L, a, X)
BY DEF LogsAbove, AllAbove

\* Work that begins, or fails before it has an edit, moves no entry.
LEMMA BeginningsKeepOrder ==
  ASSUME FileInv, TypedInv, CountInv, Order, NoErrorThenCrash', [Next]_vars,
         StartFlush \/ BuildTableFails \/ BackgroundCallIdle \/ OutputFails
  PROVE  Order'
<1>1. UNCHANGED <<imm, current, logNumber, manifest, edit, logs>>
  BY DEF StartFlush, BuildTableFails, BackgroundCallIdle, OutputFails, memVars, setVars, diskVars
<1>2. /\ edit # None => flush' = flush
      /\ compact' = compact \/ compact' = None
  BY DEF StartFlush, BuildTableFails, BackgroundCallIdle, OutputFails, CleanupCompaction, NoBackgroundWork
<1>3. up = "open" /\ up' = up
  BY DEF StartFlush, BuildTableFails, BackgroundCallIdle, OutputFails, FileInv, Quiet
<1>4. EditAbove'
  BY <1>1, <1>2, <1>3, SameLogs, EditKept DEF Order
<1>5. InputsNewest'
  BY <1>1, <1>2, InputsKept DEF Order
<1> QED
  BY <1>1, <1>3, <1>4, <1>5, WorkStep DEF Background

\* An edit that only moves entries down.
LEMMA EditDown ==
  ASSUME FileInv, TypedInv, CountInv, Order, edit' # None, up' = "open", up = "open",
         UNCHANGED <<current, logs>>,
         edit'.log = logNumber, edit'.last = lastSequence, NewestFirst(ApplyEdit(current, edit')),
         EntriesIn(ApplyEdit(current, edit')) \subseteq EntriesIn(current)
  PROVE  EditAbove'
<1>1. NewVersion' = ApplyEdit(current, edit')
  BY DEF NewVersion
<1>2. SeqsTo(EntriesIn(current), lastSequence) /\ LogsAbove(logs, logNumber, EntriesIn(current))
  BY DEF Order, MemAbove, LogsFollow, SeqsTo
<1>3. LogsAbove(logs, logNumber, EntriesIn(NewVersion'))
  BY <1>1, <1>2, AboveBoth
<1>4. SeqsTo(EntriesIn(NewVersion'), lastSequence)
  BY <1>1, <1>2 DEF SeqsTo
<1> QED
  BY <1>1, <1>3, <1>4 DEF EditAbove

\* The files of each level.
LEMMA LevelsHaveFiles ==
  ASSUME FileInv, TypedInv
  PROVE  \A m \in Levels : FileSet(current[m])
<1>1. FilesOf(current) \subseteq tables
  BY DEF FileInv, HeldFilesExist, HeldFiles, LiveFiles
<1>2. \A m \in Levels : current[m] \subseteq tables
  BY <1>1 DEF FilesOf
<1> QED
  BY <1>2, FS_Subset DEF TypedInv, TypeInv, TablesAreFinite, TablesAreGood, FileSet

\* The inputs of a compaction leave the newer files of their level.
LEMMA ChosenAreInOrder ==
  ASSUME FileInv, TypedInv, NEW c \in CompactionChoices
  PROVE  /\ c.level \in Levels /\ c.level + 1 \in Levels
         /\ c.in0 \subseteq current[c.level] /\ c.in1 \subseteq current[c.level + 1]
         /\ \A f \in current[c.level] \ c.in0 : AllNewer(f.entries, EntriesOf(c.in0))
BY LevelsHaveFiles, ChosenLeaveNewer DEF TypedInv, TypeInv, CurrentIsSorted

\* The edit of a trivial move keeps the order: it takes every file of its level that overlaps.
LEMMA MoveKeepsOrder ==
  ASSUME FileInv, TypedInv, CountInv, Order, NoErrorThenCrash', [Next]_vars, StartTrivialMove
  PROVE  Order'
<1>1. PICK c \in CompactionChoices : IsTrivialMove(current, c) /\ edit' = MoveEdit(c)
  BY DEF StartTrivialMove, LogAndApply
<1>2. up = "open" /\ UNCHANGED <<up, imm, current, logNumber, manifest, logs, compact>>
  BY DEF StartTrivialMove, BackgroundCompaction, memVars, setVars, diskVars
<1>3. DOMAIN current = Levels /\ NewestFirst(current)
  BY DEF TypedInv, TypeInv, VersionsTyped, Order, MemAbove
<1>4. /\ edit'.deleted = InputDeletions(c) /\ edit'.added = {<<c.level + 1, f>> : f \in c.in0}
      /\ edit'.log = logNumber /\ edit'.last = lastSequence
  BY <1>1 DEF MoveEdit
<1>5. EntriesOf(c.in0) \subseteq EntriesOf(InputsOf(c))
  BY DEF EntriesOf, InputsOf
<1>6. /\ NewestFirst(ApplyEdit(current, edit'))
      /\ EntriesIn(ApplyEdit(current, edit')) \subseteq EntriesIn(current)
  BY <1>3, <1>4, <1>5, ChosenAreInOrder, MovedDown
<1>7. EditAbove'
  <2>1. CASE edit' = None
    BY <2>1 DEF EditAbove
  <2> QED
    BY <1>2, <1>4, <1>6, <2>1, EditDown
<1>8. InputsNewest'
  BY <1>2, InputsKept DEF Order
<1> QED
  BY <1>2, <1>7, <1>8, WorkStep DEF Background

\* So does the edit of a compaction.
LEMMA CompactionKeepsEntries ==
  ASSUME FileInv, TypedInv, CountInv, Order, NoErrorThenCrash', [Next]_vars, FinishCompaction
  PROVE  Order'
<1>1. /\ compact # None /\ edit' = CompactionEdit
      /\ UNCHANGED <<up, imm, current, logNumber, manifest, logs, compact>>
  BY DEF FinishCompaction, LogAndApply, memVars, setVars, diskVars
<1>2. up = "open"
  BY <1>1 DEF FileInv, Quiet
<1>3. DOMAIN current = Levels /\ NewestFirst(current) /\ InputsNewest
  BY DEF TypedInv, TypeInv, VersionsTyped, Order, MemAbove
<1>4. /\ edit'.deleted = InputDeletions(compact)
      /\ edit'.added = {<<compact.level + 1, f>> : f \in compact.outputs}
      /\ edit'.log = logNumber /\ edit'.last = lastSequence
  BY <1>1 DEF CompactionEdit
<1>5. EntriesOf(compact.outputs) \subseteq EntriesOf(InputsOf(compact))
  BY <1>1, <1>3 DEF InputsNewest
<1>6. /\ NewestFirst(ApplyEdit(current, edit'))
      /\ EntriesIn(ApplyEdit(current, edit')) \subseteq EntriesIn(current)
  BY <1>1, <1>3, <1>4, <1>5, MovedDown DEF InputsNewest
<1>7. EditAbove'
  <2>1. CASE edit' = None
    BY <2>1 DEF EditAbove
  <2> QED
    BY <1>1, <1>2, <1>4, <1>6, <2>1, EditDown
<1>8. InputsNewest'
  BY <1>1, InputsKept DEF Order
<1> QED
  BY <1>1, <1>2, <1>7, <1>8, WorkStep DEF Background

\* A compaction begins with the oldest entries of its keys in its level.
LEMMA CompactionBeginsInOrder ==
  ASSUME FileInv, TypedInv, CountInv, Order, NoErrorThenCrash', [Next]_vars, StartCompaction
  PROVE  Order'
<1>1. PICK c \in CompactionChoices : compact' = Compaction(c)
  BY DEF StartCompaction
<1>2. up = "open" /\ UNCHANGED <<up, imm, current, logNumber, manifest, logs, edit, flush>>
  BY DEF StartCompaction, BackgroundCompaction, memVars, setVars, diskVars
<1>3. /\ compact'.level = c.level /\ compact'.in0 = c.in0 /\ compact'.in1 = c.in1
      /\ compact'.todo \subseteq EntriesOf(InputsOf(c)) /\ compact'.outputs = {}
  BY <1>1 DEF Compaction, Kept
<1>4. InputsOf(compact') = InputsOf(c) /\ EntriesOf(compact'.outputs) = {}
  BY <1>3 DEF InputsOf, EntriesOf
<1>5. InputsNewest'
  BY <1>2, <1>3, <1>4, ChosenAreInOrder DEF InputsNewest
<1>6. EditAbove'
  BY <1>2, SameLogs, EditKept DEF Order
<1> QED
  BY <1>2, <1>5, <1>6, WorkStep DEF Background

\* An output holds entries of the inputs only.
LEMMA OutputKeepsOrder ==
  ASSUME FileInv, TypedInv, CountInv, Order, NoErrorThenCrash', [Next]_vars, WriteOutput
  PROVE  Order'
<1>0. Shapes /\ compact # None
  BY DEF FileInv, WriteOutput
<1>1. PICK part \in OutputsOf(compact, compact.todo) :
         compact' = [compact EXCEPT !.todo = @ \ part, !.outputs = @ \cup {File(nextFileNumber, part)}]
  BY Zenon DEF WriteOutput
<1>2. UNCHANGED <<up, imm, current, logNumber, manifest, logs, edit, flush>>
  BY DEF WriteOutput, memVars, setVars
<1>3. up = "open"
  BY <1>0 DEF FileInv, Quiet
<1>4. part \subseteq compact.todo
  BY DEF OutputsOf
<1>5. /\ compact'.level = compact.level /\ compact'.in0 = compact.in0 /\ compact'.in1 = compact.in1
      /\ compact'.todo = compact.todo \ part /\ compact'.outputs = compact.outputs \cup {File(nextFileNumber, part)}
  BY <1>0, <1>1 DEF Shapes
<1>6. EntriesOf(compact'.outputs) = EntriesOf(compact.outputs) \cup part
  <2>1. File(nextFileNumber, part).entries = part
    BY DEF File
  <2> QED
    BY <1>5, <2>1 DEF EntriesOf
<1>7. InputsOf(compact') = InputsOf(compact)
  BY <1>5 DEF InputsOf
<1>8. InputsNewest'
  BY <1>0, <1>2, <1>4, <1>5, <1>6, <1>7 DEF InputsNewest, Order
<1>9. EditAbove'
  BY <1>2, SameLogs, EditKept DEF Order
<1> QED
  BY <1>2, <1>3, <1>8, <1>9, WorkStep DEF Background

-----------------------------------------------------------------------------
(* A memtable becomes a table                                              *)

\* A flush goes to a level there is.
LEMMA PickedLevel ==
  ASSUME NEW v, NEW r
  PROVE  PickLevelForMemTableOutput(v, r) \in Levels
<1> DEFINE free(l) == /\ ~OverlapInLevel(v, l, r)
                      /\ l + 1 \in Levels => TotalFileSize(GetOverlappingInputs(v, l + 1, r))
                                               <= MaxGrandParentOverlapBytes
           reached == {l \in 0..MaxMemCompactLevel : \A m \in 1..l : free(m)}
           p == PickLevelForMemTableOutput(v, r)
<1>1. p = 0 \/ p = CHOOSE l \in reached : \A m \in reached : m <= l
  BY DEF PickLevelForMemTableOutput
<1>2. MaxMemCompactLevel \in Nat /\ 0..MaxMemCompactLevel \subseteq Levels
  BY VersionSetAssumption DEF Levels
<1> HIDE DEF free
<1>3. reached \in SUBSET (0..MaxMemCompactLevel) /\ 0 \in reached
  BY <1>2
<1>4. \E l \in reached : \A m \in reached : m <= l
  <2> HIDE DEF reached
  <2>1. Max2(reached) \in reached /\ \A m \in reached : m <= Max2(reached)
    BY <1>2, <1>3, Greatest
  <2> QED
    BY <2>1
<1> HIDE DEF reached, p
<1>5. p \in reached
  BY <1>1, <1>3, <1>4
<1> QED
  BY <1>2, <1>3, <1>5 DEF p

\* A table of the memtable lies above everything in the version it is added to.
LEMMA TableOnTop ==
  ASSUME NEW v, NEW e, NEW n \in Nat, NEW m, DOMAIN v = Levels, NewestFirst(v), MemTable(m),
         \A f \in FilesOf(v) : GoodTable(f) /\ f.number < n,
         AllAbove(m, EntriesIn(v)),
         e.deleted = {},
         \A q \in e.added : /\ m # {} /\ q[2] = File(n, m)
                            /\ q[1] = PickLevelForMemTableOutput(v, RangeOf({q[2]}))
  PROVE  /\ NewestFirst(ApplyEdit(v, e))
         /\ EntriesIn(ApplyEdit(v, e)) \subseteq EntriesIn(v) \cup m
<1> DEFINE F == File(n, m)
           p == IF m = {} THEN 0 ELSE PickLevelForMemTableOutput(v, RangeOf({F}))
<1>1. F.entries = m /\ F.number = n
  BY DEF File
<1>2. p \in Levels /\ 0 \in Levels
  BY PickedLevel, VersionSetAssumption DEF Levels
<1>3. \A l \in Levels : \A f \in v[l] : f \in FilesOf(v) /\ f.entries \subseteq EntriesIn(v)
  BY DEF FilesOf, EntriesIn, EntriesOf
<1>4. ASSUME NEW l \in Levels, NEW f \in v[l], l < p
      PROVE  \A a \in m, b \in f.entries : a.key # b.key
  <2>1. m # {} /\ p # 0 /\ p = PickLevelForMemTableOutput(v, RangeOf({F}))
    BY <1>4 DEF Levels
  <2>2. GoodTable(F)
    BY <2>1, BuiltTable
  <2>3. l \in 0..p
    BY <1>2, <1>4, VersionSetAssumption DEF Levels
  <2>4. ~OverlapInLevel(v, l, RangeOf({F}))
    BY <2>1, <2>3, FlushedBelow
  <2>5. ~Overlaps(f, RangeOf({F}))
    BY <2>4 DEF OverlapInLevel
  <2>6. GoodTable(f)
    BY <1>3
  <2> QED
    BY <1>1, <2>2, <2>5, <2>6, ApartKeys
<1>5. \A q \in e.added : q[1] = p /\ q[2] = F
  OBVIOUS
<1>6. \A l \in Levels : \A f \in v[l] : AllAbove(m, f.entries)
  BY <1>3 DEF AllAbove
<1>7. \A f \in v[0] : f.number \in Nat /\ f.number < n
  BY <1>2, <1>3 DEF GoodTable
<1> HIDE DEF F, p
<1>8. NewestFirst(ApplyEdit(v, e))
  BY <1>1, <1>2, <1>4, <1>5, <1>6, <1>7, AddedOnTop
<1>9. EntriesOf({q[2] : q \in e.added}) \subseteq m
  BY <1>1, <1>5 DEF EntriesOf
<1> QED
  BY <1>8, <1>9, EntriesOfEdit

\* The edit of a flush keeps the order: the memtable is newer than every file.
LEMMA FlushBuiltKeepsOrder ==
  ASSUME FileInv, TypedInv, CountInv, Order, NoErrorThenCrash', [Next]_vars, FlushBuilt
  PROVE  Order'
<1>1. /\ flush # None /\ edit' = FlushEdit
      /\ UNCHANGED <<up, imm, current, logNumber, manifest, logs, compact, flush>>
  BY DEF FlushBuilt, LogAndApply, memVars, setVars
<1>2. up = "open" /\ flush \in Nat
  BY <1>1 DEF FileInv, Quiet, CountsAreAhead
<1>3. imm # None /\ MemTable(imm) /\ DOMAIN current = Levels
  BY <1>1 DEF TypedInv, TypeInv, WorkTyped, MemTyped, VersionsTyped
<1>4. /\ MemAbove /\ LogsFollow /\ InputsNewest /\ FlushIsNewest /\ LastCounts
      /\ logNumber \in Nat /\ logfileNumber \in Nat
  BY DEF Order, CountInv, TypedInv, TypeInv, CountsTyped
<1>5. Flushing = imm
  BY <1>3 DEF Flushing
<1>6. \A f \in FilesOf(current) : GoodTable(f) /\ f.number < flush
  BY <1>1, <1>4, EntriesTyped DEF FlushIsNewest, Below
<1>7. AllAbove(imm, EntriesIn(current))
  BY <1>4, <1>5 DEF MemAbove
<1>8. /\ NewestFirst(ApplyEdit(current, FlushEdit))
      /\ EntriesIn(ApplyEdit(current, FlushEdit)) \subseteq EntriesIn(current) \cup imm
  BY <1>2, <1>3, <1>4, <1>6, <1>7, FlushEditIs, TableOnTop DEF MemAbove
<1>9. NewVersion' = ApplyEdit(current, FlushEdit)
  BY <1>1 DEF NewVersion
<1>10. SeqsTo(EntriesIn(NewVersion'), lastSequence)
  BY <1>4, <1>5, <1>8, <1>9 DEF MemAbove, SeqsTo
<1>11. LogsAbove(logs, logfileNumber, EntriesIn(NewVersion'))
  <2>1. LogsAbove(logs, logfileNumber, imm) /\ LogsAbove(logs, logNumber, EntriesIn(current))
    BY <1>2, <1>4, <1>5 DEF LogsFollow
  <2>2. \E c \in Nat : DOMAIN logs \subseteq 0..c
    BY DEF FileInv, LogsBounded
  <2>3. LogsAbove(logs, logfileNumber, EntriesIn(current))
    BY <1>2, <1>4, <2>1, <2>2, LaterLogs DEF LastCounts
  <2> QED
    BY <1>8, <1>9, <2>1, <2>3, AboveBoth
<1>12. edit'.log = logfileNumber /\ edit'.last = lastSequence
  BY <1>1 DEF FlushEdit
<1>13. EditAbove'
  BY <1>1, <1>8, <1>9, <1>10, <1>11, <1>12 DEF EditAbove
<1>14. InputsNewest'
  BY <1>1, <1>4, InputsKept
<1> QED
  BY <1>1, <1>2, <1>13, <1>14, WorkStep DEF Background

-----------------------------------------------------------------------------
(* The MANIFEST is written                                                 *)

\* Two tables of the same entries are not both in a sorted level.
LEMMA NotTwice ==
  ASSUME NEW v, LevelsAreSorted(v), NEW l \in Levels, l # 0, NEW f \in v[l], NEW g \in v[l],
         GoodTable(f), GoodTable(g), f.entries = g.entries
  PROVE  f = g
<1>1. f = File(f.number, f.entries) /\ g = File(g.number, f.entries)
  BY DEF GoodTable
<1>2. f.smallest = g.smallest /\ f.largest = g.largest
  <2>1. \A n : File(n, f.entries).smallest = SmallestKey(f.entries)
               /\ File(n, f.entries).largest = LargestKey(f.entries)
    BY DEF File
  <2> QED
    BY <1>1, <2>1
<1>3. ~Before(f.largest, f.smallest)
  BY TableRange DEF AtOrBefore
<1> QED
  BY <1>2, <1>3 DEF LevelsAreSorted

\* A table written again under another number has the same range.
LEMMA SameRange ==
  ASSUME NEW f, NEW n \in Nat, GoodTable(f)
  PROVE  RangeOf({f}) = RangeOf({File(n, f.entries)}) /\ GoodTable(File(n, f.entries))
<1> DEFINE g == File(n, f.entries)
<1>1. f = File(f.number, f.entries) /\ MemTable(f.entries) /\ f.entries # {}
  BY DEF GoodTable, MemTable
<1>2. GoodTable(g)
  BY <1>1, BuiltTable
<1>3. f.smallest = g.smallest /\ f.largest = g.largest
  <2>1. \A k : File(k, f.entries).smallest = SmallestKey(f.entries)
               /\ File(k, f.entries).largest = LargestKey(f.entries)
    BY DEF File
  <2> QED
    BY <1>1, <2>1
<1> HIDE DEF g
<1>4. {h.smallest : h \in {f}} = {h.smallest : h \in {g}} /\ {h.largest : h \in {f}} = {h.largest : h \in {g}}
  BY <1>3
<1>5. RangeOf({f}) = RangeOf({g})
  BY <1>4 DEF RangeOf
<1> QED
  BY <1>2, <1>5 DEF g

\* What a version is when the table of the memtable is added to it: the table
\* itself may be there already, from a write that was reported to have failed.
AppendedInOrder ==
  LET v == ApplyEdit(manifest.version, edit)
  IN  NewestFirst(v) /\ EntriesIn(v) \subseteq EntriesIn(NewVersion) \cup Flushing
                     /\ EntriesIn(v) \subseteq EntriesIn(NewVersion) \cup EntriesIn(manifest.version)

\* A flush whose edit reaches the disk, though its write failed, leaves the MANIFEST in order.
LEMMA FlushAppended ==
  ASSUME FileInv, TypedInv, CountInv, Order, up = "open", edit # None, ~durable, flush # None, ~Synced,
         manifest.state # "corrupt", LevelsAreSorted(ApplyEdit(manifest.version, edit))
  PROVE  AppendedInOrder
<1> DEFINE v == manifest.version
           w == ApplyEdit(manifest.version, edit)
           F == File(flush, imm)
           p == IF imm = {} THEN 0 ELSE PickLevelForMemTableOutput(current, RangeOf({F}))
<1>1. bgError /\ compact # None
  BY DEF FileInv, ManifestIsCurrent, NoBackgroundWork
<1>2. imm # None /\ MemTable(imm) /\ DOMAIN v = Levels /\ Flushing = imm
      /\ flush \in Nat /\ DOMAIN current = Levels
  BY DEF FileInv, CountsAreAhead, TypedInv, TypeInv, WorkTyped, MemTyped, VersionsTyped, Flushing
<1>3. OnlyCopies
  BY <1>1, <1>2 DEF CountInv, CopiesOnly, GoesOnAfterError
<1>4. /\ edit.deleted = {}
      /\ \A q \in edit.added : /\ imm # {} /\ q[2] = F
                               /\ q[1] = PickLevelForMemTableOutput(current, RangeOf({q[2]}))
  BY DEF CountInv, FlushForm
<1>5. \A f \in FilesOf(v) : GoodTable(f) /\ f.number < flush
  BY EntriesTyped DEF CountInv, FlushIsNewest, Below
<1>6. \A f \in FilesOf(current) : GoodTable(f)
  BY EntriesTyped
<1>7. \A l \in Levels : \A f \in v[l] : f \in FilesOf(v) /\ f.entries \subseteq EntriesIn(v)
  BY DEF FilesOf, EntriesIn, EntriesOf
<1>8. \A l \in Levels : \A f \in current[l] : f \in FilesOf(current) /\ f.entries \subseteq EntriesIn(current)
  BY DEF FilesOf, EntriesIn, EntriesOf
<1>9. LevelsAreSorted(v) /\ Recoverable
  <2>1. \A l \in Levels : v[l] \subseteq w[l]
    BY <1>4 DEF ApplyEdit
  <2>2. LevelsAreSorted(v)
    BY <2>1 DEF LevelsAreSorted
  <2> QED
    BY <2>2 DEF Recoverable, Dead
<1>10. NewestFirst(v)
  BY <1>9 DEF Order, ManifestAbove
<1>11. AllAbove(imm, EntriesIn(current))
  BY <1>2 DEF Order, MemAbove
<1>12. p \in Levels /\ 0 \in Levels
  BY PickedLevel, VersionSetAssumption DEF Levels
<1>13. F.entries = imm /\ F.number = flush /\ (imm # {} => GoodTable(F))
  BY <1>2, BuiltTable DEF File
<1>14. \A q \in edit.added : q[1] = p /\ q[2] = F
  BY <1>4
<1>15. ASSUME NEW l \in Levels, NEW f \in v[l], f \notin current[l]
       PROVE  f.entries = imm /\ imm # {} /\ l = p
  <2>1. f.entries = imm /\ l = PickLevelForMemTableOutput(current, RangeOf({f}))
    BY <1>3, <1>15 DEF OnlyCopies, IsCopy
  <2>2. GoodTable(f)
    BY <1>5, <1>7
  <2>3. imm # {}
    BY <2>1, <2>2 DEF GoodTable
  <2>4. RangeOf({f}) = RangeOf({F})
    BY <1>2, <2>1, <2>2, SameRange
  <2> QED
    BY <2>1, <2>3, <2>4
<1>16. EntriesIn(v) \subseteq EntriesIn(current) \cup imm
  <2> SUFFICES ASSUME NEW x \in EntriesIn(v) PROVE x \in EntriesIn(current) \cup imm
    OBVIOUS
  <2>1. PICK f \in FilesOf(v) : x \in f.entries
    BY DEF EntriesIn, EntriesOf
  <2>2. PICK l \in Levels : f \in v[l]
    BY DEF FilesOf
  <2> QED
    BY <1>8, <1>15, <2>1, <2>2
<1>17. EntriesOf({q[2] : q \in edit.added}) \subseteq EntriesIn(NewVersion)
  <2>1. \A q \in edit.added : q[2] \in NewVersion[p]
    BY <1>12, <1>14 DEF NewVersion, ApplyEdit
  <2>2. \A q \in edit.added : q[2] \in FilesOf(NewVersion)
    BY <1>12, <2>1 DEF FilesOf
  <2> QED
    BY <2>2 DEF EntriesIn, EntriesOf
<1>18. EntriesIn(current) \subseteq EntriesIn(NewVersion)
  <2>1. \A l \in Levels : current[l] \subseteq NewVersion[l]
    BY <1>4 DEF NewVersion, ApplyEdit
  <2>2. FilesOf(current) \subseteq FilesOf(NewVersion)
    BY <2>1 DEF FilesOf
  <2> QED
    BY <2>2 DEF EntriesIn, EntriesOf
<1>19. EntriesIn(w) \subseteq EntriesIn(v) \cup EntriesIn(NewVersion)
  BY <1>17, EntriesOfEdit
<1>20. NewestFirst(w)
  <2>1. CASE edit.added = {}
    <3>1. \A l \in Levels : w[l] = v[l]
      BY <1>4, <2>1 DEF ApplyEdit
    <3> QED
      BY <1>10, <1>12, <3>1 DEF NewestFirst
  <2>2. CASE edit.added # {}
    <3>1. imm # {} /\ F \in w[p]
      BY <1>4, <1>12, <1>14, <2>2 DEF ApplyEdit
    <3>2. ASSUME NEW l \in Levels, NEW f \in v[l]
          PROVE  AllAbove(F.entries, f.entries) \/ (l = 0 /\ p = 0 /\ f.entries = F.entries)
      <4>1. CASE f \in current[l]
        BY <1>8, <1>11, <1>13, <4>1 DEF AllAbove
      <4>2. CASE f \notin current[l]
        <5>1. f.entries = imm /\ l = p
          BY <1>15, <4>2
        <5>2. f \in w[p]
          BY <1>4, <1>12, <5>1 DEF ApplyEdit
        <5>3. f # F /\ GoodTable(f)
          BY <1>2, <1>5, <1>7, <1>13 DEF GoodTable
        <5>4. p = 0
          BY <1>12, <1>13, <3>1, <5>1, <5>2, <5>3, NotTwice
        <5> QED
          BY <1>13, <5>1, <5>4
      <4> QED
        BY <4>1, <4>2
    <3>3. ASSUME NEW l \in Levels, NEW f \in v[l], l < p
          PROVE  \A a \in F.entries, b \in f.entries : a.key # b.key
      <4>0. l # p
        <5> HIDE DEF p
        <5>1. l \in Int /\ p \in Int
          BY <1>12, VersionSetAssumption DEF Levels
        <5> QED
          BY <3>3, <5>1
      <4>1. f \in current[l]
        <5> HIDE DEF p
        <5> QED
          BY <1>15, <4>0
      <4>2. p # 0 /\ p = PickLevelForMemTableOutput(current, RangeOf({F}))
        BY <3>1, <3>3 DEF Levels
      <4>3. l \in 0..p
        BY <1>12, <3>3, VersionSetAssumption DEF Levels
      <4>4. ~OverlapInLevel(current, l, RangeOf({F}))
        BY <4>2, <4>3, FlushedBelow
      <4>5. ~Overlaps(f, RangeOf({F}))
        BY <4>1, <4>4 DEF OverlapInLevel
      <4> QED
        BY <1>6, <1>8, <1>13, <3>1, <4>1, <4>5, ApartKeys
    <3>4. \A f \in v[0] : f.number \in Nat /\ f.number < F.number
      BY <1>5, <1>7, <1>12, <1>13 DEF GoodTable
    <3>5. F.number \in Nat
      BY <1>2, <1>13
    <3> HIDE DEF F, p
    <3> QED
      BY <1>2, <1>4, <1>10, <1>12, <1>14, <3>2, <3>3, <3>4, <3>5, AddedOnTop
  <2> QED
    BY <2>1, <2>2
<1> HIDE DEF F, p
<1> QED
  BY <1>2, <1>16, <1>18, <1>19, <1>20 DEF AppendedInOrder

\* What holds of the MANIFEST when an edit has been appended to it.
LEMMA AppendedManifestInOrder ==
  ASSUME FileInv, TypedInv, CountInv, Order, up = "open", edit # None, ~durable, flush # None \/ Synced,
         manifest.state \notin {"torn", "corrupt"}, LevelsAreSorted(ApplyEdit(manifest.version, edit)),
         UNCHANGED <<logs, up>>, Reserved' = Reserved,
         manifest' = Whole(ApplyEdit(manifest.version, edit), edit)
  PROVE  ManifestAbove'
<1> DEFINE w == ApplyEdit(manifest.version, edit)
<1>1. /\ MemAbove /\ EditAbove /\ LogsFollow /\ LastCounts
      /\ logNumber \in Nat /\ logfileNumber \in Nat /\ edit.last \in Nat /\ manifest.last \in Nat
      /\ edit.log \in Nat /\ manifest.state # "corrupt"
  BY DEF Order, CountInv, TypedInv, TypeInv, CountsTyped, FileInv, EditCounts
<1>2. \E c \in Nat : DOMAIN logs \subseteq 0..c
  BY DEF FileInv, LogsBounded
<1>3. logNumber <= edit.log /\ edit.log <= logfileNumber /\ manifest.last <= edit.last
  BY <1>1 DEF LastCounts
<1>4. LogsInOrder(logs, edit.log) /\ LogsTo(logs, edit.log, Reserved)
  BY <1>1, <1>2, <1>3, LaterLogs DEF LogsFollow
<1>5. /\ NewestFirst(NewVersion) /\ SeqsTo(EntriesIn(NewVersion), edit.last)
      /\ LogsAbove(logs, edit.log, EntriesIn(NewVersion))
  BY <1>1 DEF EditAbove
<1>6. NewestFirst(w) /\ SeqsTo(EntriesIn(w), edit.last) /\ LogsAbove(logs, edit.log, EntriesIn(w))
  <2>1. CASE Synced
    <3>1. w = NewVersion
      BY <2>1 DEF Synced, NewVersion
    <3> QED
      BY <1>5, <3>1
  <2>2. CASE ~Synced
    <3>1. flush # None
      BY <2>2
    <3>2. AppendedInOrder
      BY <1>1, <2>2, <3>1, FlushAppended
    <3>3. /\ NewestFirst(w) /\ EntriesIn(w) \subseteq EntriesIn(NewVersion) \cup Flushing
          /\ EntriesIn(w) \subseteq EntriesIn(NewVersion) \cup EntriesIn(manifest.version)
      BY <3>2 DEF AppendedInOrder
    <3>4. edit.log = logfileNumber
      BY <3>1 DEF CountInv, FlushForm
    <3>5. LogsAbove(logs, edit.log, Flushing)
      BY <1>1, <3>4 DEF LogsFollow
    <3>6. LogsAbove(logs, edit.log, EntriesIn(w))
      BY <1>5, <3>3, <3>5, AboveBoth
    <3>7. Recoverable
      <4>1. edit.deleted = {}
        BY <3>1 DEF CountInv, FlushForm
      <4>2. \A l \in Levels : manifest.version[l] \subseteq w[l]
        BY <4>1 DEF ApplyEdit
      <4>3. LevelsAreSorted(manifest.version)
        BY <4>2 DEF LevelsAreSorted
      <4> QED
        BY <1>1, <3>1, <4>3 DEF Recoverable, Dead
    <3>8. SeqsTo(EntriesIn(manifest.version), manifest.last)
      BY <3>7 DEF Order, ManifestAbove
    <3>9. AreEntries(EntriesIn(manifest.version))
      BY EntriesTyped DEF AreEntries
    <3>10. SeqsTo(EntriesIn(manifest.version), edit.last)
      BY <1>1, <1>3, <3>8, <3>9 DEF SeqsTo, AreEntries
    <3>11. SeqsTo(EntriesIn(w), edit.last)
      BY <1>5, <3>3, <3>10 DEF SeqsTo
    <3> QED
      BY <3>3, <3>6, <3>11
  <2> QED
    BY <2>1, <2>2
<1>7. manifest'.version = w /\ manifest'.log = edit.log /\ manifest'.last = edit.last
  BY DEF Whole
<1> HIDE DEF w
<1> QED
  BY <1>4, <1>6, <1>7 DEF ManifestAbove

\* An error while nothing of a flush is under way ends the work on the MANIFEST.
LEMMA EditsEnd ==
  ASSUME FileInv, edit # None, ~durable, up = "open", flush = None, ~Synced, EditWritten \/ EditFails
  PROVE  Dead'
<1>1. bgError
  BY DEF FileInv, ManifestIsCurrent
<1>2. CASE EditWritten
  <2>1. durable' /\ UNCHANGED <<up, bgError, flush>>
    BY <1>2 DEF EditWritten
  <2> QED
    BY <1>1, <2>1 DEF Dead
<1>3. CASE EditFails
  <2>1. edit' = None /\ flush' = None /\ bgError' /\ up' = up /\ compact' = None
    BY <1>3 DEF EditFails, CleanupCompaction
  <2> QED
    BY <2>1 DEF Dead
<1> QED
  BY <1>2, <1>3

\* An edit written to the MANIFEST, whole or not, leaves it in order.
LEMMA EditsKeepManifest ==
  ASSUME FileInv, TypedInv, CountInv, Order, NoErrorThenCrash', [Next]_vars, EditWritten \/ EditFails
  PROVE  ManifestAbove'
<1>1. edit # None /\ ~durable /\ UNCHANGED <<up, logs>> /\ Shapes /\ Reserved' = Reserved
  BY BackgroundTakesNoNumbers DEF EditWritten, EditFails, Background, FileInv
<1>2. up \in {"recovering", "open"}
  BY <1>1 DEF FileInv, Quiet
<1>3. CASE up = "recovering" /\ manifest' = Whole(NewVersion, edit)
  <2>1. /\ manifest'.version = NewVersion /\ manifest'.log = edit.log /\ manifest'.last = edit.last
    BY <1>3 DEF Whole
  <2>2. /\ NewestFirst(NewVersion) /\ SeqsTo(EntriesIn(NewVersion), edit.last)
        /\ LogsAbove(logs, edit.log, EntriesIn(NewVersion))
    BY <1>1 DEF Order, EditAbove
  <2>3. \A n \in LogsFrom(logs, edit.log) : logs[n].records = <<>>
    BY <1>1, <1>3 DEF CountInv, LastCounts
  <2>4. LogsInOrder(logs, edit.log)
    BY <2>3 DEF LogsInOrder
  <2>5. up' # "open"
    BY <1>1, <1>3
  <2> QED
    BY <1>1, <2>1, <2>2, <2>4, <2>5 DEF ManifestAbove
<1>4. CASE /\ up = "open" /\ manifest' = Whole(ApplyEdit(manifest.version, edit), edit)
           /\ manifest.state \notin {"torn", "corrupt"}
  <2> SUFFICES ASSUME Recoverable' PROVE ManifestAbove'
    BY DEF ManifestAbove
  <2>1. manifest'.version = ApplyEdit(manifest.version, edit)
    BY <1>4 DEF Whole
  <2>2. LevelsAreSorted(ApplyEdit(manifest.version, edit)) /\ ~Dead'
    BY <2>1 DEF Recoverable
  <2>3. flush # None \/ Synced
    BY <1>1, <1>4, <2>2, EditsEnd
  <2> QED
    BY <1>1, <1>4, <2>2, <2>3, AppendedManifestInOrder
<1>5. CASE /\ manifest'.version = manifest.version /\ manifest'.log = manifest.log
           /\ manifest'.last = manifest.last
           /\ manifest'.state # "corrupt" => manifest.state # "corrupt" /\ EditFails
  <2>1. Recoverable' => Recoverable
    BY <1>5, StaysUnrecoverable DEF CountInv
  <2>2. Reserved \in Nat /\ Reserved' \in Nat /\ Reserved <= Reserved'
    BY <1>1, ReservedIsNumber
  <2>3. Fewer(logs, logs')
    BY <1>1, SameLogs
  <2> QED
    BY <1>1, <1>5, <2>1, <2>2, <2>3, ManifestKept DEF Order
<1> QED
  BY <1>1, <1>2, <1>3, <1>4, <1>5, ManifestAfter

\* So LogAndApply keeps the order, whether its write fails or not.
LEMMA EditsKeepOrder ==
  ASSUME FileInv, TypedInv, CountInv, Order, NoErrorThenCrash', [Next]_vars, EditWritten \/ EditFails
  PROVE  Order'
<1>1. /\ edit # None /\ UNCHANGED <<up, imm, current, logNumber, logs>>
      /\ UNCHANGED <<lastSequence, mem, logfileNumber>> /\ Reserved' = Reserved
  BY BackgroundTakesNoNumbers DEF EditWritten, EditFails, Background, memVars, setVars
<1>2. Fewer(logs, logs') /\ Reserved \in Nat /\ lastSequence \in Nat
  BY <1>1, SameLogs, ReservedIsNumber
<1>3. MemAbove'
  BY <1>1, <1>2, MemKept DEF Order
<1>4. LogsFollow'
  BY <1>1, <1>2, LogsKept DEF Order
<1>5. EditAbove'
  <2>1. CASE EditWritten
    <3>1. UNCHANGED <<edit, flush>>
      BY <2>1 DEF EditWritten
    <3> QED
      BY <1>1, <1>2, <3>1, EditKept DEF Order
  <2>2. CASE EditFails
    BY <2>2 DEF EditFails, EditAbove
  <2> QED
    BY <2>1, <2>2
<1>6. InputsNewest'
  <2>1. compact' = compact \/ compact' = None
    BY DEF EditWritten, EditFails, CleanupCompaction
  <2> QED
    BY <1>1, <2>1, InputsKept DEF Order
<1> QED
  BY <1>3, <1>4, <1>5, <1>6, EditsKeepManifest DEF Order

-----------------------------------------------------------------------------
(* A version is installed                                                  *)

\* DeleteObsoleteFiles adds no record.
LEMMA ObsoleteLogsGo ==
  ASSUME DeleteObsoleteFiles
  PROVE  Fewer(logs, logs')
<1>1. CASE bgError
  BY <1>1, SameLogs DEF DeleteObsoleteFiles
<1>2. CASE ~bgError
  <2>1. logs' = Restrict2(logs, {n \in DOMAIN logs : n >= logNumber'})
    BY <1>2 DEF DeleteObsoleteFiles
  <2>2. DOMAIN logs' \subseteq DOMAIN logs /\ \A n \in DOMAIN logs' : logs'[n].records = logs[n].records
    BY <2>1 DEF Restrict2
  <2> QED
    BY <2>2, SameLogs
<1> QED
  BY <1>1, <1>2

\* A version that is in order, and below the memory, can be installed.
LEMMA InstalledInOrder ==
  ASSUME FileInv, TypedInv, CountInv, Order, NoErrorThenCrash', [Next]_vars, up = "open",
         edit # None, InstallVersion, UNCHANGED <<up, mem, logfileNumber, lastSequence, manifest>>,
         Reserved' = Reserved, Fewer(logs, logs'), Flushing' \subseteq Flushing,
         AllAbove(mem, EntriesIn(NewVersion)), AllAbove(Flushing', EntriesIn(NewVersion)),
         SeqsTo(EntriesIn(NewVersion), lastSequence), InputsNewest'
  PROVE  Order'
<1>1. /\ MemAbove /\ EditAbove /\ LogsFollow /\ ManifestAbove /\ LastCounts
      /\ logNumber \in Nat /\ edit.log \in Nat /\ Reserved \in Nat
  BY ReservedIsNumber DEF Order, CountInv, TypedInv, TypeInv, CountsTyped, FileInv, EditCounts
<1>2. current' = NewVersion /\ logNumber' = edit.log /\ edit' = None
  BY DEF InstallVersion, NewVersion
<1>3. /\ NewestFirst(NewVersion) /\ LogsAbove(logs, edit.log, EntriesIn(NewVersion))
  BY <1>1 DEF EditAbove
<1>4. MemAbove'
  <2>1. AllAbove(mem, Flushing' \cup EntriesIn(NewVersion))
    BY <1>1 DEF MemAbove, AllAbove
  <2>2. SeqsTo(mem \cup Flushing' \cup EntriesIn(NewVersion), lastSequence)
    BY <1>1 DEF MemAbove, SeqsTo
  <2> QED
    BY <1>2, <1>3, <2>1, <2>2 DEF MemAbove
<1>5. EditAbove'
  BY <1>2 DEF EditAbove
<1>6. LogsFollow'
  <2>1. \E c \in Nat : DOMAIN logs \subseteq 0..c
    BY DEF FileInv, LogsBounded
  <2>2. logNumber <= edit.log
    BY <1>1 DEF LastCounts
  <2>3. LogsInOrder(logs, edit.log) /\ LogsTo(logs, edit.log, Reserved)
    BY <1>1, <2>1, <2>2, LaterLogs DEF LogsFollow
  <2>4. LogsAbove(logs, logfileNumber, Flushing')
    BY <1>1, AboveBoth DEF LogsFollow
  <2> QED
    BY <1>2, <1>3, <2>3, <2>4, FewerRecords DEF LogsFollow
<1>7. Recoverable' => Recoverable
  BY StaysUnrecoverable DEF CountInv
<1>8. ManifestAbove'
  BY <1>1, <1>7, ManifestKept
<1> QED
  BY <1>4, <1>5, <1>6, <1>8 DEF Order

\* A flush is installed in order: its table takes the place of the memtable it was.
LEMMA FlushInstalled ==
  ASSUME FileInv, TypedInv, CountInv, Order, NoErrorThenCrash', [Next]_vars, InstallFlush
  PROVE  Order'
<1>1. /\ edit # None /\ flush # None /\ InstallVersion /\ imm' = None /\ Reserved' = Reserved
      /\ UNCHANGED <<up, mem, logfileNumber, lastSequence, manifest, compact>>
  BY BackgroundTakesNoNumbers DEF InstallFlush, Background
<1>2. up = "open" /\ Fewer(logs, logs')
  BY <1>1, ObsoleteLogsGo DEF FileInv, Quiet, InstallFlush
<1>3. Flushing' = {} /\ Flushing = imm
  BY <1>1 DEF Flushing, TypedInv, TypeInv, WorkTyped
<1>4. MemAbove /\ InputsNewest
  BY DEF Order
<1>5. /\ edit.deleted = {}
      /\ \A q \in edit.added : imm # {} /\ q[2] = File(flush, imm)
  BY <1>1 DEF CountInv, FlushForm
<1>6. File(flush, imm).entries = imm
  BY DEF File
<1>7. EntriesIn(NewVersion) \subseteq EntriesIn(current) \cup imm
  <2>1. EntriesOf({q[2] : q \in edit.added}) \subseteq imm
    BY <1>5, <1>6 DEF EntriesOf
  <2> QED
    BY <2>1, EntriesOfEdit DEF NewVersion
<1>8. AllAbove(mem, EntriesIn(NewVersion)) /\ SeqsTo(EntriesIn(NewVersion), lastSequence)
  BY <1>3, <1>4, <1>7 DEF MemAbove, AllAbove, SeqsTo
<1>9. AllAbove(Flushing', EntriesIn(NewVersion))
  BY <1>3 DEF AllAbove
<1>10. InputsNewest'
  <2> SUFFICES ASSUME compact # None PROVE InputsNewest'
    BY <1>1 DEF InputsNewest
  <2>1. \A l \in Levels : /\ current[l] \subseteq current'[l]
                          /\ \A f \in current'[l] : f \in current[l] \/ f = File(flush, imm)
    BY <1>1, <1>5 DEF InstallVersion, ApplyEdit
  <2>2. compact.level \in Levels /\ EntriesOf(compact.in0) \subseteq EntriesIn(current)
    BY <1>4 DEF InputsNewest, EntriesOf, EntriesIn, FilesOf
  <2>3. AllAbove(imm, EntriesOf(compact.in0))
    BY <1>3, <1>4, <2>2 DEF MemAbove, AllAbove
  <2>4. AllNewer(imm, EntriesOf(compact.in0))
    BY <2>3, AboveIsNewer
  <2>5. \A f \in current'[compact.level] \ compact.in0 : AllNewer(f.entries, EntriesOf(compact.in0))
    BY <1>4, <1>6, <2>1, <2>2, <2>4 DEF InputsNewest
  <2> QED
    BY <1>1, <1>4, <2>1, <2>5 DEF InputsNewest
<1> QED
  BY <1>1, <1>2, <1>3, <1>8, <1>9, <1>10, InstalledInOrder

\* So is a compaction.
LEMMA CompactionInstalled ==
  ASSUME FileInv, TypedInv, CountInv, Order, NoErrorThenCrash', [Next]_vars, InstallMove \/ InstallCompaction
  PROVE  Order'
<1>1. /\ edit # None /\ flush = None /\ InstallVersion /\ imm' = imm /\ Reserved' = Reserved
      /\ UNCHANGED <<up, mem, logfileNumber, lastSequence, manifest>>
  BY BackgroundTakesNoNumbers DEF InstallMove, InstallCompaction, Background, memVars, diskVars
<1>2. up = "open"
  BY DEF InstallMove, InstallCompaction, FileInv, Quiet
<1>3. Fewer(logs, logs')
  BY ObsoleteLogsGo, SameLogs DEF InstallMove, InstallCompaction, diskVars
<1>4. compact' = None
  BY DEF InstallMove, InstallCompaction, CleanupCompaction
<1>5. EntriesIn(NewVersion) \subseteq EntriesIn(current) /\ MemAbove
  BY <1>1, <1>2 DEF Order, EditAbove
<1>6. Flushing' = Flushing
  BY <1>1 DEF Flushing
<1>7. /\ AllAbove(mem, EntriesIn(NewVersion)) /\ SeqsTo(EntriesIn(NewVersion), lastSequence)
      /\ AllAbove(Flushing', EntriesIn(NewVersion))
  BY <1>5, <1>6 DEF MemAbove, AllAbove, SeqsTo
<1>8. InputsNewest'
  BY <1>4 DEF InputsNewest
<1> QED
  BY <1>1, <1>2, <1>3, <1>6, <1>7, <1>8, InstalledInOrder

\* The background thread keeps the order.
LEMMA BackgroundKeepsEntriesInOrder ==
  ASSUME FileInv, TypedInv, CountInv, Order, NoErrorThenCrash', [Next]_vars, Background
  PROVE  Order'
BY BeginningsKeepOrder, MoveKeepsOrder, CompactionKeepsEntries, CompactionBeginsInOrder, OutputKeepsOrder,
   FlushBuiltKeepsOrder, EditsKeepOrder, FlushInstalled, CompactionInstalled DEF Background

-----------------------------------------------------------------------------
(* Readers, DB::Open, crashes                                              *)

\* A step that moves no entries.
LEMMA StillStep ==
  ASSUME FileInv, TypedInv, CountInv, Order, NoErrorThenCrash', [Next]_vars,
         UNCHANGED <<up, mem, imm, logfileNumber, current, logNumber, edit, flush, compact, logs,
                     lastSequence>>,
         Reserved' = Reserved,
         manifest'.version = manifest.version, manifest'.log = manifest.log, manifest'.last = manifest.last,
         manifest'.state # "corrupt" => manifest.state # "corrupt"
  PROVE  Order'
<1>1. /\ Fewer(logs, logs') /\ Reserved \in Nat /\ lastSequence \in Nat
      /\ Recoverable' => Recoverable
  BY SameLogs, ReservedIsNumber, StaysUnrecoverable DEF CountInv
<1>2. MemAbove' /\ EditAbove' /\ InputsNewest'
  BY <1>1, MemKept, EditKept, InputsKept DEF Order
<1>3. LogsFollow' /\ ManifestAbove'
  BY <1>1, LogsKept, ManifestKept DEF Order
<1> QED
  BY <1>2, <1>3 DEF Order

\* Readers keep the order.
LEMMA ReadersKeepOrder ==
  ASSUME FileInv, TypedInv, CountInv, Order, NoErrorThenCrash', [Next]_vars, Read \/ UNCHANGED vars
  PROVE  Order'
<1>1. UNCHANGED <<up, mem, imm, logfileNumber, current, logNumber, edit, flush, compact, logs,
                  lastSequence, manifest, writers, group>>
  <2>1. CASE Read
    BY <2>1 DEF Read, StartRead, EndRead, GetSnapshot, ReleaseSnapshot, RequestCompactRange,
                writeVars, memVars, setVars, countVars, bgVars, diskVars
  <2>2. CASE UNCHANGED vars
    BY <2>2 DEF vars, writeVars, memVars, setVars, countVars, bgVars, diskVars
  <2> QED
    BY <2>1, <2>2
<1>2. Reserved' = Reserved
  <2>1. OpsOf(group.size)' = OpsOf(group.size)
    BY <1>1 DEF OpsOf
  <2> QED
    BY <1>1, <2>1 DEF Reserved
<1> QED
  BY <1>1, <1>2, StillStep

\* A new database has no entry.
LEMMA NewDBKeepsOrder ==
  ASSUME FileInv, TypedInv, CountInv, Order, NoErrorThenCrash', [Next]_vars, NewDB
  PROVE  Order'
<1>1. /\ UNCHANGED <<up, mem, imm, logfileNumber, current, logNumber, edit, flush, compact, logs,
                     lastSequence, writers, group>>
      /\ manifest.state = "none" /\ manifest' = [manifest EXCEPT !.state = "unsynced"]
  BY DEF NewDB, writeVars, memVars, setVars, countVars, bgVars
<1>2. Reserved' = Reserved
  <2>1. OpsOf(group.size)' = OpsOf(group.size)
    BY <1>1 DEF OpsOf
  <2> QED
    BY <1>1, <2>1 DEF Reserved
<1>3. /\ manifest'.version = manifest.version /\ manifest'.log = manifest.log
      /\ manifest'.last = manifest.last
  BY <1>1 DEF FileInv, Shapes
<1> QED
  BY <1>1, <1>2, <1>3, StillStep

\* An empty version is in order.
LEMMA EmptyVersionInOrder ==
  NewestFirst(EmptyVersion) /\ EntriesIn(EmptyVersion) = {}
<1>1. 0 \in Levels
  BY VersionSetAssumption DEF Levels
<1>2. \A l \in Levels : EmptyVersion[l] = {} /\ EntriesOf(EmptyVersion[l]) = {}
  BY DEF EmptyVersion, EntriesOf
<1>3. NewestFirst(EmptyVersion)
  BY <1>1, <1>2 DEF NewestFirst, AllNewer
<1> QED
  BY <1>3, NoFiles DEF EntriesIn, EntriesOf

\* A process that ends loses memory, and perhaps records not synced.
LEMMA DeathKeepsOrder ==
  ASSUME FileInv, TypedInv, CountInv, Order, NoErrorThenCrash', [Next]_vars, NEW kind, ProcessDies(kind),
         manifest' = manifest \/ manifest' = [manifest EXCEPT !.state = "corrupt"]
  PROVE  Order'
<1>1. /\ mem' = {} /\ imm' = None /\ current' = EmptyVersion /\ edit' = None /\ compact' = None
      /\ up' = "closed"
  BY DEF ProcessDies
<1>2. Fewer(logs, logs')
  BY CrashLeavesFewer DEF TypedInv, TypeInv
<1>3. Flushing' = {}
  BY <1>1 DEF Flushing
<1>4. MemAbove'
  BY <1>1, <1>3, EmptyVersionInOrder DEF MemAbove, AllAbove, SeqsTo
<1>5. EditAbove' /\ LogsFollow' /\ InputsNewest'
  BY <1>1 DEF EditAbove, LogsFollow, InputsNewest
<1>6. /\ manifest'.version = manifest.version /\ manifest'.log = manifest.log
      /\ manifest'.last = manifest.last /\ (manifest'.state # "corrupt" => manifest.state # "corrupt")
  BY DEF FileInv, Shapes
<1>7. Recoverable' => Recoverable
  BY <1>6, StaysUnrecoverable DEF CountInv
<1>8. ManifestAbove'
  BY <1>1, <1>2, <1>6, <1>7, ManifestKept DEF Order
<1> QED
  BY <1>4, <1>5, <1>8 DEF Order

\* The tables that a recovery builds from the logs are newer than those in the MANIFEST.
LEMMA RecoveredVersion ==
  ASSUME FileInv, TypedInv, ManifestAbove, Recoverable,
         NEW e, e.deleted = {}, e.added = {<<0, f>> : f \in Recovered.files}
  PROVE  NewestFirst(ApplyEdit(manifest.version, e))
<1> DEFINE v == manifest.version
           w == ApplyEdit(manifest.version, e)
           R == Recovered.files
<1>1. /\ NewestFirst(v) /\ LogsAbove(logs, manifest.log, EntriesIn(v)) /\ LogsInOrder(logs, manifest.log)
  BY DEF ManifestAbove
<1>2. /\ LogsTyped /\ LogsBounded /\ LogsHoldRecords /\ manifest.next \in Nat
      /\ Below(FilesOf(v), manifest.next)
  BY DEF FileInv, TypedInv, TypeInv, ManifestCounts
<1>3. /\ \A f \in R : AllAbove(f.entries, EntriesIn(v))
      /\ \A f, g \in R : f.number > g.number => AllAbove(f.entries, g.entries)
  BY <1>1, <1>2, RecoveredInOrder
<1>4. \A f \in R : f.number \in Nat /\ manifest.next < f.number
  BY <1>2, RecoveryCounts
<1>5. 0 \in Levels /\ Levels \subseteq Nat
  BY VersionSetAssumption DEF Levels
<1> HIDE DEF R
<1>6. w[0] = v[0] \cup R /\ \A l \in Levels : l # 0 => w[l] = v[l]
  <2>1. \A l \in Levels : w[l] = v[l] \cup {p[2] : p \in {q \in e.added : q[1] = l}}
    BY DEF ApplyEdit
  <2>0. e.added = {<<0, f>> : f \in R}
    BY DEF R
  <2>2. {p[2] : p \in {q \in e.added : q[1] = 0}} = R
    <3>1. \A q \in e.added : q[1] = 0 /\ q[2] \in R
      BY <2>0
    <3>2. \A f \in R : <<0, f>> \in e.added /\ <<0, f>>[1] = 0 /\ <<0, f>>[2] = f
      BY <2>0
    <3>3. \A f \in R : f \in {p[2] : p \in {q \in e.added : q[1] = 0}}
      BY <3>2
    <3> QED
      BY <3>1, <3>3
  <2>3. \A l \in Levels : l # 0 => {p[2] : p \in {q \in e.added : q[1] = l}} = {}
    BY DEF R
  <2> QED
    BY <1>5, <2>1, <2>2, <2>3
<1>7. \A l \in Levels : \A f \in v[l] : f \in FilesOf(v) /\ f.entries \subseteq EntriesIn(v)
  BY DEF FilesOf, EntriesIn, EntriesOf
<1> HIDE DEF w, v
<1>8. ASSUME NEW f \in w[0], NEW g \in w[0], f.number > g.number
      PROVE  f.entries = g.entries \/ AllNewer(f.entries, g.entries)
  <2>1. CASE f \in v[0] /\ g \in v[0]
    BY <1>1, <1>8, <2>1 DEF NewestFirst
  <2>2. CASE f \in R
    <3>1. AllAbove(f.entries, g.entries)
      BY <1>3, <1>5, <1>6, <1>7, <1>8, <2>2 DEF AllAbove
    <3> QED
      BY <3>1, AboveIsNewer
  <2>3. CASE f \in v[0] /\ g \in R
    <3>1. f.number \in Nat /\ f.number < manifest.next /\ g.number \in Nat /\ manifest.next < g.number
      BY <1>2, <1>4, <1>5, <1>7, <2>3 DEF Below
    <3> QED
      BY <1>2, <1>8, <3>1
  <2> QED
    BY <1>6, <2>1, <2>2, <2>3
<1>9. ASSUME NEW l \in Levels, NEW m \in Levels, l < m
      PROVE  AllNewer(EntriesOf(w[l]), EntriesOf(w[m]))
  <2>1. m # 0 /\ w[m] = v[m]
    BY <1>5, <1>6, <1>9
  <2>2. AllNewer(EntriesOf(v[l]), EntriesOf(v[m]))
    BY <1>1, <1>9 DEF NewestFirst
  <2>3. EntriesOf(v[m]) \subseteq EntriesIn(v)
    BY DEF EntriesOf, EntriesIn, FilesOf
  <2>4. \A x \in EntriesOf(w[l]) : x \in EntriesOf(v[l]) \/ \E f \in R : x \in f.entries
    BY <1>6 DEF EntriesOf
  <2>5. AllAbove(EntriesOf(R), EntriesOf(v[m]))
    BY <1>3, <2>3 DEF AllAbove, EntriesOf
  <2>6. AllNewer(EntriesOf(R), EntriesOf(v[m]))
    BY <2>5, AboveIsNewer
  <2> QED
    BY <2>1, <2>2, <2>4, <2>6 DEF AllNewer, EntriesOf
<1>10. NewestFirst(w)
  BY <1>8, <1>9 DEF NewestFirst
<1> QED
  BY <1>10 DEF w, v

\* Recovery keeps the order.
LEMMA RecoverKeepsOrder ==
  ASSUME FileInv, TypedInv, CountInv, Order, NoErrorThenCrash', [Next]_vars, Recover
  PROVE  Order'
<1> DEFINE s == Max2({manifest.last} \cup {e.seq : e \in EntriesOf(Recovered.files)})
<1>1. /\ up = "closed" /\ up' = "recovering" /\ manifest' = manifest /\ current' = manifest.version
      /\ UNCHANGED <<mem, imm, compact>> /\ lastSequence' = s
      /\ logs' = WithLog(Recovered.next) /\ logfileNumber' = Recovered.next
      /\ edit' # None =>
           /\ edit'.deleted = {} /\ edit'.added = {<<0, f>> : f \in Recovered.files}
           /\ edit'.log = Recovered.next /\ edit'.last = s
      /\ manifest.state # "corrupt" /\ LevelsAreSorted(manifest.version)
  BY DEF Recover
<1>2. mem = {} /\ imm = None /\ compact = None
  BY <1>1 DEF CountInv, LastCounts, FileInv, Quiet
<1>3. Recoverable /\ ManifestAbove
  BY <1>1 DEF Recoverable, Dead, Order
<1>4. /\ NewestFirst(manifest.version) /\ SeqsTo(EntriesIn(manifest.version), manifest.last)
  BY <1>3 DEF ManifestAbove
<1>5. /\ LogsTyped /\ LogsBounded /\ LogsHoldRecords /\ manifest.next \in Nat /\ manifest.last \in Nat
  BY DEF FileInv, TypedInv, TypeInv, ManifestCounts, CountsTyped
<1>6. s \in Nat /\ \A t \in {manifest.last} \cup {e.seq : e \in EntriesOf(Recovered.files)} : t <= s
  BY <1>5, RecoveredTables
<1> HIDE DEF s
<1>7. AreEntries(EntriesIn(manifest.version))
  BY EntriesTyped DEF AreEntries
<1>8. SeqsTo(EntriesIn(manifest.version), s)
  BY <1>4, <1>5, <1>6, <1>7 DEF SeqsTo, AreEntries
<1>9. MemAbove'
  <2>1. mem' = {} /\ Flushing' = {}
    BY <1>1, <1>2 DEF Flushing
  <2> QED
    BY <1>1, <1>4, <1>8, <2>1 DEF MemAbove, AllAbove, SeqsTo
<1>10. Fewer(logs, logs')
  BY <1>1, NewLogHasFewer
<1>11. EditAbove'
  <2> SUFFICES ASSUME edit' # None PROVE EditAbove'
    BY DEF EditAbove
  <2>1. NewVersion' = ApplyEdit(manifest.version, edit')
    BY <1>1 DEF NewVersion
  <2>2. NewestFirst(NewVersion')
    BY <1>1, <1>3, <2>1, RecoveredVersion
  <2>3. SeqsTo(EntriesIn(NewVersion'), s)
    <3>1. {p[2] : p \in edit'.added} \subseteq Recovered.files
      BY <1>1
    <3>2. EntriesIn(NewVersion') \subseteq EntriesIn(manifest.version) \cup EntriesOf({p[2] : p \in edit'.added})
      BY <2>1, EntriesOfEdit
    <3>3. EntriesOf({p[2] : p \in edit'.added}) \subseteq EntriesOf(Recovered.files)
      BY <3>1 DEF EntriesOf
    <3>4. SeqsTo(EntriesOf(Recovered.files), s)
      BY <1>6 DEF SeqsTo
    <3> QED
      BY <1>8, <3>2, <3>3, <3>4 DEF SeqsTo
  <2>4. \A n \in LogsFrom(logs', Recovered.next) : logs'[n].records = <<>>
    <3>1. LastCounts'
      BY LastCountsNext DEF CountInv
    <3> QED
      BY <1>1, <3>1 DEF LastCounts
  <2>5. LogsAbove(logs', Recovered.next, EntriesIn(NewVersion'))
    BY <2>4 DEF LogsAbove
  <2> QED
    BY <1>1, <2>2, <2>3, <2>5 DEF EditAbove
<1>12. LogsFollow' /\ InputsNewest'
  BY <1>1, <1>2 DEF LogsFollow, InputsNewest
<1>13. ManifestAbove'
  <2>1. Recoverable' => Recoverable
    BY <1>3
  <2> QED
    BY <1>1, <1>3, <1>10, <2>1, ManifestKept
<1> QED
  BY <1>9, <1>11, <1>12, <1>13 DEF Order

\* So does the installation of the recovered version.
LEMMA OpenInstalledKeepsOrder ==
  ASSUME FileInv, TypedInv, CountInv, Order, NoErrorThenCrash', [Next]_vars, OpenInstalled
  PROVE  Order'
<1>1. /\ up = "recovering" /\ edit # None /\ durable /\ InstallVersion /\ DeleteObsoleteFiles
      /\ UNCHANGED <<mem, imm, logfileNumber, compact, manifest, lastSequence, group>>
  BY DEF OpenInstalled, memVars, writeVars, countVars
<1>2. /\ mem = {} /\ imm = None /\ compact = None /\ ~bgError /\ group = None
      /\ edit.log = logfileNumber /\ edit.last = lastSequence
      /\ \A n \in LogsFrom(logs, logfileNumber) : logs[n].records = <<>>
  BY <1>1 DEF CountInv, LastCounts, FileInv, Quiet
<1>3. current' = NewVersion /\ logNumber' = edit.log /\ edit' = None
  BY <1>1 DEF InstallVersion, NewVersion
<1>4. \A n \in DOMAIN logs' : logs'[n].records = <<>>
  <2>1. logs' = Restrict2(logs, {n \in DOMAIN logs : n >= logNumber'})
    BY <1>1, <1>2 DEF DeleteObsoleteFiles
  <2> QED
    BY <1>2, <1>3, <2>1 DEF Restrict2, LogsFrom
<1>5. NewestFirst(NewVersion) /\ SeqsTo(EntriesIn(NewVersion), lastSequence)
  BY <1>1, <1>2 DEF Order, EditAbove
<1>6. Flushing' = {}
  BY <1>1, <1>2 DEF Flushing
<1>7. MemAbove'
  BY <1>1, <1>2, <1>3, <1>5, <1>6 DEF MemAbove, AllAbove, SeqsTo
<1>8. \A a : /\ \A E : LogsAbove(logs', a, E)
             /\ LogsTo(logs', a, Reserved') /\ LogsInOrder(logs', a)
  BY <1>4 DEF LogsAbove, LogsTo, LogsInOrder, LogsFrom
<1>9. EditAbove' /\ LogsFollow' /\ InputsNewest'
  BY <1>1, <1>2, <1>3, <1>8 DEF EditAbove, LogsFollow, InputsNewest
<1>10. ManifestAbove'
  <2>1. Recoverable' => Recoverable
    BY <1>1, StaysUnrecoverable DEF CountInv
  <2> QED
    BY <1>1, <1>8, <2>1 DEF ManifestAbove, Order
<1> QED
  BY <1>7, <1>9, <1>10 DEF Order

\* Every step keeps the order while no error and crash have come together.
LEMMA OrderNext ==
  ASSUME FileInv, TypedInv, CountInv, OrderInv, [Next]_vars
  PROVE  OrderInv'
<1> SUFFICES ASSUME NoErrorThenCrash' PROVE Order'
  BY DEF OrderInv
<1>1. NoErrorThenCrash
  <2>1. UsedTyped
    BY DEF TypedInv, TypeInv
  <2>2. /\ used'.fault \in Nat /\ used'.crash \in Nat /\ used.fault \in Nat /\ used.crash \in Nat
        /\ used.fault <= used'.fault /\ used.crash <= used'.crash
    BY <2>1, EventsAddUp
  <2> QED
    BY <2>2 DEF NoErrorThenCrash
<1>2. Order
  BY <1>1 DEF OrderInv
<1>3. CASE Write
  BY <1>2, <1>3, WritersKeepOrder
<1>4. CASE Background
  BY <1>2, <1>4, BackgroundKeepsEntriesInOrder
<1>5. CASE Read \/ UNCHANGED vars
  BY <1>2, <1>5, ReadersKeepOrder
<1>6. CASE Open
  <2>1. CASE OpenFails
    <3>1. ProcessDies("process") /\ manifest' = manifest
      BY <2>1 DEF OpenFails
    <3> QED
      BY <1>2, <3>1, DeathKeepsOrder
  <2> QED
    BY <1>2, <1>6, <2>1, NewDBKeepsOrder, RecoverKeepsOrder, OpenInstalledKeepsOrder DEF Open
<1>7. CASE Abort
  <2>1. ProcessDies("process") /\ manifest' = manifest
    BY <1>7 DEF Abort
  <2> QED
    BY <1>2, <2>1, DeathKeepsOrder
<1>8. ASSUME NEW kind \in {"process", "machine"}, Crash(kind) PROVE Order'
  <2>1. ProcessDies(kind) /\ (manifest' = manifest \/ manifest' = [manifest EXCEPT !.state = "corrupt"])
    BY <1>8 DEF Crash
  <2> QED
    BY <1>2, <2>1, DeathKeepsOrder
<1> QED
  BY <1>3, <1>4, <1>5, <1>6, <1>7, <1>8 DEF Next

\* A database found on disk is in order.
LEMMA OrderInit == Init => OrderInv
<1> SUFFICES ASSUME Init PROVE Order
  BY DEF OrderInv
<1>1. /\ mem = {} /\ imm = None /\ current = EmptyVersion /\ edit = None /\ compact = None /\ up = "closed"
      /\ DOMAIN logs = {}
  BY DEF Init
<1>2. Flushing = {}
  BY <1>1 DEF Flushing
<1>3. MemAbove
  BY <1>1, <1>2, EmptyVersionInOrder DEF MemAbove, AllAbove, SeqsTo
<1>4. EditAbove /\ LogsFollow /\ InputsNewest
  BY <1>1 DEF EditAbove, LogsFollow, InputsNewest
<1>5. NewestFirst(manifest.version) /\ SeqsTo(EntriesIn(manifest.version), manifest.last)
  <2>1. CASE manifest = NoManifest
    BY <2>1, EmptyVersionInOrder DEF NoManifest, SeqsTo
  <2>2. ASSUME NEW db \in InitialDatabases,
               manifest = [state |-> "whole", version |-> db.version, log |-> 0,
                           next |-> db.next, last |-> db.last]
        PROVE  NewestFirst(manifest.version) /\ SeqsTo(EntriesIn(manifest.version), manifest.last)
    <3>1. manifest.version = db.version /\ manifest.last = db.last
      BY <2>2
    <3>2. NewestFirst(db.version) /\ db.last \in Nat
      BY InitialDatabasesAssumption
    <3>3. ASSUME NEW f \in FilesOf(db.version), NEW e \in f.entries PROVE e.seq <= db.last
      <4>1. e.seq \in 0..db.last
        BY InitialDatabasesAssumption, Zenon
      <4> QED
        BY <3>2, <4>1
    <3> QED
      BY <3>1, <3>2, <3>3 DEF SeqsTo, EntriesIn, EntriesOf
  <2> QED
    BY <2>1, <2>2 DEF Init
<1>6. ManifestAbove
  BY <1>1, <1>5 DEF ManifestAbove, LogsAbove, LogsInOrder, LogsFrom
<1> QED
  BY <1>3, <1>4, <1>6 DEF Order

\* Whatever is written, flushed, compacted, moved and recovered, no older entry of
\* a key lies above a newer one, unless a process that has failed to write
\* something has ended (DBImpl::Write, BackgroundCompaction, VersionSet::LogAndApply).
THEOREM EntriesStayInOrder == Spec => []NewerEntriesAbove
<1>1. OrderInv => NewerEntriesAbove
  <2> SUFFICES ASSUME Order PROVE EntriesNeverHop
    BY DEF OrderInv, NoErrorThenCrash, NewerEntriesAbove
  <2> DEFINE F == EntriesOf(FilesOf(current))
  <2>1. /\ AllAbove(mem, Flushing \cup F) /\ AllAbove(Flushing, F) /\ NewestFirst(current)
    BY DEF Order, MemAbove, EntriesIn
  <2>2. AllNewer(mem, Flushing \cup F) /\ AllNewer(Flushing, F)
    BY <2>1, AboveIsNewer
  <2> QED
    BY <2>1, <2>2 DEF EntriesNeverHop, Flushing
<1>2. FileInv /\ TypedInv /\ CountInv /\ OrderInv /\ [Next]_vars => OrderInv'
  BY OrderNext
<1> QED
  BY <1>1, <1>2, OrderInit, CountInvAlways, PTL DEF Spec
=============================================================================
