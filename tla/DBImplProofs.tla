---------------------------- MODULE DBImplProofs ----------------------------
(***************************************************************************)
(* Theorems about DBImpl.  No wakeup of the background thread is lost; a    *)
(* file number handed out is new; no file that counts is deleted or written *)
(* over; only an error of the MANIFEST can make a database one that         *)
(* DB::Open cannot open; the variables keep their types; no flush and no    *)
(* compaction the engine chooses brings files of a level to overlap; and no *)
(* reader can tell which entries a compaction drops (InternalKey).          *)
(***************************************************************************)
EXTENDS DBImpl, WellFoundedInduction, FiniteSetTheorems, TLAPS

-----------------------------------------------------------------------------
(* Wakeups                                                                 *)

\* A compaction under way runs in a background call, which has been scheduled;
\* without this part a flush within a compaction could lose a wakeup.
CompactionIsScheduled == compact # None => scheduled

SchedInv == WorkIsScheduled /\ CompactionIsScheduled

\* Nothing is to do before the first DB::Open.
LEMMA SchedInit == Init => SchedInv
BY DEF Init, SchedInv, WorkIsScheduled, CompactionIsScheduled

\* MaybeScheduleCompaction establishes the invariant whatever went before it.
LEMMA MaybeSchedules ==
  ASSUME SchedInv, MaybeScheduleCompaction, compact' = compact
  PROVE  SchedInv'
BY DEF SchedInv, WorkIsScheduled, CompactionIsScheduled, MaybeScheduleCompaction, NeedsWork

\* So does the end of a background call.
LEMMA EndSchedules ==
  ASSUME EndBackgroundCall, compact' = None
  PROVE  SchedInv'
BY DEF SchedInv, WorkIsScheduled, CompactionIsScheduled, EndBackgroundCall, NeedsWork

\* Steps that leave alone what the invariant is about.
LEMMA Untouched ==
  ASSUME SchedInv,
         UNCHANGED <<imm, current, worn, bgError, manual, scheduled, compact, up>>
  PROVE  SchedInv'
BY DEF SchedInv, WorkIsScheduled, CompactionIsScheduled, NeedsWork

\* A process that has died has no work.
LEMMA DeadIsQuiet ==
  ASSUME NEW kind, ProcessDies(kind)
  PROVE  SchedInv'
BY DEF ProcessDies, SchedInv, WorkIsScheduled, CompactionIsScheduled

\* Writers: only the switch of the memtable makes work, and it schedules.
LEMMA WriteStep ==
  ASSUME SchedInv, Write
  PROVE  SchedInv'
<1>1. CASE \E w \in Writers : Enqueue(w)
  BY <1>1, Untouched DEF Enqueue, memVars, setVars, bgVars
<1>2. ASSUME NEW w \in Writers, BeginWrite(w) PROVE SchedInv'
  <2>1. compact' = compact /\ up' = up
    BY <1>2 DEF BeginWrite
  <2>2. CASE NoSwitch
    BY <2>1, <2>2, Untouched DEF NoSwitch, memVars
  <2>3. CASE SwitchMemTable
    BY <2>1, <2>3, MaybeSchedules DEF SwitchMemTable
  <2> QED
    BY <1>2, <2>2, <2>3 DEF BeginWrite
<1>3. ASSUME NEW w \in Writers, ForceSwitch(w) PROVE SchedInv'
  <2>1. compact' = compact /\ SwitchMemTable
    BY <1>3 DEF ForceSwitch
  <2> QED
    BY <2>1, MaybeSchedules DEF SwitchMemTable
<1>4. CASE \E w \in Writers : RefuseWrite(w)
  BY <1>4, Untouched DEF RefuseWrite, memVars, setVars, bgVars
<1>5. CASE AddRecord
  BY <1>5, Untouched DEF AddRecord, memVars, setVars, bgVars
<1>6. CASE SyncLog
  BY <1>6, Untouched DEF SyncLog, memVars, setVars, bgVars
<1>7. CASE ApplyWrite
  BY <1>7, Untouched DEF ApplyWrite, setVars, bgVars
<1>8. CASE AddRecordFails
  BY <1>8, Untouched DEF AddRecordFails, memVars, setVars, bgVars
<1>9. CASE SyncFails
  BY <1>9 DEF SyncFails, SchedInv, WorkIsScheduled, CompactionIsScheduled
<1> QED
  BY <1>1, <1>2, <1>3, <1>4, <1>5, <1>6, <1>7, <1>8, <1>9 DEF Write

\* The background thread: each call ends with a look for more work.
LEMMA BackgroundStep ==
  ASSUME SchedInv, Background
  PROVE  SchedInv'
<1>1. CASE StartFlush
  BY <1>1, Untouched DEF StartFlush, memVars, setVars
<1>2. CASE FlushBuilt
  BY <1>2, Untouched DEF FlushBuilt, memVars, setVars
<1>3. CASE BuildTableFails
  BY <1>3 DEF BuildTableFails, SchedInv, WorkIsScheduled, CompactionIsScheduled
<1>4. CASE StartTrivialMove
  BY <1>4, Untouched DEF StartTrivialMove, memVars, setVars
<1>5. CASE StartCompaction
  BY <1>5 DEF StartCompaction, BackgroundCompaction, memVars, setVars, SchedInv, WorkIsScheduled,
              CompactionIsScheduled
<1>6. CASE BackgroundCallIdle
  BY <1>6, EndSchedules DEF BackgroundCallIdle, NoBackgroundWork
<1>7. CASE WriteOutput
  BY <1>7 DEF WriteOutput, memVars, setVars, SchedInv, WorkIsScheduled, CompactionIsScheduled,
              NeedsWork
<1>8. CASE FinishCompaction
  BY <1>8, Untouched DEF FinishCompaction, memVars, setVars
<1>9. CASE OutputFails
  BY <1>9 DEF OutputFails, CleanupCompaction, SchedInv, WorkIsScheduled, CompactionIsScheduled
<1>10. CASE EditWritten
  BY <1>10, Untouched DEF EditWritten, memVars, setVars
<1>11. CASE EditFails
  BY <1>11 DEF EditFails, CleanupCompaction, SchedInv, WorkIsScheduled, CompactionIsScheduled
<1>12. CASE InstallFlush
  <2>1. compact' = compact
    BY <1>12 DEF InstallFlush
  <2>2. CASE compact = None
    BY <1>12, <2>1, <2>2, EndSchedules DEF InstallFlush
  <2>3. CASE compact # None
    BY <1>12, <2>1, <2>3 DEF InstallFlush, SchedInv, WorkIsScheduled, CompactionIsScheduled
  <2> QED
    BY <2>2, <2>3
<1>13. CASE InstallMove
  BY <1>13, EndSchedules DEF InstallMove
<1>14. CASE InstallCompaction
  BY <1>14, EndSchedules DEF InstallCompaction, CleanupCompaction
<1> QED
  BY <1>1, <1>2, <1>3, <1>4, <1>5, <1>6, <1>7, <1>8, <1>9, <1>10, <1>11, <1>12, <1>13, <1>14
     DEF Background

\* Readers: a file worn out by seeks and a manual compaction are scheduled.
LEMMA ReadStep ==
  ASSUME SchedInv, Read
  PROVE  SchedInv'
<1>1. CASE StartRead
  BY <1>1, Untouched DEF StartRead, memVars, setVars, bgVars
<1>2. CASE EndRead
  <2>1. compact' = compact /\ up' = up
    BY <1>2 DEF EndRead
  <2>2. CASE UNCHANGED <<imm, current, worn, bgError, manual, scheduled>>
    BY <2>1, <2>2, Untouched
  <2>3. CASE MaybeScheduleCompaction
    BY <2>1, <2>3, MaybeSchedules
  <2> QED
    BY <1>2, <2>2, <2>3 DEF EndRead
<1>3. CASE GetSnapshot
  BY <1>3, Untouched DEF GetSnapshot, memVars, setVars, bgVars
<1>4. CASE ReleaseSnapshot
  BY <1>4, Untouched DEF ReleaseSnapshot, memVars, setVars, bgVars
<1>5. CASE \E l \in Levels : RequestCompactRange(l)
  BY <1>5, MaybeSchedules DEF RequestCompactRange
<1> QED
  BY <1>1, <1>2, <1>3, <1>4, <1>5 DEF Read

\* DB::Open schedules what it finds to do.
LEMMA OpenStep ==
  ASSUME SchedInv, Open
  PROVE  SchedInv'
<1>1. CASE NewDB
  BY <1>1, Untouched DEF NewDB, memVars, setVars, bgVars
<1>2. CASE Recover
  BY <1>2 DEF Recover, SchedInv, WorkIsScheduled, CompactionIsScheduled
<1>3. CASE OpenInstalled
  BY <1>3, MaybeSchedules DEF OpenInstalled
<1>4. CASE OpenFails
  BY <1>4, DeadIsQuiet DEF OpenFails
<1> QED
  BY <1>1, <1>2, <1>3, <1>4 DEF Open

\* Every step keeps the wakeups.
LEMMA SchedNext ==
  ASSUME SchedInv, [Next]_vars
  PROVE  SchedInv'
<1>1. CASE Abort
  BY <1>1, DeadIsQuiet DEF Abort
<1>2. CASE \E kind \in {"process", "machine"} : Crash(kind)
  BY <1>2, DeadIsQuiet DEF Crash
<1>3. CASE UNCHANGED vars
  BY <1>3, Untouched DEF vars, memVars, setVars, bgVars
<1> QED
  BY <1>1, <1>2, <1>3, WriteStep, BackgroundStep, ReadStep, OpenStep DEF Next

\* While there is work for the background thread, it has been scheduled or an
\* error has stopped it, for any number of writers and any sizes and triggers.
THEOREM WorkIsAlwaysScheduled == Spec => []WorkIsScheduled
<1>1. SchedInv => WorkIsScheduled
  BY DEF SchedInv
<1> QED
  BY <1>1, SchedInit, SchedNext, PTL DEF Spec

-----------------------------------------------------------------------------
(* Induction                                                               *)

\* What holds at 0 and is passed on from one number to the next holds up to N:
\* else there were a least counterexample.
LEMMA UpTo ==
  ASSUME NEW N \in Nat, NEW P, 0 \in P, \A i \in 1..N : i - 1 \in P => i \in P
  PROVE  0..N \subseteq P
<1> DEFINE T == (0..N) \ P
<1>1. SUFFICES ASSUME T # {} PROVE FALSE
  OBVIOUS
<1>2. T \subseteq Nat
  OBVIOUS
<1>3. PICK m \in T : \A k \in T : ~(<<k, m>> \in OpToRel(<, Nat))
  BY <1>1, <1>2, WFMin, NatLessThanWellFounded
<1>4. \A k \in T : ~(k < m)
  BY <1>2, <1>3 DEF OpToRel
<1>5. m \in 1..N /\ m \notin P
  OBVIOUS
<1>6. m - 1 \in 0..N /\ m - 1 < m
  BY <1>5
<1>7. m - 1 \in P
  BY <1>4, <1>6
<1> QED
  BY <1>5, <1>7

\* A non-empty set of numbers below a bound has a greatest.
LEMMA Greatest ==
  ASSUME NEW b \in Nat, NEW S \in SUBSET (0..b), S # {}
  PROVE  Max2(S) \in S /\ \A k \in S : k <= Max2(S)
<1> DEFINE T == {b - k : k \in S}
<1>1. T \subseteq Nat /\ T # {}
  <2>1. \A k \in S : k \in 0..b /\ b - k \in Nat
    OBVIOUS
  <2> QED
    BY <2>1
<1>2. PICK m \in T : \A k \in T : ~(<<k, m>> \in OpToRel(<, Nat))
  BY <1>1, WFMin, NatLessThanWellFounded
<1>3. \A k \in T : ~(k < m)
  BY <1>1, <1>2 DEF OpToRel
<1>4. PICK j \in S : m = b - j
  OBVIOUS
<1>5. ASSUME NEW k \in S PROVE k <= j
  <2>1. b - k \in T
    OBVIOUS
  <2>2. ~(b - k < b - j)
    BY <1>3, <1>4, <2>1
  <2> QED
    BY <2>2
<1>6. \E x \in S : \A k \in S : k <= x
  BY <1>5
<1> QED
  BY <1>6 DEF Max2

-----------------------------------------------------------------------------
(* Recursive functions exist                                               *)

\* That of MemTablesOf.
LEMMA MemTablesExist ==
  ASSUME NEW records, NEW M \in Nat
  PROVE  \E f : f = [i \in 0..M |-> IF i = 0 THEN [full |-> <<>>, mem |-> {}]
                                    ELSE InsertRecord(f[i - 1], records[i])]
<1> DEFINE D(a, i) == InsertRecord(a, records[i])
           b == [full |-> <<>>, mem |-> {}]
           R(f, N) == f = [i \in 0..N |-> IF i = 0 THEN b ELSE D(f[i - 1], i)]
           P == {N \in 0..M : \E f : R(f, N)}
<1> HIDE DEF D, b
<1>1. 0 \in P
  <2> DEFINE g == [i \in 0..0 |-> b]
  <2>1. R(g, 0)
    OBVIOUS
  <2>2. \E f : R(f, 0)
    <3> HIDE DEF g, R
    <3> QED
      BY <2>1
  <2> QED
    BY <2>2
<1>2. ASSUME NEW N \in 1..M, N - 1 \in P PROVE N \in P
  <2>1. PICK f : R(f, N - 1)
    BY <1>2
  <2> DEFINE g == [i \in 0..N |-> IF i = N THEN D(f[N - 1], N) ELSE f[i]]
  <2>2. \A i \in 0..N : i # 0 => g[i - 1] = f[i - 1]
    OBVIOUS
  <2>3. \A i \in 0..(N - 1) : f[i] = IF i = 0 THEN b ELSE D(f[i - 1], i)
    BY <2>1
  <2>4. \A i \in 0..N : g[i] = IF i = 0 THEN b ELSE D(g[i - 1], i)
    BY <2>2, <2>3
  <2>5. R(g, N)
    <3>1. g = [i \in 0..N |-> g[i]]
      OBVIOUS
    <3> HIDE DEF g
    <3> QED
      BY <2>4, <3>1
  <2>6. \E h : R(h, N)
    <3> HIDE DEF g, R
    <3> QED
      BY <2>5
  <2> QED
    BY <2>6
<1>3. M \in P
  <2> HIDE DEF P
  <2>1. M \in 0..M
    OBVIOUS
  <2> QED
    BY <1>1, <1>2, <2>1, UpTo
<1>4. PICK f : R(f, M)
  BY <1>3
<1> QED
  BY <1>4 DEF D, b

\* That of Recovered.
LEMMA RecoveredExists ==
  ASSUME NEW M \in Nat
  PROVE  \E f : f = [n \in 0..M |-> RecoverUpTo(IF n = 0 THEN [files |-> {}, next |-> manifest.next + 1]
                                                ELSE f[n - 1], n)]
<1> DEFINE D(a, i) == RecoverUpTo(a, i)
           b == [files |-> {}, next |-> manifest.next + 1]
           R(f, N) == f = [i \in 0..N |-> D(IF i = 0 THEN b ELSE f[i - 1], i)]
           P == {N \in 0..M : \E f : R(f, N)}
<1> HIDE DEF D, b
<1>1. 0 \in P
  <2> DEFINE g == [i \in 0..0 |-> D(b, 0)]
  <2>1. R(g, 0)
    OBVIOUS
  <2>2. \E f : R(f, 0)
    <3> HIDE DEF g, R
    <3> QED
      BY <2>1
  <2> QED
    BY <2>2
<1>2. ASSUME NEW N \in 1..M, N - 1 \in P PROVE N \in P
  <2>1. PICK f : R(f, N - 1)
    BY <1>2
  <2> DEFINE g == [i \in 0..N |-> IF i = N THEN D(f[N - 1], N) ELSE f[i]]
  <2>2. \A i \in 0..N : i # 0 => g[i - 1] = f[i - 1]
    OBVIOUS
  <2>3. \A i \in 0..(N - 1) : f[i] = D(IF i = 0 THEN b ELSE f[i - 1], i)
    BY <2>1
  <2>4. \A i \in 0..N : g[i] = D(IF i = 0 THEN b ELSE g[i - 1], i)
    BY <2>2, <2>3
  <2>5. R(g, N)
    <3>1. g = [i \in 0..N |-> g[i]]
      OBVIOUS
    <3> HIDE DEF g
    <3> QED
      BY <2>4, <3>1
  <2>6. \E h : R(h, N)
    <3> HIDE DEF g, R
    <3> QED
      BY <2>5
  <2> QED
    BY <2>6
<1>3. M \in P
  <2> HIDE DEF P
  <2>1. M \in 0..M
    OBVIOUS
  <2> QED
    BY <1>1, <1>2, <2>1, UpTo
<1>4. PICK f : R(f, M)
  BY <1>3
<1> QED
  BY <1>4 DEF D, b

-----------------------------------------------------------------------------
(* What they compute                                                       *)

\* The elements at some places of a sequence, collected place by place.
LEMMA PlaceByPlace ==
  ASSUME NEW S, NEW s \in Seq(S), NEW places
  PROVE  \E c : /\ AtPlaces(s, places) = c[Len(s)]
                /\ c[0] = <<>>
                /\ \A i \in 1..Len(s) : c[i] = KeepAt(c[i - 1], s, i, places)
<1> DEFINE n == Len(s)
           F(f) == f = [i \in 0..n |-> IF i = 0 THEN <<>>
                          ELSE KeepAt(f[i - 1], s, i, places)]
           c == CHOOSE f : F(f)
<1>1. n \in Nat
  OBVIOUS
<1>2. AtPlaces(s, places) = c[n]
  BY DEF AtPlaces
<1> HIDE DEF n
<1>3. \E f : F(f)
  <2> DEFINE D(a, i) == KeepAt(a, s, i, places)
             b == <<>>
             R(f, N) == f = [i \in 0..N |-> IF i = 0 THEN b ELSE D(f[i - 1], i)]
             Q == {N \in 0..n : \E f : R(f, N)}
  <2> HIDE DEF D, b
  <2>1. 0 \in Q
    <3> DEFINE g == [i \in 0..0 |-> b]
    <3>1. R(g, 0)
      OBVIOUS
    <3>2. \E f : R(f, 0)
      <4> HIDE DEF g, R
      <4> QED
        BY <3>1
    <3> QED
      BY <1>1, <3>2
  <2>2. ASSUME NEW N \in 1..n, N - 1 \in Q PROVE N \in Q
    <3>1. PICK f : R(f, N - 1)
      BY <2>2
    <3> DEFINE g == [i \in 0..N |-> IF i = N THEN D(f[N - 1], N) ELSE f[i]]
    <3>2. \A i \in 0..N : i # 0 => g[i - 1] = f[i - 1]
      OBVIOUS
    <3>3. \A i \in 0..(N - 1) : f[i] = IF i = 0 THEN b ELSE D(f[i - 1], i)
      BY <3>1
    <3>4. \A i \in 0..N : g[i] = IF i = 0 THEN b ELSE D(g[i - 1], i)
      BY <3>2, <3>3
    <3>5. R(g, N)
      <4>1. g = [i \in 0..N |-> g[i]]
        OBVIOUS
      <4> HIDE DEF g
      <4> QED
        BY <3>4, <4>1
    <3>6. \E h : R(h, N)
      <4> HIDE DEF g, R
      <4> QED
        BY <3>5
    <3> QED
      BY <3>6
  <2>3. n \in Q
    <3> HIDE DEF Q
    <3>1. 0..n \subseteq Q
      BY <1>1, <2>1, <2>2, UpTo
    <3> QED
      BY <1>1, <3>1
  <2>4. PICK f : R(f, n)
    BY <2>3
  <2> QED
    BY <2>4 DEF D, b
<1>4. F(c)
  <2> HIDE DEF F
  <2> QED
    BY <1>3
<1> HIDE DEF c
<1>5. c[0] = <<>>
  BY <1>1, <1>4
<1>6. ASSUME NEW i \in 1..n PROVE c[i] = KeepAt(c[i - 1], s, i, places)
  <2>1. i \in 0..n /\ i # 0
    BY <1>1
  <2> QED
    BY <1>4, <2>1
<1> HIDE DEF F
<1> QED
  BY <1>2, <1>5, <1>6 DEF n

\* They are a sequence again.
LEMMA AtPlacesInSeq ==
  ASSUME NEW S, NEW s \in Seq(S), NEW places
  PROVE  AtPlaces(s, places) \in Seq(S)
<1>1. PICK c : /\ AtPlaces(s, places) = c[Len(s)]
               /\ c[0] = <<>>
               /\ \A i \in 1..Len(s) : c[i] = KeepAt(c[i - 1], s, i, places)
  BY PlaceByPlace
<1> DEFINE n == Len(s)
           P == {i \in 0..n : c[i] \in Seq(S)}
<1>2. n \in Nat /\ \A i \in 1..n : s[i] \in S
  OBVIOUS
<1>3. \A i \in 1..n : c[i] = KeepAt(c[i - 1], s, i, places)
  BY <1>1
<1> HIDE DEF n
<1>4. 0 \in P
  <2>1. 0 \in 0..n
    BY <1>2
  <2>2. <<>> \in Seq(S)
    OBVIOUS
  <2> QED
    BY <1>1, <2>1, <2>2
<1>5. ASSUME NEW i \in 1..n, i - 1 \in P PROVE i \in P
  <2>1. c[i - 1] \in Seq(S) /\ s[i] \in S
    BY <1>2, <1>5
  <2>2. Append(c[i - 1], s[i]) \in Seq(S)
    BY <2>1
  <2>3. c[i] \in Seq(S)
    BY <1>3, <2>1, <2>2 DEF KeepAt
  <2> QED
    BY <1>2, <2>3
<1>6. n \in P
  <2>1. 0..n \subseteq P
    <3> HIDE DEF P
    <3> QED
      BY <1>2, <1>4, <1>5, UpTo
  <2> QED
    BY <1>2, <2>1
<1> QED
  BY <1>1, <1>6 DEF n

\* More places, more elements.
LEMMA MorePlaces ==
  ASSUME NEW S, NEW s \in Seq(S), NEW Q, NEW R \in SUBSET Q
  PROVE  Len(AtPlaces(s, R)) <= Len(AtPlaces(s, Q))
<1>1. PICK c : /\ AtPlaces(s, R) = c[Len(s)]
               /\ c[0] = <<>>
               /\ \A i \in 1..Len(s) : c[i] = KeepAt(c[i - 1], s, i, R)
  BY PlaceByPlace
<1>2. PICK d : /\ AtPlaces(s, Q) = d[Len(s)]
               /\ d[0] = <<>>
               /\ \A i \in 1..Len(s) : d[i] = KeepAt(d[i - 1], s, i, Q)
  BY PlaceByPlace
<1> DEFINE n == Len(s)
           P == {i \in 0..n : c[i] \in Seq(S) /\ d[i] \in Seq(S) /\ Len(c[i]) <= Len(d[i])}
<1>3. n \in Nat /\ \A i \in 1..n : s[i] \in S
  OBVIOUS
<1>4. \A i \in 1..n : c[i] = KeepAt(c[i - 1], s, i, R) /\ d[i] = KeepAt(d[i - 1], s, i, Q)
  BY <1>1, <1>2
<1> HIDE DEF n
<1>5. 0 \in P
  <2>1. 0 \in 0..n
    BY <1>3
  <2>2. <<>> \in Seq(S) /\ Len(<<>>) <= Len(<<>>)
    OBVIOUS
  <2> QED
    BY <1>1, <1>2, <2>1, <2>2
<1>6. ASSUME NEW i \in 1..n, i - 1 \in P PROVE i \in P
  <2> DEFINE a == c[i - 1]
             b == d[i - 1]
             x == s[i]
  <2>1. a \in Seq(S) /\ b \in Seq(S) /\ Len(a) <= Len(b) /\ x \in S
    BY <1>3, <1>6
  <2>2. /\ c[i] = IF i \in R THEN Append(a, x) ELSE a
        /\ d[i] = IF i \in Q THEN Append(b, x) ELSE b
    BY <1>4 DEF KeepAt
  <2> HIDE DEF a, b, x
  <2>3. /\ Append(a, x) \in Seq(S) /\ Append(b, x) \in Seq(S)
        /\ Len(Append(a, x)) = Len(a) + 1 /\ Len(Append(b, x)) = Len(b) + 1
        /\ Len(a) \in Nat /\ Len(b) \in Nat
    BY <2>1
  <2>4. c[i] \in Seq(S) /\ d[i] \in Seq(S)
    BY <2>1, <2>2, <2>3
  <2>5. Len(c[i]) <= Len(d[i])
    BY <2>1, <2>2, <2>3
  <2>6. i \in 0..n
    BY <1>3
  <2> QED
    BY <2>4, <2>5, <2>6
<1>7. n \in P
  <2>1. 0..n \subseteq P
    <3> HIDE DEF P
    <3> QED
      BY <1>3, <1>5, <1>6, UpTo
  <2> QED
    BY <1>3, <2>1
<1> QED
  BY <1>1, <1>2, <1>7 DEF n

\* An empty sequence has none.
LEMMA AtPlacesOfEmpty ==
  ASSUME NEW places
  PROVE  AtPlaces(<<>>, places) = <<>>
<1>1. <<>> \in Seq({})
  OBVIOUS
<1>2. AtPlaces(<<>>, places) \in Seq({})
  BY <1>1, AtPlacesInSeq
<1> QED
  BY <1>2

\* A log yields a sequence of memtables, none of them empty: sets of the kind T
\* that its records add to.
LEMMA MemTablesInSeq ==
  ASSUME NEW S, NEW records \in Seq(S), NEW T, {} \in T,
         \A m \in T, r \in S : m \cup EntriesOfRecord(r) \in T
  PROVE  MemTablesOf(records) \in Seq(T \ {{}})
<1> DEFINE n == Len(records)
           F(f) == f = [i \in 0..n |-> IF i = 0 THEN [full |-> <<>>, mem |-> {}]
                                      ELSE InsertRecord(f[i - 1], records[i])]
           c == CHOOSE f : F(f)
           U == T \ {{}}
           P == {i \in 0..n : c[i].full \in Seq(U) /\ c[i].mem \in T}
<1>1. n \in Nat /\ \A i \in 1..n : records[i] \in S
  OBVIOUS
<1>2. MemTablesOf(records) = IF c[n].mem = {} THEN c[n].full ELSE Append(c[n].full, c[n].mem)
  BY DEF MemTablesOf
<1> HIDE DEF n
<1>3. \E f : F(f)
  BY <1>1, MemTablesExist
<1>4. F(c)
  <2> HIDE DEF F
  <2> QED
    BY <1>3
<1> HIDE DEF c
<1>5. c[0] = [full |-> <<>>, mem |-> {}]
  BY <1>1, <1>4
<1>6. ASSUME NEW i \in 1..n PROVE c[i] = InsertRecord(c[i - 1], records[i])
  <2>1. i \in 0..n /\ i # 0
    BY <1>1
  <2> QED
    BY <1>4, <2>1
<1> HIDE DEF F
<1>7. 0 \in P
  <2>1. 0 \in 0..n
    BY <1>1
  <2>2. <<>> \in Seq(U)
    <3> HIDE DEF U
    <3> QED
      OBVIOUS
  <2>3. c[0].full = <<>> /\ c[0].mem = {}
    BY <1>5
  <2> HIDE DEF U
  <2> QED
    BY <2>1, <2>2, <2>3
<1>8. ASSUME NEW i \in 1..n, i - 1 \in P PROVE i \in P
  <2> DEFINE m == c[i - 1].mem \cup EntriesOfRecord(records[i])
  <2>1. c[i - 1].full \in Seq(U) /\ c[i - 1].mem \in T
    BY <1>8
  <2>2. m \in T
    BY <1>1, <2>1
  <2>3. c[i] = IF Cardinality(m) > WriteBufferSize
               THEN [full |-> Append(c[i - 1].full, m), mem |-> {}]
               ELSE [full |-> c[i - 1].full, mem |-> m]
    BY <1>6 DEF InsertRecord
  <2>4. Cardinality(m) > WriteBufferSize => m # {}
    <3>1. WriteBufferSize \in Nat
      BY DBImplAssumption
    <3> HIDE DEF m
    <3>2. m = {} => Cardinality(m) = 0
      BY FS_EmptySet, Zenon
    <3> QED
      BY <3>1, <3>2
  <2> HIDE DEF m
  <2>5. Cardinality(m) > WriteBufferSize => Append(c[i - 1].full, m) \in Seq(U)
    <3>1. Cardinality(m) > WriteBufferSize => m \in U
      BY <2>2, <2>4
    <3> HIDE DEF U
    <3> QED
      BY <2>1, <3>1
  <2>6. c[i].full \in Seq(U) /\ c[i].mem \in T
    <3> HIDE DEF U
    <3> QED
      BY <2>1, <2>2, <2>3, <2>5
  <2> QED
    BY <1>1, <2>6
<1>9. n \in P
  <2>1. 0..n \subseteq P
    <3> HIDE DEF P
    <3> QED
      BY <1>1, <1>7, <1>8, UpTo
  <2> QED
    BY <1>1, <2>1
<1>10. c[n].full \in Seq(U) /\ (c[n].mem # {} => c[n].mem \in U)
  BY <1>9
<1> HIDE DEF U
<1>11. c[n].mem # {} => Append(c[n].full, c[n].mem) \in Seq(U)
  BY <1>10
<1>12. MemTablesOf(records) \in Seq(U)
  BY <1>2, <1>10, <1>11
<1> QED
  BY <1>12 DEF U

LogsTyped == \E S : logs \in [DOMAIN logs -> [records : Seq(S), synced : Nat]]

LogsBounded == \E b \in Nat : DOMAIN logs \subseteq 0..b

\* No log has a greater number than LastLog.
LEMMA LastLogIsLast ==
  ASSUME LogsBounded
  PROVE  LastLog \in Nat /\ DOMAIN logs \subseteq 0..LastLog
<1>1. PICK b \in Nat : DOMAIN logs \subseteq 0..b
  BY DEF LogsBounded
<1> DEFINE S == {0} \cup DOMAIN logs
<1>2. S \in SUBSET (0..b) /\ S # {}
  BY <1>1
<1>3. Max2(S) \in S /\ \A k \in S : k <= Max2(S)
  BY <1>2, Greatest
<1>4. LastLog = Max2(S)
  BY DEF LastLog
<1> QED
  BY <1>2, <1>3, <1>4

\* A recovery numbers its tables upwards from the MANIFEST's counter, and leaves
\* the counter behind every table and every log it has read.
LEMMA RecoveryCounts ==
  ASSUME LogsTyped, LogsBounded, manifest.next \in Nat
  PROVE  /\ Recovered.next \in Nat /\ manifest.next < Recovered.next
         /\ \A n \in DOMAIN logs : n >= manifest.log => n < Recovered.next
         /\ \A f \in Recovered.files :
              f.number \in Nat /\ manifest.next < f.number /\ f.number < Recovered.next
         /\ IsFiniteSet(Recovered.files)
<1> DEFINE F(f) == f = [n \in 0..LastLog |->
                          RecoverUpTo(IF n = 0 THEN [files |-> {}, next |-> manifest.next + 1]
                                      ELSE f[n - 1], n)]
           c == CHOOSE f : F(f)
           Good(acc) == /\ acc.next \in Nat /\ manifest.next < acc.next
                        /\ \A f \in acc.files :
                             f.number \in Nat /\ manifest.next < f.number /\ f.number < acc.next
                        /\ IsFiniteSet(acc.files)
           Ahead(acc, n) == \A k \in DOMAIN logs : k <= n /\ k >= manifest.log => k < acc.next
           P == {n \in 0..LastLog : Good(c[n]) /\ Ahead(c[n], n)}
<1>1. LastLog \in Nat /\ DOMAIN logs \subseteq 0..LastLog
  BY LastLogIsLast
<1>2. Recovered = c[LastLog]
  BY DEF Recovered
<1>3. \E f : F(f)
  BY <1>1, RecoveredExists
<1>4. F(c)
  <2> HIDE DEF F
  <2> QED
    BY <1>3
<1> HIDE DEF c
<1>5. ASSUME NEW acc, Good(acc), NEW n \in 0..LastLog
      PROVE  /\ Good(RecoverUpTo(acc, n))
             /\ acc.next <= RecoverUpTo(acc, n).next
             /\ n \in DOMAIN logs /\ n >= manifest.log => n < RecoverUpTo(acc, n).next
  <2> DEFINE ms == MemTablesOf(logs[n].records)
             w == WithTables(acc, ms)
             r == RecoverLogFile(acc, n)
  <2>1. CASE ~(n \in DOMAIN logs /\ n >= manifest.log)
    <3>1. RecoverUpTo(acc, n) = acc
      BY <2>1 DEF RecoverUpTo
    <3> QED
      BY <1>5, <2>1, <3>1
  <2>2. CASE n \in DOMAIN logs /\ n >= manifest.log
    <3>1. RecoverUpTo(acc, n) = r
      BY <2>2 DEF RecoverUpTo
    <3>2. PICK S : logs[n].records \in Seq(S)
      BY <2>2 DEF LogsTyped
    <3>3. PICK T : ms \in Seq(T)
      <4> DEFINE E == UNION {EntriesOfRecord(x) : x \in S}
                 U == SUBSET E
      <4>1. \A x \in S : EntriesOfRecord(x) \subseteq E
        OBVIOUS
      <4> HIDE DEF E
      <4>2. ms \in Seq(U \ {{}})
        BY <3>2, <4>1, MemTablesInSeq
      <4> QED
        BY <4>2
    <3>4. Len(ms) \in Nat /\ DOMAIN ms = 1..Len(ms)
      BY <3>3
    <3>5. /\ w.next = acc.next + Len(ms)
          /\ w.files = acc.files \cup {File(acc.next + i - 1, ms[i]) : i \in DOMAIN ms}
      BY DEF WithTables
    <3> HIDE DEF ms
    <3>6. /\ r.files = w.files
          /\ r.next = IF w.next <= n THEN n + 1 ELSE w.next
      BY DEF RecoverLogFile, WithTables, ms
    <3> HIDE DEF w, r
    <3>7. acc.next \in Nat /\ manifest.next < acc.next /\ n \in Nat
      BY <1>5
    <3>8. r.next \in Nat /\ w.next <= r.next /\ acc.next <= w.next /\ n < r.next /\ w.next \in Nat
      BY <3>4, <3>5, <3>6, <3>7
    <3>9. ASSUME NEW f \in r.files
          PROVE  f.number \in Nat /\ manifest.next < f.number /\ f.number < r.next
      <4>1. CASE f \in acc.files
        BY <1>5, <3>7, <3>8, <4>1
      <4>2. ASSUME NEW i \in 1..Len(ms), f = File(acc.next + i - 1, ms[i])
            PROVE  f.number \in Nat /\ manifest.next < f.number /\ f.number < r.next
        <5>1. f.number = acc.next + i - 1
          BY <4>2 DEF File
        <5> QED
          BY <3>4, <3>5, <3>7, <3>8, <5>1
      <4> QED
        BY <3>4, <3>5, <3>6, <4>1, <4>2
    <3>10. IsFiniteSet(r.files)
      <4> DEFINE new(i) == File(acc.next + i - 1, ms[i])
                 N == {new(i) : i \in 1..Len(ms)}
                 g == [i \in 1..Len(ms) |-> new(i)]
      <4>1. g \in Surjection(1..Len(ms), N)
        <5> HIDE DEF new
        <5> QED
          BY DEF Surjection
      <4>2. IsFiniteSet(1..Len(ms))
        BY <3>4, FS_Interval
      <4>3. IsFiniteSet(N)
        <5> HIDE DEF N, g
        <5> QED
          BY <4>1, <4>2, FS_Surjection
      <4>4. r.files = acc.files \cup N
        BY <3>4, <3>5, <3>6
      <4> HIDE DEF N
      <4> QED
        BY <1>5, <4>3, <4>4, FS_Union
    <3> QED
      BY <3>1, <3>7, <3>8, <3>9, <3>10
  <2> QED
    BY <2>1, <2>2
<1>6. 0 \in P
  <2> DEFINE b == [files |-> {}, next |-> manifest.next + 1]
  <2>1. 0 \in 0..LastLog
    BY <1>1
  <2>2. c[0] = RecoverUpTo(b, 0)
    BY <1>4, <2>1
  <2>3. Good(b)
    BY FS_EmptySet
  <2>4. Good(c[0]) /\ (0 \in DOMAIN logs /\ 0 >= manifest.log => 0 < c[0].next)
    <3> HIDE DEF b, Good
    <3> QED
      BY <1>5, <2>1, <2>2, <2>3
  <2>5. Ahead(c[0], 0)
    BY <1>1, <2>4
  <2> QED
    BY <2>1, <2>4, <2>5
<1>7. ASSUME NEW n \in 1..LastLog, n - 1 \in P PROVE n \in P
  <2>1. n \in 0..LastLog /\ n # 0
    BY <1>1
  <2>2. c[n] = RecoverUpTo(c[n - 1], n)
    BY <1>4, <2>1
  <2>3. Good(c[n - 1]) /\ Ahead(c[n - 1], n - 1)
    BY <1>7
  <2>4. /\ Good(c[n])
        /\ c[n - 1].next <= c[n].next
        /\ n \in DOMAIN logs /\ n >= manifest.log => n < c[n].next
    <3> HIDE DEF Good, Ahead
    <3> QED
      BY <1>5, <2>1, <2>2, <2>3
  <2>5. Ahead(c[n], n)
    <3>1. SUFFICES ASSUME NEW k \in DOMAIN logs, k <= n, k >= manifest.log PROVE k < c[n].next
      OBVIOUS
    <3>2. k \in Nat /\ c[n].next \in Nat /\ c[n - 1].next \in Nat
      BY <1>1, <2>3, <2>4
    <3>3. CASE k = n
      BY <2>4, <3>1, <3>3
    <3>4. CASE k # n
      <4>1. k <= n - 1
        BY <1>1, <3>1, <3>2, <3>4
      <4>2. k < c[n - 1].next
        BY <2>3, <3>1, <4>1
      <4> QED
        BY <2>4, <3>2, <4>2
    <3> QED
      BY <3>3, <3>4
  <2> QED
    BY <2>1, <2>4, <2>5
<1> HIDE DEF F
<1>8. LastLog \in P
  <2>1. 0..LastLog \subseteq P
    <3> HIDE DEF P
    <3> QED
      BY <1>1, <1>6, <1>7, UpTo
  <2> QED
    BY <1>1, <2>1
<1>9. Good(Recovered) /\ Ahead(Recovered, LastLog)
  <2> HIDE DEF Good, Ahead
  <2> QED
    BY <1>2, <1>8
<1> QED
  BY <1>1, <1>9

-----------------------------------------------------------------------------
(* The invariant of the files                                              *)

Outputs == IF compact = None THEN {} ELSE compact.outputs

Added == IF edit = None THEN {} ELSE {p[2] : p \in edit.added}

\* The files that must be there: those of live versions, those about to become
\* live and those the next DB::Open will look for.
HeldFiles == LiveFiles(current, reader, compact) \cup Outputs \cup Added \cup FilesOf(manifest.version)

Below(F, n) == \A f \in F : f.number \in Nat /\ f.number < n

Shapes ==
  /\ DOMAIN manifest = {"state", "version", "log", "next", "last"}
  /\ compact # None => DOMAIN compact = {"level", "in0", "in1", "version", "todo", "outputs", "manual"}

\* A process that has not opened the database does nothing with it.
Quiet ==
  /\ up \in {"closed", "recovering", "open"}
  /\ up # "open" => /\ reader = None /\ compact = None /\ flush = None /\ group = None
                    /\ pendingOutputs = {} /\ worn = {} /\ ~bgError
  /\ up = "closed" => edit = None /\ current = EmptyVersion
  /\ edit = None => ~durable

ManifestCounts ==
  /\ manifest.next \in Nat /\ manifest.log \in Nat /\ manifest.log <= manifest.next
  /\ Below(FilesOf(manifest.version), manifest.next)
  /\ up # "closed" => manifest.next <= nextFileNumber

EditCounts ==
  edit # None =>
    /\ edit.next \in Nat /\ edit.log \in Nat /\ edit.log <= edit.next
    /\ manifest.next <= edit.next /\ edit.next <= nextFileNumber
    /\ Below(Added, edit.next)

\* The counter is ahead of every number in use.
CountsAreAhead ==
  up # "closed" =>
    /\ nextFileNumber \in Nat
    /\ logNumber \in Nat /\ logNumber <= nextFileNumber
    /\ logfileNumber \in Nat /\ logfileNumber <= nextFileNumber
    /\ Below(HeldFiles, nextFileNumber)
    /\ \A n \in pendingOutputs \cup DOMAIN logs : n \in Nat /\ n < nextFileNumber
    /\ flush # None => flush \in Nat /\ flush < nextFileNumber

OutputsPending == Numbers(Outputs) \subseteq pendingOutputs

\* A table being built writes over no file that counts.
FlushIsNew == flush # None /\ edit = None => flush \notin Numbers(HeldFiles)

HeldFilesExist == HeldFiles \subseteq tables

\* While no write of the MANIFEST has failed it says what the current version is,
\* or will be once the edit under way is installed; after a failure the
\* background thread at most finishes its compaction.
Synced ==
  IF durable
  THEN manifest.version = ApplyEdit(current, edit) /\ manifest.state = "whole"
  ELSE manifest.version = current /\ (up = "open" => manifest.state = "whole")

ManifestIsCurrent ==
  up # "closed" => Synced \/ (bgError /\ (compact # None \/ NoBackgroundWork))

WornIsCurrent == \A w \in worn : w[1] \in Levels /\ w[2] \in FilesOf(current)

FileInv ==
  /\ Shapes /\ Quiet /\ LogsTyped /\ LogsBounded
  /\ ManifestCounts /\ EditCounts /\ CountsAreAhead
  /\ OutputsPending /\ FlushIsNew /\ HeldFilesExist /\ ManifestIsCurrent /\ WornIsCurrent

\* A version edit brings in no files but those it adds.
LEMMA ApplyEditFiles ==
  ASSUME NEW v, NEW e
  PROVE  FilesOf(ApplyEdit(v, e)) \subseteq FilesOf(v) \cup {p[2] : p \in e.added}
<1>1. ASSUME NEW l \in Levels
      PROVE  ApplyEdit(v, e)[l] \subseteq v[l] \cup {p[2] : p \in e.added}
  BY DEF ApplyEdit
<1> QED
  BY <1>1 DEF FilesOf

\* A new log file.
LEMMA LogCreated ==
  ASSUME LogsTyped, LogsBounded, NEW n \in Nat, logs' = WithLog(n)
  PROVE  LogsTyped' /\ LogsBounded' /\ DOMAIN logs' = DOMAIN logs \cup {n}
<1>1. PICK S : logs \in [DOMAIN logs -> [records : Seq(S), synced : Nat]]
  BY DEF LogsTyped
<1>2. DOMAIN logs' = DOMAIN logs \cup {n}
  BY DEF WithLog
<1>3. EmptyLog \in [records : Seq(S), synced : Nat]
  BY DEF EmptyLog
<1>4. logs' \in [DOMAIN logs' -> [records : Seq(S), synced : Nat]]
  BY <1>1, <1>2, <1>3 DEF WithLog
<1>5. PICK b \in Nat : DOMAIN logs \subseteq 0..b
  BY DEF LogsBounded
<1>6. DOMAIN logs' \subseteq 0..(b + n)
  BY <1>2, <1>5
<1>7. LogsBounded'
  BY <1>6 DEF LogsBounded
<1>8. LogsTyped'
  BY <1>4 DEF LogsTyped
<1> QED
  BY <1>2, <1>7, <1>8

\* A record more in a log file.
LEMMA RecordAppended ==
  ASSUME LogsTyped, LogsBounded, NEW n, NEW r,
         logs' = [logs EXCEPT ![n].records = Append(@, r)]
  PROVE  LogsTyped' /\ LogsBounded' /\ DOMAIN logs' = DOMAIN logs
<1>1. PICK S : logs \in [DOMAIN logs -> [records : Seq(S), synced : Nat]]
  BY DEF LogsTyped
<1>2. DOMAIN logs' = DOMAIN logs
  OBVIOUS
<1> DEFINE R == [records : Seq(S \cup {r}), synced : Nat]
<1>3. ASSUME NEW k \in DOMAIN logs PROVE logs'[k] \in R
  <2>1. logs[k] \in [records : Seq(S), synced : Nat]
    BY <1>1
  <2>2. logs[k].records \in Seq(S \cup {r}) /\ logs[k].synced \in Nat
    BY <2>1
  <2>3. Append(logs[k].records, r) \in Seq(S \cup {r})
    BY <2>2
  <2>4. logs[k] = [records |-> logs[k].records, synced |-> logs[k].synced]
    BY <2>1
  <2>5. CASE k = n
    <3>1. logs'[k] = [records |-> Append(logs[k].records, r), synced |-> logs[k].synced]
      BY <2>4, <2>5
    <3> QED
      BY <2>2, <2>3, <3>1
  <2>6. CASE k # n
    <3>1. logs'[k] = logs[k]
      BY <2>6
    <3> QED
      BY <2>2, <2>4, <3>1
  <2> QED
    BY <2>5, <2>6
<1>4. logs' \in [DOMAIN logs' -> R]
  <2>1. logs' = [k \in DOMAIN logs |-> logs'[k]]
    OBVIOUS
  <2> HIDE DEF R
  <2> QED
    BY <1>2, <1>3, <2>1
<1>5. LogsTyped'
  BY <1>4 DEF LogsTyped
<1>6. LogsBounded'
  BY <1>2 DEF LogsBounded
<1> QED
  BY <1>2, <1>5, <1>6

\* A log file synced.
LEMMA LogSynced ==
  ASSUME LogsTyped, LogsBounded, NEW n,
         logs' = [logs EXCEPT ![n].synced = Len(logs[n].records)]
  PROVE  LogsTyped' /\ LogsBounded' /\ DOMAIN logs' = DOMAIN logs
<1>1. PICK S : logs \in [DOMAIN logs -> [records : Seq(S), synced : Nat]]
  BY DEF LogsTyped
<1>2. DOMAIN logs' = DOMAIN logs
  OBVIOUS
<1> DEFINE R == [records : Seq(S), synced : Nat]
<1>3. ASSUME NEW k \in DOMAIN logs PROVE logs'[k] \in R
  <2>1. logs[k] \in [records : Seq(S), synced : Nat]
    BY <1>1
  <2>2. logs[k].records \in Seq(S) /\ logs[k].synced \in Nat /\ Len(logs[k].records) \in Nat
    BY <2>1
  <2>4. logs[k] = [records |-> logs[k].records, synced |-> logs[k].synced]
    BY <2>1
  <2>5. CASE k = n
    <3>1. logs'[k] = [records |-> logs[k].records, synced |-> Len(logs[k].records)]
      BY <2>4, <2>5
    <3> QED
      BY <2>2, <3>1
  <2>6. CASE k # n
    <3>1. logs'[k] = logs[k]
      BY <2>6
    <3> QED
      BY <2>2, <2>4, <3>1
  <2> QED
    BY <2>5, <2>6
<1>4. logs' \in [DOMAIN logs' -> R]
  <2>1. logs' = [k \in DOMAIN logs |-> logs'[k]]
    OBVIOUS
  <2> HIDE DEF R
  <2> QED
    BY <1>2, <1>3, <2>1
<1>5. LogsTyped'
  BY <1>4 DEF LogsTyped
<1>6. LogsBounded'
  BY <1>2 DEF LogsBounded
<1> QED
  BY <1>2, <1>5, <1>6

\* What a crash leaves of the log files are log files.
LEMMA LogsRemain ==
  ASSUME LogsTyped, LogsBounded, NEW kind, ProcessDies(kind)
  PROVE  LogsTyped' /\ LogsBounded'
<1>1. PICK S : logs \in [DOMAIN logs -> [records : Seq(S), synced : Nat]]
  BY DEF LogsTyped
<1> DEFINE R == [records : Seq(S), synced : Nat]
<1>2. /\ logs' = [n \in DOMAIN logs |-> logs'[n]] /\ DOMAIN logs' = DOMAIN logs
      /\ \A n \in DOMAIN logs : logs'[n] \in Remains(logs[n], kind)
  BY DEF ProcessDies
<1>3. ASSUME NEW log \in R PROVE Remains(log, kind) \subseteq R
  <2> SUFFICES ASSUME NEW x \in Remains(log, kind) PROVE x \in R
    OBVIOUS
  <2> PICK end, skip : x = LeftOf(log, kind, end, skip)
    BY DEF Remains
  <2> DEFINE P == (1..end) \ (Torn(log) \cup skip)
             Q == (1..(IF kind = "machine" THEN end ELSE log.synced)) \ (Torn(log) \cup skip)
  <2>1. x = [records |-> AtPlaces(log.records, P), synced |-> Len(AtPlaces(log.records, Q))]
    BY DEF LeftOf
  <2> HIDE DEF P, Q
  <2>2. log.records \in Seq(S)
    OBVIOUS
  <2>3. AtPlaces(log.records, P) \in Seq(S) /\ AtPlaces(log.records, Q) \in Seq(S)
    BY <2>2, AtPlacesInSeq
  <2>4. Len(AtPlaces(log.records, Q)) \in Nat
    BY <2>3
  <2>5. [records |-> AtPlaces(log.records, P), synced |-> Len(AtPlaces(log.records, Q))] \in R
    BY <2>3, <2>4
  <2> QED
    BY <2>1, <2>5
<1>4. logs' \in [DOMAIN logs' -> R]
  <2> HIDE DEF R
  <2>1. \A n \in DOMAIN logs : logs[n] \in R
    BY <1>1 DEF R
  <2> QED
    BY <1>2, <1>3, <2>1
<1>5. LogsTyped'
  BY <1>4 DEF LogsTyped
<1> QED
  BY <1>2, <1>5 DEF LogsBounded

-----------------------------------------------------------------------------
(* Steps                                                                   *)

\* Steps that change nothing of the files but what is in a log.
LEMMA FilesUntouched ==
  ASSUME FileInv, LogsTyped', LogsBounded', DOMAIN logs' = DOMAIN logs,
         UNCHANGED <<reader, current, compact, edit, durable, flush, pendingOutputs, manifest,
                     tables, up, worn, logNumber, logfileNumber, nextFileNumber>>,
         bgError' = bgError \/ (bgError' = TRUE /\ up = "open"),
         up # "open" => group' = None
  PROVE  FileInv'
<1> USE DEF FileInv
<1>1. Shapes' /\ Quiet' /\ ManifestCounts' /\ WornIsCurrent'
  BY DEF Shapes, Quiet, ManifestCounts, WornIsCurrent
<1>2. Added' = Added /\ Outputs' = Outputs /\ HeldFiles' = HeldFiles
  BY DEF Added, Outputs, HeldFiles
<1>3. EditCounts' /\ CountsAreAhead' /\ OutputsPending' /\ FlushIsNew' /\ HeldFilesExist'
  BY <1>2 DEF EditCounts, CountsAreAhead, OutputsPending, FlushIsNew, HeldFilesExist
<1>4. ManifestIsCurrent'
  BY DEF ManifestIsCurrent, Synced, NoBackgroundWork
<1> QED
  BY <1>1, <1>3, <1>4

\* The switch of the memtable takes one new number.
LEMMA SwitchStep ==
  ASSUME FileInv, up = "open", SwitchMemTable,
         UNCHANGED <<reader, compact, edit, durable, flush, pendingOutputs, manifest, tables, up,
                     logNumber>>
  PROVE  FileInv'
<1> USE DEF FileInv
<1>0. nextFileNumber \in Nat /\ nextFileNumber' = nextFileNumber + 1 /\ logfileNumber' = nextFileNumber
  BY DEF CountsAreAhead, SwitchMemTable
<1>1. UNCHANGED <<current, worn, bgError>>
  BY DEF SwitchMemTable
<1>2. LogsTyped' /\ LogsBounded' /\ DOMAIN logs' = DOMAIN logs \cup {nextFileNumber}
  <2>1. logs' = WithLog(nextFileNumber)
    BY DEF SwitchMemTable
  <2> QED
    BY <1>0, <2>1, LogCreated
<1>3. Shapes' /\ Quiet' /\ ManifestCounts' /\ WornIsCurrent'
  BY <1>0, <1>1 DEF Shapes, Quiet, ManifestCounts, WornIsCurrent
<1>4. Added' = Added /\ Outputs' = Outputs /\ HeldFiles' = HeldFiles
  BY <1>1 DEF Added, Outputs, HeldFiles
<1>5. EditCounts'
  BY <1>0, <1>4 DEF EditCounts
<1>6. CountsAreAhead'
  BY <1>0, <1>2, <1>4 DEF CountsAreAhead, Below
<1>7. OutputsPending' /\ FlushIsNew' /\ HeldFilesExist'
  BY <1>4 DEF OutputsPending, FlushIsNew, HeldFilesExist
<1>8. ManifestIsCurrent'
  BY <1>1 DEF ManifestIsCurrent, Synced, NoBackgroundWork
<1> QED
  BY <1>2, <1>3, <1>5, <1>6, <1>7, <1>8

\* The reference of a reader comes and goes.
LEMMA ReaderStep ==
  ASSUME FileInv, up = "open", reader' = None \/ reader'.version = current,
         UNCHANGED <<current, compact, edit, durable, flush, pendingOutputs, manifest, tables, up,
                     logs, bgError, logNumber, logfileNumber, nextFileNumber>>,
         \A w \in worn' : w[1] \in Levels /\ w[2] \in FilesOf(current)
  PROVE  FileInv'
<1> USE DEF FileInv
<1>1. Shapes' /\ Quiet' /\ ManifestCounts' /\ WornIsCurrent' /\ LogsTyped' /\ LogsBounded'
  BY DEF Shapes, Quiet, ManifestCounts, WornIsCurrent, LogsTyped, LogsBounded
<1>2. Added' = Added /\ Outputs' = Outputs /\ HeldFiles' \subseteq HeldFiles
  BY DEF Added, Outputs, HeldFiles, LiveFiles
<1>3. EditCounts' /\ CountsAreAhead'
  BY <1>2 DEF EditCounts, CountsAreAhead, Below
<1>4. OutputsPending' /\ FlushIsNew' /\ HeldFilesExist'
  BY <1>2 DEF OutputsPending, FlushIsNew, HeldFilesExist, Numbers
<1>5. ManifestIsCurrent'
  BY DEF ManifestIsCurrent, Synced, NoBackgroundWork
<1> QED
  BY <1>1, <1>3, <1>4, <1>5

\* The steps of the writers.
LEMMA WriteKeepsFiles ==
  ASSUME FileInv, Write
  PROVE  FileInv'
<1> USE DEF FileInv
<1>0. group # None => up = "open"
  BY DEF Quiet
<1>1. CASE \E w \in Writers : Enqueue(w)
  <2>1. up # "open" => group' = None
    BY <1>1 DEF Enqueue
  <2>2. LogsTyped' /\ LogsBounded'
    BY <1>1 DEF Enqueue, diskVars, LogsTyped, LogsBounded
  <2> QED
    BY <1>1, <2>1, <2>2, FilesUntouched DEF Enqueue, memVars, readVars, setVars, countVars, bgVars, diskVars
<1>2. ASSUME NEW w \in Writers, BeginWrite(w) PROVE FileInv'
  <2>1. /\ up = "open"
        /\ UNCHANGED <<reader, compact, edit, durable, flush, pendingOutputs, manifest, tables, up,
                       logNumber>>
    BY <1>2 DEF BeginWrite, AtHead, readVars
  <2>2. CASE NoSwitch
    <3>1. UNCHANGED <<current, worn, logfileNumber, nextFileNumber, bgError, logs>>
      BY <2>2 DEF NoSwitch, memVars
    <3>2. LogsTyped' /\ LogsBounded'
      BY <3>1 DEF LogsTyped, LogsBounded
    <3> QED
      BY <2>1, <3>1, <3>2, FilesUntouched
  <2>3. CASE SwitchMemTable
    BY <2>1, <2>3, SwitchStep
  <2> QED
    BY <1>2, <2>2, <2>3 DEF BeginWrite
<1>3. ASSUME NEW w \in Writers, ForceSwitch(w) PROVE FileInv'
  <2>1. /\ up = "open" /\ SwitchMemTable
        /\ UNCHANGED <<reader, compact, edit, durable, flush, pendingOutputs, manifest, tables, up,
                       logNumber>>
    BY <1>3 DEF ForceSwitch, AtHead, readVars
  <2> QED
    BY <2>1, SwitchStep
<1>4. CASE \E w \in Writers : RefuseWrite(w)
  <2>1. group' = group
    BY <1>4 DEF RefuseWrite
  <2>2. LogsTyped' /\ LogsBounded'
    BY <1>4 DEF RefuseWrite, diskVars, LogsTyped, LogsBounded
  <2>3. up # "open" => group' = None
    BY <2>1 DEF Quiet
  <2> QED
    BY <1>4, <2>2, <2>3, FilesUntouched
       DEF RefuseWrite, memVars, readVars, setVars, countVars, bgVars, diskVars
<1>5. CASE AddRecord
  <2>1. up = "open"
    BY <1>0, <1>5 DEF AddRecord
  <2>2. LogsTyped' /\ LogsBounded' /\ DOMAIN logs' = DOMAIN logs
    BY <1>5, RecordAppended DEF AddRecord
  <2> QED
    BY <1>5, <2>1, <2>2, FilesUntouched DEF AddRecord, memVars, readVars, setVars, countVars, bgVars
<1>6. CASE SyncLog
  <2>1. up = "open"
    BY <1>0, <1>6 DEF SyncLog
  <2>2. LogsTyped' /\ LogsBounded' /\ DOMAIN logs' = DOMAIN logs
    BY <1>6, LogSynced DEF SyncLog
  <2> QED
    BY <1>6, <2>1, <2>2, FilesUntouched DEF SyncLog, memVars, readVars, setVars, countVars, bgVars
<1>7. CASE ApplyWrite
  <2>1. up = "open"
    BY <1>0, <1>7 DEF ApplyWrite
  <2>2. LogsTyped' /\ LogsBounded'
    BY <1>7 DEF ApplyWrite, diskVars, LogsTyped, LogsBounded
  <2> QED
    BY <1>7, <2>1, <2>2, FilesUntouched DEF ApplyWrite, readVars, setVars, bgVars, diskVars
<1>8. CASE AddRecordFails
  <2>1. up = "open"
    BY <1>0, <1>8 DEF AddRecordFails
  <2>2. logs' = logs \/ logs' = [logs EXCEPT ![logfileNumber].records = Append(@, TornRecord)]
    BY <1>8 DEF AddRecordFails
  <2>3. LogsTyped' /\ LogsBounded' /\ DOMAIN logs' = DOMAIN logs
    <3>1. CASE logs' = logs
      BY <3>1 DEF LogsTyped, LogsBounded
    <3>2. CASE logs' # logs
      BY <2>2, <3>2, RecordAppended
    <3> QED
      BY <3>1, <3>2
  <2> QED
    BY <1>8, <2>1, <2>3, FilesUntouched DEF AddRecordFails, memVars, readVars, setVars, bgVars
<1>9. CASE SyncFails
  <2>1. up = "open"
    BY <1>0, <1>9 DEF SyncFails
  <2>2. LogsTyped' /\ LogsBounded'
    BY <1>9 DEF SyncFails, diskVars, LogsTyped, LogsBounded
  <2> QED
    BY <1>9, <2>1, <2>2, FilesUntouched DEF SyncFails, FinishGroup, memVars, readVars, setVars, diskVars
<1> QED
  BY <1>1, <1>2, <1>3, <1>4, <1>5, <1>6, <1>7, <1>8, <1>9 DEF Write

\* The steps of readers, of snapshots and of manual compactions.
LEMMA ReadKeepsFiles ==
  ASSUME FileInv, Read
  PROVE  FileInv'
<1> USE DEF FileInv
<1>1. CASE StartRead
  <2>1. up = "open" /\ reader'.version = current
    BY <1>1 DEF StartRead
  <2> QED
    BY <1>1, <2>1, ReaderStep DEF StartRead, memVars, setVars, countVars, bgVars, diskVars, WornIsCurrent
<1>2. CASE EndRead
  <2>1. up = "open" /\ reader' = None
    BY <1>2 DEF EndRead, Quiet
  <2>2. ASSUME NEW k, NEW s, NEW c \in SeekFile(current, k, s)
        PROVE  c[1] \in Levels /\ c[2] \in FilesOf(current)
    <3>1. c \in Candidates(current, k, s)
      BY DEF SeekFile
    <3>2. ASSUME NEW l \in Levels, NEW f \in FindFile(current, l, k, s) PROVE f \in FilesOf(current)
      BY DEF FindFile, FilesOf
    <3>3. 0 \in Levels
      BY VersionSetAssumption DEF Levels
    <3> QED
      BY <3>1, <3>2, <3>3 DEF Candidates, FilesOf
  <2>3. \A w \in worn' : w[1] \in Levels /\ w[2] \in FilesOf(current)
    <3>1. CASE worn' = worn
      BY <3>1 DEF WornIsCurrent
    <3>2. CASE worn' # worn
      <4>1. reader.version = current /\ \E k \in Keys : worn' = SeekFile(current, k, reader.seq)
        BY <1>2, <3>2 DEF EndRead
      <4> QED
        BY <2>2, <4>1
    <3> QED
      BY <3>1, <3>2
  <2>4. UNCHANGED <<current, bgError>>
    BY <1>2 DEF EndRead
  <2> QED
    BY <1>2, <2>1, <2>3, <2>4, ReaderStep DEF EndRead, diskVars, countVars
<1>3. CASE GetSnapshot
  <2>1. LogsTyped' /\ LogsBounded' /\ (up # "open" => group' = None)
    BY <1>3 DEF GetSnapshot, writeVars, diskVars, LogsTyped, LogsBounded
  <2> QED
    BY <1>3, <2>1, FilesUntouched DEF GetSnapshot, memVars, setVars, countVars, bgVars, diskVars
<1>4. CASE ReleaseSnapshot
  <2>1. LogsTyped' /\ LogsBounded' /\ (up # "open" => group' = None)
    BY <1>4 DEF ReleaseSnapshot, writeVars, diskVars, LogsTyped, LogsBounded
  <2> QED
    BY <1>4, <2>1, FilesUntouched DEF ReleaseSnapshot, memVars, setVars, countVars, bgVars, diskVars
<1>5. CASE \E l \in Levels : RequestCompactRange(l)
  <2>1. LogsTyped' /\ LogsBounded' /\ (up # "open" => group' = None)
    BY <1>5 DEF RequestCompactRange, writeVars, diskVars, LogsTyped, LogsBounded
  <2> QED
    BY <1>5, <2>1, FilesUntouched DEF RequestCompactRange, readVars, countVars, diskVars
<1> QED
  BY <1>1, <1>2, <1>3, <1>4, <1>5 DEF Read

-----------------------------------------------------------------------------
(* The background thread, crashes and DB::Open                             *)

\* AddBoundaryInputs adds files of the level.
LEMMA BoundaryInputs ==
  ASSUME NEW v, NEW l \in Levels, NEW F, F \subseteq FilesOf(v)
  PROVE  AddBoundaryInputs(v, l, F) \subseteq FilesOf(v)
<1>1. v[l] \subseteq FilesOf(v)
  BY DEF FilesOf
<1>2. AddBoundaryInputs(v, l, F) \subseteq F \cup v[l]
  BY DEF AddBoundaryInputs, Search
<1> QED
  BY <1>1, <1>2

\* GetOverlappingInputs finds files of the level.
LEMMA OverlappingInputs ==
  ASSUME NEW v, NEW l \in Levels, NEW r
  PROVE  GetOverlappingInputs(v, l, r) \subseteq FilesOf(v)
<1>1. v[l] \subseteq FilesOf(v)
  BY DEF FilesOf
<1>2. GetOverlappingInputs(v, l, r) \subseteq v[l]
  BY DEF GetOverlappingInputs, Search
<1> QED
  BY <1>1, <1>2

\* A compaction takes its inputs from the files of the version.
LEMMA InputsAreFiles ==
  ASSUME NEW v, NEW l \in Levels, NEW F, F \subseteq FilesOf(v)
  PROVE  SetupOtherInputs(v, l, F).in0 \subseteq FilesOf(v)
<1> DEFINE inputs0   == AddBoundaryInputs(v, l, F)
           inputs1   == GetOverlappingInputs(v, l + 1, RangeOf(inputs0))
           all       == RangeOf(inputs0 \cup inputs1)
           expanded0 == AddBoundaryInputs(v, l, GetOverlappingInputs(v, l, all))
<1>1. inputs0 \subseteq FilesOf(v)
  BY BoundaryInputs
<1>2. GetOverlappingInputs(v, l, all) \subseteq FilesOf(v)
  BY OverlappingInputs
<1>3. expanded0 \subseteq FilesOf(v)
  BY <1>2, BoundaryInputs
<1>4. SetupOtherInputs(v, l, F).in0 \in {inputs0, expanded0}
  BY DEF SetupOtherInputs
<1> QED
  BY <1>1, <1>3, <1>4

\* PickCompaction takes its inputs from the files of the current version.
LEMMA PickedInputs ==
  ASSUME WornIsCurrent, manual = None, NEW c \in CompactionChoices
  PROVE  c.in0 \subseteq FilesOf(current)
<1> DEFINE with(l, f) == IF l = 0 THEN GetOverlappingInputs(current, 0, RangeOf({f})) ELSE {f}
<1>1. \E l \in Levels, f \in FilesOf(current) : c = SetupOtherInputs(current, l, with(l, f))
  <2> DEFINE picked == IF FullLevels(current) # {}
                       THEN UNION {{<<l, f>> : f \in current[l]} : l \in FullLevels(current)}
                       ELSE worn
  <2>1. CompactionChoices = {SetupOtherInputs(current, p[1], with(p[1], p[2])) : p \in picked}
    BY DEF CompactionChoices, PickCompaction
  <2> HIDE DEF with
  <2>2. PICK p \in picked : c = SetupOtherInputs(current, p[1], with(p[1], p[2]))
    <3> HIDE DEF picked
    <3> QED
      BY <2>1
  <2>3. CASE FullLevels(current) # {}
    <3>1. PICK l \in FullLevels(current) : p \in {<<l, f>> : f \in current[l]}
      BY <2>2, <2>3
    <3>2. l \in Levels
      BY VersionSetAssumption DEF FullLevels, Levels
    <3>3. p[1] = l /\ p[2] \in current[l]
      BY <3>1
    <3> QED
      BY <2>2, <3>2, <3>3 DEF FilesOf
  <2>4. CASE FullLevels(current) = {}
    BY <2>2, <2>4 DEF WornIsCurrent
  <2> QED
    BY <2>3, <2>4
<1>2. PICK l \in Levels, f \in FilesOf(current) : c = SetupOtherInputs(current, l, with(l, f))
  <2> HIDE DEF with
  <2> QED
    BY <1>1
<1>3. with(l, f) \subseteq FilesOf(current)
  <2>1. 0 \in Levels
    BY VersionSetAssumption DEF Levels
  <2> QED
    BY <1>2, <2>1, OverlappingInputs
<1> HIDE DEF with
<1> QED
  BY <1>2, <1>3, InputsAreFiles

\* A step of the background thread before its edit goes out.
LEMMA WorkKeepsFiles ==
  ASSUME FileInv, StartFlush \/ StartTrivialMove \/ StartCompaction \/ FinishCompaction
                    \/ BackgroundCallIdle \/ BuildTableFails \/ OutputFails
  PROVE  FileInv'
<1> USE DEF FileInv
<1>1. CASE StartFlush
  <2>1. up = "open" /\ up' = up /\ edit = None
    BY <1>1 DEF StartFlush
  <2>2. /\ UNCHANGED <<reader, compact, edit, durable, current, manifest, tables, logs, worn,
                       bgError, group, logNumber, logfileNumber>>
        /\ flush' = nextFileNumber /\ nextFileNumber' = nextFileNumber + 1
        /\ pendingOutputs' = pendingOutputs \cup {nextFileNumber}
    BY <1>1 DEF StartFlush, readVars, setVars, memVars, diskVars, writeVars
  <2>3. nextFileNumber \in Nat
    BY <2>1 DEF CountsAreAhead
  <2>4. Added' = Added /\ Outputs' = Outputs /\ HeldFiles' = HeldFiles
    BY <2>2 DEF Added, Outputs, HeldFiles
  <2>5. Shapes' /\ Quiet' /\ ManifestCounts' /\ WornIsCurrent' /\ LogsTyped' /\ LogsBounded'
    BY <2>1, <2>2, <2>3 DEF Shapes, Quiet, ManifestCounts, WornIsCurrent, LogsTyped, LogsBounded
  <2>6. EditCounts'
    BY <2>1, <2>2 DEF EditCounts
  <2>7. CountsAreAhead'
    BY <2>1, <2>2, <2>3, <2>4 DEF CountsAreAhead, Below
  <2>8. OutputsPending' /\ HeldFilesExist'
    BY <2>2, <2>4 DEF OutputsPending, HeldFilesExist
  <2>9. FlushIsNew'
    <3>1. \A f \in HeldFiles : f.number # nextFileNumber
      BY <2>1, <2>3 DEF CountsAreAhead, Below
    <3> QED
      BY <2>2, <2>4, <3>1 DEF FlushIsNew, Numbers
  <2>10. ManifestIsCurrent'
    <3>1. Synced' = Synced
      BY <2>1, <2>2 DEF Synced
    <3>2. ~Synced => bgError /\ compact # None
      BY <1>1, <2>1 DEF ManifestIsCurrent, StartFlush
    <3> QED
      BY <2>2, <3>1, <3>2 DEF ManifestIsCurrent
  <2> QED
    BY <2>5, <2>6, <2>7, <2>8, <2>9, <2>10
<1>2. CASE StartTrivialMove
  <2>1. /\ up = "open" /\ ~bgError /\ NoBackgroundWork /\ manual = None
        /\ UNCHANGED <<reader, compact, durable, flush, pendingOutputs, current, manifest, tables,
                       logs, worn, bgError, group, logNumber, logfileNumber, nextFileNumber, up>>
    BY <1>2 DEF StartTrivialMove, LogAndApply, BackgroundCompaction, readVars, setVars, countVars, memVars,
                diskVars, writeVars
  <2>2. PICK c \in CompactionChoices : edit' = MoveEdit(c)
    BY <1>2 DEF StartTrivialMove, LogAndApply
  <2>3. c.in0 \subseteq FilesOf(current)
    BY <2>1, <2>2, PickedInputs
  <2>5. Added' \subseteq FilesOf(current) /\ Outputs' = Outputs
    <3>1. \A p \in MoveEdit(c).added : p[2] \in c.in0
      <4>1. MoveEdit(c).added = {<<c.level + 1, f>> : f \in c.in0}
        BY DEF MoveEdit
      <4> QED
        BY <4>1
    <3> QED
      BY <2>1, <2>2, <2>3, <3>1 DEF Added, Outputs
  <2>6. HeldFiles' \subseteq HeldFiles
    BY <2>1, <2>5 DEF HeldFiles, LiveFiles
  <2>7. Quiet' /\ ManifestCounts' /\ WornIsCurrent' /\ LogsTyped' /\ LogsBounded'
    BY <2>1 DEF NoBackgroundWork, Quiet, ManifestCounts, WornIsCurrent, LogsTyped, LogsBounded
  <2>8. Shapes'
    BY <2>1 DEF Shapes
  <2>9. CountsAreAhead'
    BY <2>1, <2>6 DEF CountsAreAhead, Below
  <2>10. EditCounts'
    <3>1. /\ MoveEdit(c).next = nextFileNumber /\ MoveEdit(c).log = logNumber
          /\ manifest.next <= nextFileNumber /\ nextFileNumber \in Nat
          /\ logNumber \in Nat /\ logNumber <= nextFileNumber
          /\ Below(FilesOf(current), nextFileNumber)
      BY <2>1 DEF MoveEdit, CountsAreAhead, ManifestCounts, Below, HeldFiles, LiveFiles
    <3>2. Below(Added', nextFileNumber)
      BY <2>5, <3>1 DEF Below
    <3> QED
      BY <2>1, <2>2, <3>1, <3>2 DEF EditCounts
  <2>11. OutputsPending' /\ FlushIsNew' /\ HeldFilesExist'
    BY <2>1, <2>5, <2>6 DEF OutputsPending, FlushIsNew, HeldFilesExist, NoBackgroundWork
  <2>12. ManifestIsCurrent'
    <3>1. manifest.version = current /\ manifest.state = "whole"
      BY <2>1 DEF ManifestIsCurrent, Synced, Quiet, NoBackgroundWork
    <3>2. ~durable'
      BY <2>1 DEF Quiet, NoBackgroundWork
    <3> QED
      BY <2>1, <3>1, <3>2 DEF ManifestIsCurrent, Synced
  <2> QED
    BY <2>7, <2>8, <2>9, <2>10, <2>11, <2>12
<1>3. CASE StartCompaction
  <2>1. /\ up = "open" /\ ~bgError /\ NoBackgroundWork
        /\ UNCHANGED <<reader, edit, durable, flush, pendingOutputs, current, manifest, tables,
                       logs, worn, bgError, group, logNumber, logfileNumber, nextFileNumber, up>>
    BY <1>3 DEF StartCompaction, BackgroundCompaction, readVars, setVars, countVars, memVars,
                diskVars, writeVars
  <2>2. PICK c : compact' = Compaction(c)
    BY <1>3 DEF StartCompaction
  <2>3. /\ DOMAIN compact' = {"level", "in0", "in1", "version", "todo", "outputs", "manual"}
        /\ compact'.version = current /\ compact'.outputs = {}
    BY <2>2 DEF Compaction
  <2>4. Added' = Added /\ Outputs' = {}
    BY <2>1, <2>3 DEF Added, Outputs
  <2>5. HeldFiles' \subseteq HeldFiles
    BY <2>1, <2>3, <2>4 DEF HeldFiles, LiveFiles
  <2>6. Shapes' /\ Quiet' /\ ManifestCounts' /\ WornIsCurrent' /\ LogsTyped' /\ LogsBounded'
    BY <2>1, <2>3 DEF Shapes, Quiet, ManifestCounts, WornIsCurrent, LogsTyped, LogsBounded
  <2>7. EditCounts' /\ CountsAreAhead'
    BY <2>1, <2>4, <2>5 DEF EditCounts, CountsAreAhead, Below
  <2>8. OutputsPending' /\ FlushIsNew' /\ HeldFilesExist'
    BY <2>1, <2>4, <2>5 DEF OutputsPending, FlushIsNew, HeldFilesExist, NoBackgroundWork, Numbers
  <2>9. ManifestIsCurrent'
    BY <2>1 DEF ManifestIsCurrent, Synced
  <2> QED
    BY <2>6, <2>7, <2>8, <2>9
<1>4. CASE FinishCompaction
  <2>1. /\ compact # None /\ flush = None /\ edit = None /\ edit' = CompactionEdit
        /\ UNCHANGED <<reader, compact, durable, flush, pendingOutputs, current, manifest, tables,
                       logs, worn, bgError, group, logNumber, logfileNumber, nextFileNumber, up>>
    BY <1>4 DEF FinishCompaction, LogAndApply, readVars, setVars, countVars, memVars,
                diskVars, writeVars
  <2>2. up = "open"
    BY <2>1 DEF Quiet
  <2>3. Added' \subseteq Outputs /\ Outputs' = Outputs
    <3>1. \A p \in CompactionEdit.added : p[2] \in compact.outputs
      <4>1. CompactionEdit.added = {<<compact.level + 1, f>> : f \in compact.outputs}
        BY DEF CompactionEdit
      <4> QED
        BY <4>1
    <3> QED
      BY <2>1, <3>1 DEF Added, Outputs
  <2>4. HeldFiles' \subseteq HeldFiles
    BY <2>1, <2>3 DEF HeldFiles
  <2>5. Quiet' /\ ManifestCounts' /\ WornIsCurrent' /\ LogsTyped' /\ LogsBounded'
    BY <2>1, <2>2 DEF Quiet, ManifestCounts, WornIsCurrent, LogsTyped, LogsBounded
  <2>6. Shapes'
    BY <2>1 DEF Shapes
  <2>7. CountsAreAhead'
    BY <2>1, <2>4 DEF CountsAreAhead, Below
  <2>8. EditCounts'
    <3>1. /\ CompactionEdit.next = nextFileNumber /\ CompactionEdit.log = logNumber
          /\ manifest.next <= nextFileNumber /\ nextFileNumber \in Nat
          /\ logNumber \in Nat /\ logNumber <= nextFileNumber
          /\ Below(Outputs, nextFileNumber)
      BY <2>2 DEF CompactionEdit, CountsAreAhead, ManifestCounts, Below, HeldFiles
    <3>2. Below(Added', nextFileNumber)
      BY <2>3, <3>1 DEF Below
    <3> QED
      BY <2>1, <3>1, <3>2 DEF EditCounts
  <2>9. OutputsPending' /\ FlushIsNew' /\ HeldFilesExist'
    BY <2>1, <2>3, <2>4 DEF OutputsPending, FlushIsNew, HeldFilesExist
  <2>10. ManifestIsCurrent'
    <3>1. ~durable'
      BY <2>1 DEF Quiet
    <3> QED
      BY <2>1, <2>2, <3>1 DEF ManifestIsCurrent, Synced
  <2> QED
    BY <2>5, <2>6, <2>7, <2>8, <2>9, <2>10
<1>5. CASE BackgroundCallIdle
  <2>1. LogsTyped' /\ LogsBounded' /\ (up # "open" => group' = None)
    BY <1>5 DEF BackgroundCallIdle, diskVars, LogsTyped, LogsBounded
  <2> QED
    BY <1>5, <2>1, FilesUntouched DEF BackgroundCallIdle, readVars, countVars, diskVars
<1>6. CASE BuildTableFails
  <2>1. /\ flush # None /\ edit = None
        /\ flush' = None /\ bgError' = TRUE /\ pendingOutputs' = pendingOutputs \ {flush}
        /\ UNCHANGED <<reader, compact, edit, durable, current, manifest, tables, logs, worn,
                       group, logNumber, logfileNumber, nextFileNumber, up>>
    BY <1>6 DEF BuildTableFails, readVars, setVars, countVars, memVars, diskVars, writeVars
  <2>2. up = "open"
    BY <2>1 DEF Quiet
  <2>3. Added' = Added /\ Outputs' = Outputs /\ HeldFiles' = HeldFiles
    BY <2>1 DEF Added, Outputs, HeldFiles
  <2>4. Shapes' /\ Quiet' /\ ManifestCounts' /\ WornIsCurrent' /\ LogsTyped' /\ LogsBounded'
    BY <2>1, <2>2 DEF Shapes, Quiet, ManifestCounts, WornIsCurrent, LogsTyped, LogsBounded
  <2>5. EditCounts' /\ CountsAreAhead' /\ HeldFilesExist' /\ FlushIsNew'
    BY <2>1, <2>3 DEF EditCounts, CountsAreAhead, HeldFilesExist, FlushIsNew
  <2>6. OutputsPending'
    <3>1. flush \notin Numbers(Outputs)
      BY <2>1 DEF FlushIsNew, HeldFiles, Numbers
    <3> QED
      BY <2>1, <2>3, <3>1 DEF OutputsPending, Numbers
  <2>7. ManifestIsCurrent'
    BY <2>1, <2>2 DEF ManifestIsCurrent, Synced, NoBackgroundWork
  <2> QED
    BY <2>4, <2>5, <2>6, <2>7
<1>7. CASE OutputFails
  <2>1. /\ compact # None /\ flush = None /\ edit = None
        /\ compact' = None /\ bgError' = TRUE /\ pendingOutputs' = pendingOutputs \ Numbers(compact.outputs)
        /\ UNCHANGED <<reader, flush, edit, durable, current, manifest, tables, logs, worn, group,
                       logNumber, logfileNumber, nextFileNumber, up>>
    BY <1>7 DEF OutputFails, CleanupCompaction, readVars, setVars, countVars, memVars, diskVars, writeVars
  <2>2. up = "open"
    BY <2>1 DEF Quiet
  <2>3. Added' = Added /\ Outputs' = {} /\ HeldFiles' \subseteq HeldFiles
    BY <2>1 DEF Added, Outputs, HeldFiles, LiveFiles
  <2>4. Shapes' /\ Quiet' /\ ManifestCounts' /\ WornIsCurrent' /\ LogsTyped' /\ LogsBounded'
    BY <2>1, <2>2 DEF Shapes, Quiet, ManifestCounts, WornIsCurrent, LogsTyped, LogsBounded
  <2>5. EditCounts' /\ CountsAreAhead' /\ HeldFilesExist' /\ FlushIsNew' /\ OutputsPending'
    BY <2>1, <2>3 DEF EditCounts, CountsAreAhead, HeldFilesExist, FlushIsNew, OutputsPending, Below, Numbers
  <2>6. ManifestIsCurrent'
    BY <2>1, <2>2 DEF ManifestIsCurrent, Synced, NoBackgroundWork
  <2> QED
    BY <2>4, <2>5, <2>6
<1> QED
  BY <1>1, <1>2, <1>3, <1>4, <1>5, <1>6, <1>7

\* A table written under a number nobody holds leaves what is held in place.
LEMMA TableWritten ==
  ASSUME NEW F, NEW H, H \subseteq tables, Numbers(F) \cap Numbers(H) = {},
         tables' = Written(tables, F)
  PROVE  H \subseteq tables' /\ F \subseteq tables'
BY DEF Written, Numbers

\* A table is built: it is written over no file that counts.
LEMMA OutputsKeepFiles ==
  ASSUME FileInv, FlushBuilt \/ WriteOutput
  PROVE  FileInv'
<1> USE DEF FileInv
<1>1. CASE FlushBuilt
  <2>1. /\ flush # None /\ edit = None /\ edit' = FlushEdit
        /\ tables' = Written(tables, FlushOutput) /\ pendingOutputs' = pendingOutputs \ {flush}
        /\ UNCHANGED <<reader, compact, durable, flush, current, manifest, logs, worn, bgError,
                       group, logNumber, logfileNumber, nextFileNumber, up>>
    BY <1>1 DEF FlushBuilt, LogAndApply, readVars, setVars, countVars, memVars, writeVars
  <2>2. up = "open"
    BY <2>1 DEF Quiet
  <2>3. \A f \in FlushOutput : f.number = flush
    BY DEF FlushOutput, File
  <2>4. Added' \subseteq FlushOutput /\ Outputs' = Outputs
    <3>1. \A p \in FlushEdit.added : p[2] \in FlushOutput
      <4> DEFINE place(f) == PickLevelForMemTableOutput(current, RangeOf({f}))
      <4>1. FlushEdit.added = {<<place(f), f>> : f \in FlushOutput}
        BY DEF FlushEdit
      <4> HIDE DEF place
      <4> QED
        BY <4>1
    <3> QED
      BY <2>1, <3>1 DEF Added, Outputs
  <2>5. HeldFiles' \subseteq HeldFiles \cup FlushOutput
    BY <2>1, <2>4 DEF HeldFiles, LiveFiles
  <2>6. HeldFilesExist'
    <3>1. Numbers(FlushOutput) \cap Numbers(HeldFiles) = {}
      BY <2>1, <2>3 DEF FlushIsNew, Numbers
    <3>2. HeldFiles \subseteq tables' /\ FlushOutput \subseteq tables'
      BY <2>1, <3>1, TableWritten DEF HeldFilesExist
    <3> QED
      BY <2>5, <3>2 DEF HeldFilesExist
  <2>7. Quiet' /\ ManifestCounts' /\ WornIsCurrent' /\ LogsTyped' /\ LogsBounded'
    BY <2>1, <2>2 DEF Quiet, ManifestCounts, WornIsCurrent, LogsTyped, LogsBounded
  <2>8. Shapes'
    BY <2>1 DEF Shapes
  <2>9. flush \in Nat /\ flush < nextFileNumber
    BY <2>1, <2>2 DEF CountsAreAhead
  <2>10. CountsAreAhead'
    BY <2>1, <2>2, <2>3, <2>5, <2>9 DEF CountsAreAhead, Below
  <2>11. EditCounts'
    <3>1. /\ FlushEdit.next = nextFileNumber /\ FlushEdit.log = logfileNumber
          /\ manifest.next <= nextFileNumber /\ nextFileNumber \in Nat
          /\ logfileNumber \in Nat /\ logfileNumber <= nextFileNumber
      BY <2>2 DEF FlushEdit, CountsAreAhead, ManifestCounts
    <3>2. Below(Added', nextFileNumber)
      BY <2>3, <2>4, <2>9 DEF Below
    <3> QED
      BY <2>1, <3>1, <3>2 DEF EditCounts
  <2>12. OutputsPending' /\ FlushIsNew'
    <3>1. flush \notin Numbers(Outputs)
      BY <2>1 DEF FlushIsNew, HeldFiles, Numbers
    <3>2. edit' = None => HeldFiles' \subseteq HeldFiles
      BY <2>1, <2>4 DEF HeldFiles, LiveFiles, Added
    <3>3. FlushIsNew'
      BY <2>1, <3>2 DEF FlushIsNew, Numbers
    <3> QED
      BY <2>1, <2>4, <3>1, <3>3 DEF OutputsPending, Numbers
  <2>13. ManifestIsCurrent'
    <3>1. ~durable'
      BY <2>1 DEF Quiet
    <3>2. ~Synced => bgError /\ compact # None
      BY <2>1, <2>2 DEF ManifestIsCurrent, NoBackgroundWork
    <3>3. Synced => Synced'
      BY <2>1, <3>1 DEF Synced
    <3> QED
      BY <2>1, <3>2, <3>3 DEF ManifestIsCurrent
  <2> QED
    BY <2>6, <2>7, <2>8, <2>10, <2>11, <2>12, <2>13
<1>2. CASE WriteOutput
  <2>1. PICK part : LET f == File(nextFileNumber, part)
                    IN  /\ tables' = Written(tables, {f})
                        /\ compact' = [compact EXCEPT !.todo = @ \ part, !.outputs = @ \cup {f}]
    BY <1>2 DEF WriteOutput
  <2> DEFINE f == File(nextFileNumber, part)
  <2>2. /\ compact # None /\ flush = None /\ edit = None
        /\ tables' = Written(tables, {f})
        /\ compact' = [compact EXCEPT !.todo = @ \ part, !.outputs = @ \cup {f}]
        /\ pendingOutputs' = pendingOutputs \cup {nextFileNumber}
        /\ nextFileNumber' = nextFileNumber + 1
        /\ UNCHANGED <<reader, edit, durable, flush, current, manifest, logs, worn, bgError, group,
                       logNumber, logfileNumber, up>>
    BY <1>2, <2>1 DEF WriteOutput, readVars, setVars, memVars, writeVars
  <2>3. f.number = nextFileNumber
    BY DEF File
  <2> HIDE DEF f
  <2>4. up = "open" /\ nextFileNumber \in Nat
    BY <2>2 DEF Quiet, CountsAreAhead
  <2>5. /\ DOMAIN compact = {"level", "in0", "in1", "version", "todo", "outputs", "manual"}
        /\ DOMAIN compact' = DOMAIN compact
        /\ compact'.version = compact.version /\ compact'.outputs = compact.outputs \cup {f}
    BY <2>2 DEF Shapes
  <2>7. Outputs' \subseteq Outputs \cup {f} /\ Added' = Added /\ (compact' # None => Outputs' = Outputs \cup {f})
    BY <2>2, <2>5 DEF Outputs, Added
  <2>8. HeldFiles' \subseteq HeldFiles \cup {f}
    BY <2>2, <2>5, <2>7 DEF HeldFiles, LiveFiles
  <2>9. \A g \in HeldFiles : g.number \in Nat /\ g.number < nextFileNumber
    BY <2>4 DEF CountsAreAhead, Below
  <2>10. HeldFilesExist'
    <3>1. Numbers({f}) \cap Numbers(HeldFiles) = {}
      BY <2>3, <2>4, <2>9 DEF Numbers
    <3>2. HeldFiles \subseteq tables' /\ f \in tables'
      BY <2>2, <3>1, TableWritten DEF HeldFilesExist
    <3> QED
      BY <2>8, <3>2 DEF HeldFilesExist
  <2>11. Shapes' /\ Quiet' /\ ManifestCounts' /\ WornIsCurrent' /\ LogsTyped' /\ LogsBounded'
    BY <2>2, <2>4, <2>5 DEF Shapes, Quiet, ManifestCounts, WornIsCurrent, LogsTyped, LogsBounded
  <2>12. CountsAreAhead'
    BY <2>2, <2>3, <2>4, <2>8 DEF CountsAreAhead, Below
  <2>13. EditCounts' /\ FlushIsNew'
    BY <2>2 DEF EditCounts, FlushIsNew
  <2>14. OutputsPending'
    BY <2>2, <2>3, <2>7 DEF OutputsPending, Numbers
  <2>15. ManifestIsCurrent'
    BY <2>2, <2>4 DEF ManifestIsCurrent, Synced, NoBackgroundWork
  <2> QED
    BY <2>10, <2>11, <2>12, <2>13, <2>14, <2>15
<1> QED
  BY <1>1, <1>2

\* An edit goes to the MANIFEST, whatever comes of it.
LEMMA AppendedManifest ==
  ASSUME Shapes, ManifestCounts, EditCounts, HeldFilesExist, edit # None,
         NEW m, \/ m = manifest \/ \E s : m = [manifest EXCEPT !.state = s]
                \/ m = Appended(manifest, edit)
                \/ m = Whole(ApplyEdit(current, edit), edit) /\ Below(FilesOf(current), edit.next)
  PROVE  /\ DOMAIN m = {"state", "version", "log", "next", "last"}
         /\ m.next \in Nat /\ m.log \in Nat /\ m.log <= m.next /\ m.next <= edit.next
         /\ Below(FilesOf(m.version), m.next)
         /\ FilesOf(m.version) \subseteq HeldFiles
<1>1. /\ FilesOf(manifest.version) \subseteq HeldFiles /\ Added \subseteq HeldFiles
      /\ FilesOf(current) \subseteq HeldFiles
  BY DEF HeldFiles, LiveFiles
<1>2. /\ manifest.next \in Nat /\ manifest.log \in Nat /\ manifest.log <= manifest.next
      /\ Below(FilesOf(manifest.version), manifest.next)
      /\ edit.next \in Nat /\ edit.log \in Nat /\ edit.log <= edit.next
      /\ manifest.next <= edit.next /\ Below(Added, edit.next)
  BY DEF ManifestCounts, EditCounts
<1>3. ASSUME NEW v, Below(FilesOf(v), edit.next), FilesOf(v) \subseteq HeldFiles
      PROVE  /\ Below(FilesOf(ApplyEdit(v, edit)), edit.next)
             /\ FilesOf(ApplyEdit(v, edit)) \subseteq HeldFiles
  <2>1. FilesOf(ApplyEdit(v, edit)) \subseteq FilesOf(v) \cup Added
    BY ApplyEditFiles DEF Added
  <2> QED
    BY <1>1, <1>2, <1>3, <2>1 DEF Below
<1>4. ASSUME NEW v, m = Whole(ApplyEdit(v, edit), edit), Below(FilesOf(v), edit.next),
             FilesOf(v) \subseteq HeldFiles
      PROVE  /\ DOMAIN m = {"state", "version", "log", "next", "last"}
             /\ m.next \in Nat /\ m.log \in Nat /\ m.log <= m.next /\ m.next <= edit.next
             /\ Below(FilesOf(m.version), m.next)
             /\ FilesOf(m.version) \subseteq HeldFiles
  <2>1. /\ DOMAIN m = {"state", "version", "log", "next", "last"}
        /\ m.version = ApplyEdit(v, edit) /\ m.log = edit.log /\ m.next = edit.next
    BY <1>4 DEF Whole
  <2> QED
    BY <1>2, <1>3, <1>4, <2>1
<1>5. ASSUME NEW s, m = [manifest EXCEPT !.state = s]
      PROVE  /\ DOMAIN m = {"state", "version", "log", "next", "last"}
             /\ m.version = manifest.version /\ m.log = manifest.log /\ m.next = manifest.next
  BY <1>5 DEF Shapes
<1>6. CASE m = manifest \/ \E s : m = [manifest EXCEPT !.state = s]
  <2>1. /\ DOMAIN m = {"state", "version", "log", "next", "last"}
        /\ m.version = manifest.version /\ m.log = manifest.log /\ m.next = manifest.next
    BY <1>5, <1>6 DEF Shapes
  <2> QED
    BY <1>1, <1>2, <2>1
<1>7. CASE m = Whole(ApplyEdit(manifest.version, edit), edit)
  <2>1. Below(FilesOf(manifest.version), edit.next)
    BY <1>2 DEF Below
  <2> QED
    BY <1>1, <1>4, <1>7, <2>1
<1>8. CASE m = Whole(ApplyEdit(current, edit), edit) /\ Below(FilesOf(current), edit.next)
  BY <1>1, <1>4, <1>8
<1> QED
  BY <1>6, <1>7, <1>8 DEF Appended

\* The MANIFEST is written, or fails to be.
LEMMA EditsKeepFiles ==
  ASSUME FileInv, EditWritten \/ EditFails
  PROVE  FileInv'
<1> USE DEF FileInv
<1>1. CASE EditWritten
  <2>1. /\ edit # None /\ ~durable /\ edit' = edit /\ durable' = TRUE
        /\ UNCHANGED <<reader, compact, flush, pendingOutputs, tables, current, logs, worn,
                       bgError, group, logNumber, logfileNumber, nextFileNumber, up>>
    BY <1>1 DEF EditWritten, readVars, setVars, countVars, memVars, writeVars
  <2>2. up # "closed"
    BY <2>1 DEF Quiet
  <2>4. \/ manifest' = Appended(manifest, edit) /\ up # "recovering"
        \/ manifest' = Whole(ApplyEdit(current, edit), edit) /\ up = "recovering"
    BY <1>1 DEF EditWritten
  <2>5. up = "recovering" => ~bgError /\ Synced
    BY <2>2 DEF Quiet, ManifestIsCurrent
  <2>6. up = "recovering" => Below(FilesOf(current), edit.next)
    <3>1. up = "recovering" => current = manifest.version
      BY <2>1, <2>5 DEF Synced
    <3> QED
      BY <2>1, <3>1 DEF ManifestCounts, EditCounts, Below
  <2>7. /\ DOMAIN manifest' = {"state", "version", "log", "next", "last"}
        /\ manifest'.next \in Nat /\ manifest'.log \in Nat /\ manifest'.log <= manifest'.next
        /\ manifest'.next <= edit.next
        /\ Below(FilesOf(manifest'.version), manifest'.next)
        /\ FilesOf(manifest'.version) \subseteq HeldFiles
    <3> DEFINE m == manifest'
    <3>1. \/ m = Appended(manifest, edit)
          \/ m = Whole(ApplyEdit(current, edit), edit) /\ Below(FilesOf(current), edit.next)
      BY <2>4, <2>6
    <3> HIDE DEF m
    <3>2. /\ DOMAIN m = {"state", "version", "log", "next", "last"}
          /\ m.next \in Nat /\ m.log \in Nat /\ m.log <= m.next /\ m.next <= edit.next
          /\ Below(FilesOf(m.version), m.next)
          /\ FilesOf(m.version) \subseteq HeldFiles
      BY <2>1, <3>1, AppendedManifest
    <3> QED
      BY <3>2 DEF m
  <2>8. Added' = Added /\ Outputs' = Outputs
    BY <2>1 DEF Added, Outputs
  <2>9. HeldFiles' \subseteq HeldFiles
    BY <2>1, <2>7, <2>8 DEF HeldFiles, LiveFiles
  <2>10. Shapes' /\ Quiet' /\ WornIsCurrent' /\ LogsTyped' /\ LogsBounded'
    BY <2>1, <2>2, <2>7 DEF Shapes, Quiet, WornIsCurrent, LogsTyped, LogsBounded
  <2>11. edit.next \in Nat /\ edit.next <= nextFileNumber /\ nextFileNumber \in Nat
    BY <2>1, <2>2 DEF EditCounts, CountsAreAhead
  <2>12. ManifestCounts'
    BY <2>1, <2>7, <2>11 DEF ManifestCounts
  <2>13. EditCounts'
    BY <2>1, <2>7, <2>8 DEF EditCounts
  <2>14. CountsAreAhead' /\ OutputsPending' /\ HeldFilesExist'
    BY <2>1, <2>8, <2>9 DEF CountsAreAhead, Below, OutputsPending, HeldFilesExist, Numbers
  <2>15. FlushIsNew'
    BY <2>1 DEF FlushIsNew
  <2>16. ManifestIsCurrent'
    <3>2. CASE Synced
      <4>1. manifest.version = current /\ (up = "open" => manifest.state = "whole")
        BY <2>1, <3>2 DEF Synced
      <4>2. manifest' = Whole(ApplyEdit(current, edit), edit)
        BY <2>2, <2>4, <4>1 DEF Appended, Quiet
      <4>3. manifest'.version = ApplyEdit(current, edit) /\ manifest'.state = "whole"
        BY <4>2 DEF Whole
      <4> QED
        BY <2>1, <4>3 DEF ManifestIsCurrent, Synced
    <3>3. CASE ~Synced
      BY <2>1, <2>2, <3>3 DEF ManifestIsCurrent, NoBackgroundWork
    <3> QED
      BY <3>2, <3>3
  <2> QED
    BY <2>10, <2>12, <2>13, <2>14, <2>15, <2>16
<1>2. CASE EditFails
  <2>1. /\ up = "open" /\ edit # None /\ edit' = None /\ ~durable' /\ flush' = None /\ bgError' = TRUE
        /\ UNCHANGED <<reader, tables, current, logs, worn, group, logNumber, logfileNumber,
                       nextFileNumber, up>>
        /\ \/ UNCHANGED <<compact, pendingOutputs>>
           \/ compact' = None
        /\ pendingOutputs' \subseteq pendingOutputs
    BY <1>2 DEF EditFails, CleanupCompaction, readVars, setVars, countVars, memVars, writeVars
  <2>2. \/ manifest' = manifest \/ \E s : manifest' = [manifest EXCEPT !.state = s]
        \/ manifest' = Appended(manifest, edit)
    BY <1>2 DEF EditFails
  <2>3. /\ DOMAIN manifest' = {"state", "version", "log", "next", "last"}
        /\ manifest'.next \in Nat /\ manifest'.log \in Nat /\ manifest'.log <= manifest'.next
        /\ manifest'.next <= edit.next
        /\ Below(FilesOf(manifest'.version), manifest'.next)
        /\ FilesOf(manifest'.version) \subseteq HeldFiles
    <3> DEFINE m == manifest'
    <3>1. m = manifest \/ (\E s : m = [manifest EXCEPT !.state = s]) \/ m = Appended(manifest, edit)
      BY <2>2
    <3> HIDE DEF m
    <3>2. /\ DOMAIN m = {"state", "version", "log", "next", "last"}
          /\ m.next \in Nat /\ m.log \in Nat /\ m.log <= m.next /\ m.next <= edit.next
          /\ Below(FilesOf(m.version), m.next)
          /\ FilesOf(m.version) \subseteq HeldFiles
      BY <2>1, <3>1, AppendedManifest
    <3> QED
      BY <3>2 DEF m
  <2>4. Added' = {} /\ (Outputs' = Outputs \/ Outputs' = {}) /\ Outputs' \subseteq Outputs
    BY <2>1 DEF Added, Outputs
  <2>5. HeldFiles' \subseteq HeldFiles
    BY <2>1, <2>3, <2>4 DEF HeldFiles, LiveFiles
  <2>6. Shapes' /\ Quiet' /\ WornIsCurrent' /\ LogsTyped' /\ LogsBounded'
    BY <2>1, <2>3 DEF Shapes, Quiet, WornIsCurrent, LogsTyped, LogsBounded
  <2>7. ManifestCounts'
    <3>1. edit.next \in Nat /\ edit.next <= nextFileNumber /\ nextFileNumber \in Nat
      BY <2>1 DEF EditCounts, CountsAreAhead
    <3> QED
      BY <2>1, <2>3, <3>1 DEF ManifestCounts
  <2>8. EditCounts' /\ CountsAreAhead' /\ HeldFilesExist' /\ FlushIsNew'
    BY <2>1, <2>5 DEF EditCounts, CountsAreAhead, Below, HeldFilesExist, FlushIsNew
  <2>9. OutputsPending'
    BY <2>1, <2>4 DEF OutputsPending, Outputs, Numbers
  <2>10. ManifestIsCurrent'
    BY <2>1 DEF ManifestIsCurrent, NoBackgroundWork
  <2> QED
    BY <2>6, <2>7, <2>8, <2>9, <2>10
<1> QED
  BY <1>1, <1>2

\* A version is installed and the files nobody needs any more are deleted.
LEMMA InstallStep ==
  ASSUME FileInv, edit # None, durable, InstallVersion, up' = "open", flush' = None,
         DeleteObsoleteFiles \/ UNCHANGED <<logs, tables>>,
         UNCHANGED <<reader, manifest, bgError, logfileNumber, nextFileNumber>>,
         pendingOutputs' \subseteq pendingOutputs,
         UNCHANGED <<compact, pendingOutputs>> \/ compact' = None
  PROVE  FileInv'
<1> USE DEF FileInv
<1>1. /\ current' = ApplyEdit(current, edit) /\ worn' = {} /\ logNumber' = edit.log
      /\ edit' = None /\ durable' = FALSE
  BY DEF InstallVersion
<1>2. FilesOf(current') \subseteq FilesOf(current) \cup Added
  BY <1>1, ApplyEditFiles DEF Added
<1>3. up # "closed"
  BY DEF Quiet
<1>4. Added' = {} /\ Outputs' \subseteq Outputs
  BY <1>1 DEF Added, Outputs
<1>5. HeldFiles' \subseteq HeldFiles
  BY <1>1, <1>2, <1>4 DEF HeldFiles, LiveFiles
<1>6. LogsTyped' /\ LogsBounded' /\ DOMAIN logs' \subseteq DOMAIN logs
  <2>1. CASE UNCHANGED logs
    BY <2>1 DEF LogsTyped, LogsBounded
  <2>2. CASE ~UNCHANGED logs
    <3> DEFINE kept == {n \in DOMAIN logs : n >= logNumber'}
    <3>1. logs' = [n \in kept |-> logs[n]]
      BY <2>2 DEF DeleteObsoleteFiles, Restrict2
    <3>2. DOMAIN logs' = kept /\ kept \subseteq DOMAIN logs
      BY <3>1
    <3>3. PICK S : logs \in [DOMAIN logs -> [records : Seq(S), synced : Nat]]
      BY DEF LogsTyped
    <3>4. logs' \in [DOMAIN logs' -> [records : Seq(S), synced : Nat]]
      BY <3>1, <3>2, <3>3
    <3>5. LogsTyped'
      BY <3>4 DEF LogsTyped
    <3>6. LogsBounded'
      BY <3>2 DEF LogsBounded
    <3> QED
      BY <3>2, <3>5, <3>6
  <2> QED
    BY <2>1, <2>2
<1>7. Shapes' /\ Quiet' /\ ManifestCounts' /\ EditCounts' /\ FlushIsNew' /\ WornIsCurrent'
  BY <1>1, <1>3 DEF Shapes, Quiet, ManifestCounts, EditCounts, FlushIsNew, WornIsCurrent
<1>8. OutputsPending'
  BY <1>4 DEF OutputsPending, Outputs, Numbers
<1>9. CountsAreAhead'
  <2>1. logNumber' \in Nat /\ logNumber' <= nextFileNumber
    BY <1>1, <1>3 DEF EditCounts, CountsAreAhead
  <2> QED
    BY <1>1, <1>3, <1>5, <1>6, <2>1 DEF CountsAreAhead, Below
<1>10. Synced => manifest.version = current' /\ manifest.state = "whole"
  BY <1>1 DEF Synced
<1>11. ManifestIsCurrent'
  <2>1. ~Synced => bgError /\ compact # None
    BY <1>3 DEF ManifestIsCurrent, NoBackgroundWork
  <2>2. Synced => Synced'
    BY <1>1, <1>10 DEF Synced
  <2> QED
    BY <1>1, <2>1, <2>2 DEF ManifestIsCurrent, NoBackgroundWork
<1>12. HeldFilesExist'
  <2>1. CASE UNCHANGED tables
    BY <1>5, <2>1 DEF HeldFilesExist
  <2>2. CASE ~UNCHANGED tables
    <3>1. /\ ~bgError
          /\ tables' = {f \in tables : f.number \in pendingOutputs'
                                          \cup Numbers(LiveFiles(current', reader, compact'))}
      BY <2>2 DEF DeleteObsoleteFiles
    <3>2. manifest.version = current'
      BY <1>3, <1>10, <3>1 DEF ManifestIsCurrent
    <3>3. HeldFiles' = LiveFiles(current', reader, compact') \cup Outputs'
      <4>1. FilesOf(current') \subseteq LiveFiles(current', reader, compact')
        BY DEF LiveFiles
      <4> QED
        BY <1>4, <3>2, <4>1 DEF HeldFiles
    <3>4. ASSUME NEW f \in HeldFiles' PROVE f \in tables'
      <4>1. f \in tables
        BY <1>5 DEF HeldFilesExist
      <4>2. f.number \in pendingOutputs' \cup Numbers(LiveFiles(current', reader, compact'))
        BY <1>8, <3>3 DEF OutputsPending, Numbers
      <4> QED
        BY <3>1, <4>1, <4>2
    <3> QED
      BY <3>4 DEF HeldFilesExist
  <2> QED
    BY <2>1, <2>2
<1> QED
  BY <1>6, <1>7, <1>8, <1>9, <1>11, <1>12

\* The steps of the background thread.
LEMMA BackgroundKeepsFiles ==
  ASSUME FileInv, Background
  PROVE  FileInv'
<1>1. CASE InstallFlush
  <2>1. up = "open"
    BY <1>1 DEF InstallFlush, FileInv, Quiet
  <2> QED
    BY <1>1, <2>1, InstallStep DEF InstallFlush, readVars, countVars
<1>2. CASE InstallMove
  BY <1>2, InstallStep DEF InstallMove, memVars, readVars, countVars, diskVars
<1>3. CASE InstallCompaction
  <2>1. up = "open"
    BY <1>3 DEF InstallCompaction, FileInv, Quiet
  <2> QED
    BY <1>3, <2>1, InstallStep DEF InstallCompaction, CleanupCompaction, memVars, readVars, countVars
<1> QED
  BY <1>1, <1>2, <1>3, WorkKeepsFiles, OutputsKeepFiles, EditsKeepFiles DEF Background

\* The empty version has no files.
LEMMA NoFiles == FilesOf(EmptyVersion) = {}
BY DEF FilesOf, EmptyVersion

\* A crash leaves what is on disk, less some of the logs' records.
LEMMA DeathKeepsFiles ==
  ASSUME FileInv, NEW kind, ProcessDies(kind),
         manifest' = manifest \/ \E s : manifest' = [manifest EXCEPT !.state = s]
  PROVE  FileInv'
<1> USE DEF FileInv
<1>1. /\ up' = "closed" /\ group' = None /\ reader' = None /\ current' = EmptyVersion /\ worn' = {}
      /\ bgError' = FALSE /\ flush' = None /\ compact' = None /\ edit' = None /\ durable' = FALSE
      /\ pendingOutputs' = {} /\ tables' = tables
  BY DEF ProcessDies
<1>2. LogsTyped' /\ LogsBounded'
  BY LogsRemain
<1>3. /\ DOMAIN manifest' = {"state", "version", "log", "next", "last"}
      /\ manifest'.version = manifest.version /\ manifest'.log = manifest.log
      /\ manifest'.next = manifest.next
  BY DEF Shapes
<1>4. HeldFiles' = FilesOf(manifest.version)
  BY <1>1, <1>3, NoFiles DEF HeldFiles, LiveFiles, Outputs, Added
<1>5. Shapes' /\ Quiet' /\ ManifestCounts' /\ EditCounts' /\ CountsAreAhead' /\ FlushIsNew'
      /\ ManifestIsCurrent' /\ WornIsCurrent'
  BY <1>1, <1>3 DEF Shapes, Quiet, ManifestCounts, EditCounts, CountsAreAhead, FlushIsNew,
                   ManifestIsCurrent, WornIsCurrent
<1>6. OutputsPending'
  BY <1>1 DEF OutputsPending, Outputs, Numbers
<1>7. HeldFilesExist'
  BY <1>1, <1>4 DEF HeldFilesExist, HeldFiles
<1> QED
  BY <1>2, <1>5, <1>6, <1>7

\* A recovery writes its tables under numbers above all that are in use.
LEMMA RecoverKeepsFiles ==
  ASSUME FileInv, Recover
  PROVE  FileInv'
<1> USE DEF FileInv
<1>1. /\ up = "closed" /\ up' = "recovering" /\ current' = manifest.version /\ logNumber' = manifest.log
      /\ tables' = Written(tables, Recovered.files)
      /\ logfileNumber' = Recovered.next /\ nextFileNumber' = Recovered.next + 1
      /\ logs' = WithLog(Recovered.next)
      /\ UNCHANGED <<group, reader, worn, bgError, flush, compact, durable, pendingOutputs,
                     manifest>>
  BY DEF Recover, writeVars, readVars
<1>2. /\ edit'.added = {<<0, f>> : f \in Recovered.files} /\ edit'.log = Recovered.next
      /\ edit'.next = Recovered.next + 1
  BY DEF Recover
<1>3. /\ edit = None /\ ~durable /\ reader = None /\ compact = None /\ flush = None /\ group = None
      /\ pendingOutputs = {} /\ worn = {} /\ ~bgError
  BY <1>1 DEF Quiet
<1>4. /\ manifest.next \in Nat /\ manifest.log \in Nat /\ manifest.log <= manifest.next
      /\ Below(FilesOf(manifest.version), manifest.next)
  BY DEF ManifestCounts
<1>5. /\ Recovered.next \in Nat /\ manifest.next < Recovered.next
      /\ \A n \in DOMAIN logs : n >= manifest.log => n < Recovered.next
      /\ \A f \in Recovered.files :
           f.number \in Nat /\ manifest.next < f.number /\ f.number < Recovered.next
  BY <1>4, RecoveryCounts
<1>6. LogsTyped' /\ LogsBounded' /\ DOMAIN logs' = DOMAIN logs \cup {Recovered.next}
  BY <1>1, <1>5, LogCreated
<1>7. Added' \subseteq Recovered.files
  <2>1. \A p \in edit'.added : p[2] \in Recovered.files
    BY <1>2
  <2> QED
    BY <2>1 DEF Added
<1>8. Outputs' = {} /\ HeldFiles' \subseteq FilesOf(manifest.version) \cup Recovered.files
  BY <1>1, <1>3, <1>7 DEF Outputs, HeldFiles, LiveFiles
<1>9. Shapes' /\ Quiet' /\ ManifestCounts' /\ WornIsCurrent'
  BY <1>1, <1>3, <1>4, <1>5 DEF Shapes, Quiet, ManifestCounts, WornIsCurrent
<1>10. EditCounts'
  BY <1>1, <1>2, <1>4, <1>5, <1>7 DEF EditCounts, Below
<1>11. CountsAreAhead'
  <2>1. Below(HeldFiles', nextFileNumber')
    BY <1>1, <1>4, <1>5, <1>8 DEF Below
  <2>2. ASSUME NEW n \in DOMAIN logs' PROVE n \in Nat /\ n < nextFileNumber'
    <3>1. CASE n = Recovered.next
      BY <1>1, <1>5, <3>1
    <3>2. CASE n \in DOMAIN logs
      <4>1. n \in Nat
        BY <3>2 DEF LogsBounded
      <4>2. n >= manifest.log => n < Recovered.next
        BY <1>5, <3>2
      <4> QED
        BY <1>1, <1>4, <1>5, <4>1, <4>2
    <3> QED
      BY <1>6, <3>1, <3>2
  <2> QED
    BY <1>1, <1>3, <1>4, <1>5, <2>1, <2>2 DEF CountsAreAhead
<1>12. OutputsPending' /\ FlushIsNew'
  BY <1>1, <1>3, <1>8 DEF OutputsPending, FlushIsNew, Numbers
<1>13. HeldFilesExist'
  <2>1. FilesOf(manifest.version) \subseteq tables
    BY DEF HeldFilesExist, HeldFiles
  <2>2. Numbers(Recovered.files) \cap Numbers(FilesOf(manifest.version)) = {}
    BY <1>4, <1>5 DEF Numbers, Below
  <2>3. FilesOf(manifest.version) \subseteq tables' /\ Recovered.files \subseteq tables'
    BY <1>1, <2>1, <2>2, TableWritten
  <2> QED
    BY <1>8, <2>3 DEF HeldFilesExist
<1>14. ManifestIsCurrent'
  BY <1>1, <1>3 DEF ManifestIsCurrent, Synced
<1> QED
  BY <1>6, <1>9, <1>10, <1>11, <1>12, <1>13, <1>14

\* The steps of DB::Open.
LEMMA OpenKeepsFiles ==
  ASSUME FileInv, Open
  PROVE  FileInv'
<1> USE DEF FileInv
<1>1. CASE NewDB
  <2>1. /\ up = "closed" /\ manifest' = [manifest EXCEPT !.state = "unsynced"]
        /\ UNCHANGED <<group, reader, current, worn, logNumber, logfileNumber, nextFileNumber,
                       bgError, flush, compact, edit, durable, pendingOutputs, logs, tables, up>>
    BY <1>1 DEF NewDB, writeVars, memVars, readVars, setVars, countVars, bgVars
  <2>2. /\ DOMAIN manifest' = {"state", "version", "log", "next", "last"}
        /\ manifest'.version = manifest.version /\ manifest'.log = manifest.log
        /\ manifest'.next = manifest.next
    BY <2>1 DEF Shapes
  <2>3. HeldFiles' = HeldFiles /\ Outputs' = Outputs /\ Added' = Added
    BY <2>1, <2>2 DEF HeldFiles, Outputs, Added
  <2>4. Shapes' /\ Quiet' /\ ManifestCounts' /\ WornIsCurrent' /\ LogsTyped' /\ LogsBounded'
    BY <2>1, <2>2 DEF Shapes, Quiet, ManifestCounts, WornIsCurrent, LogsTyped, LogsBounded
  <2>5. EditCounts' /\ CountsAreAhead' /\ ManifestIsCurrent'
    BY <2>1 DEF EditCounts, CountsAreAhead, ManifestIsCurrent, Quiet
  <2>6. OutputsPending' /\ FlushIsNew' /\ HeldFilesExist'
    BY <2>1, <2>3 DEF OutputsPending, FlushIsNew, HeldFilesExist
  <2> QED
    BY <2>4, <2>5, <2>6
<1>2. CASE Recover
  BY <1>2, RecoverKeepsFiles
<1>3. CASE OpenInstalled
  <2>1. flush = None
    BY <1>3 DEF OpenInstalled, Quiet
  <2> QED
    BY <1>3, <2>1, InstallStep DEF OpenInstalled, memVars, readVars, countVars
<1>4. CASE OpenFails
  BY <1>4, DeathKeepsFiles DEF OpenFails
<1> QED
  BY <1>1, <1>2, <1>3, <1>4 DEF Open

\* A new database, and one found on disk.
LEMMA FileInit == Init => FileInv
<1> SUFFICES ASSUME Init PROVE FileInv
  OBVIOUS
<1>1. /\ group = None /\ reader = None /\ current = EmptyVersion /\ worn = {} /\ bgError = FALSE
      /\ flush = None /\ compact = None /\ edit = None /\ durable = FALSE /\ pendingOutputs = {}
      /\ up = "closed" /\ logs = <<>>
  BY DEF Init
<1>2. LogsTyped /\ LogsBounded
  <2>1. DOMAIN logs = {}
    BY <1>1
  <2>2. logs \in [DOMAIN logs -> [records : Seq({}), synced : Nat]]
    BY <1>1, <2>1
  <2>3. DOMAIN logs \subseteq 0..0
    BY <2>1
  <2> QED
    BY <2>2, <2>3 DEF LogsTyped, LogsBounded
<1>3. /\ DOMAIN manifest = {"state", "version", "log", "next", "last"}
      /\ manifest.next \in Nat /\ manifest.log = 0
      /\ Below(FilesOf(manifest.version), manifest.next)
      /\ FilesOf(manifest.version) \subseteq tables
  <2>1. CASE manifest = NoManifest /\ tables = {}
    BY <2>1, NoFiles DEF NoManifest, Below
  <2>2. ASSUME NEW db \in InitialDatabases,
               manifest = [state |-> "whole", version |-> db.version, log |-> 0,
                           next |-> db.next, last |-> db.last],
               tables = FilesOf(db.version)
        PROVE  /\ DOMAIN manifest = {"state", "version", "log", "next", "last"}
               /\ manifest.next \in Nat /\ manifest.log = 0
               /\ Below(FilesOf(manifest.version), manifest.next)
               /\ FilesOf(manifest.version) \subseteq tables
    BY <2>2, InitialDatabasesAssumption DEF Below
  <2> QED
    BY <2>1, <2>2 DEF Init
<1>4. HeldFiles = FilesOf(manifest.version)
  BY <1>1, NoFiles DEF HeldFiles, LiveFiles, Outputs, Added
<1>5. Shapes /\ Quiet /\ ManifestCounts /\ EditCounts /\ CountsAreAhead /\ FlushIsNew
      /\ ManifestIsCurrent /\ WornIsCurrent /\ HeldFilesExist
  BY <1>1, <1>3, <1>4 DEF Shapes, Quiet, ManifestCounts, EditCounts, CountsAreAhead, FlushIsNew,
                   ManifestIsCurrent, WornIsCurrent, HeldFilesExist
<1>6. OutputsPending
  BY <1>1 DEF OutputsPending, Outputs, Numbers
<1> QED
  BY <1>2, <1>5, <1>6 DEF FileInv

\* Every step keeps the invariant of the files.
LEMMA FilesNext ==
  ASSUME FileInv, [Next]_vars
  PROVE  FileInv'
<1>1. CASE Abort
  BY <1>1, DeathKeepsFiles DEF Abort
<1>2. ASSUME NEW kind \in {"process", "machine"}, Crash(kind)
      PROVE  FileInv'
  <2>1. manifest' = manifest \/ \E s : manifest' = [manifest EXCEPT !.state = s]
    BY <1>2 DEF Crash
  <2> QED
    BY <1>2, <2>1, DeathKeepsFiles DEF Crash
<1>3. CASE UNCHANGED vars
  <2>1. (up # "open" => group' = None) /\ LogsTyped' /\ LogsBounded'
    BY <1>3 DEF vars, writeVars, diskVars, FileInv, Quiet, LogsTyped, LogsBounded
  <2> QED
    BY <1>3, <2>1, FilesUntouched DEF vars, memVars, readVars, setVars, countVars, bgVars, diskVars
<1> QED
  BY <1>1, <1>2, <1>3, WriteKeepsFiles, BackgroundKeepsFiles, ReadKeepsFiles, OpenKeepsFiles DEF Next

\* The invariant of the files holds in every reachable state.
LEMMA FileInvAlways == Spec => []FileInv
<1>1. FileInv /\ [Next]_vars => FileInv'
  BY FilesNext
<1> QED
  BY FileInit, <1>1, PTL DEF Spec

\* However flushes, compactions, readers, faults and crashes interleave, every file
\* of a live version, every output of the compaction under way and every file the
\* MANIFEST names is on disk (RemoveObsoleteFiles, pending_outputs_).
THEOREM FilesAreKept == Spec => []LiveFilesExist
<1>1. FileInv => LiveFilesExist
  BY DEF FileInv, LiveFilesExist, HeldFilesExist, HeldFiles, Outputs
<1> QED
  BY FileInvAlways, <1>1, PTL

\* A number NewFileNumber hands out is no live file's, no pending output's and no
\* log's that counts, after a recovery either (MarkFileNumberUsed).
THEOREM NumbersAreFresh == Spec => []FreshFileNumbers
<1>1. FileInv => FreshFileNumbers
  <2> SUFFICES ASSUME FileInv, up = "open",
                      NEW n \in Numbers(LiveFiles(current, reader, compact)) \cup pendingOutputs
                                  \cup {m \in DOMAIN logs : m >= logNumber}
               PROVE  n < nextFileNumber
    BY DEF FreshFileNumbers
  <2>1. /\ Below(HeldFiles, nextFileNumber)
        /\ \A m \in pendingOutputs \cup DOMAIN logs : m \in Nat /\ m < nextFileNumber
    BY DEF FileInv, CountsAreAhead
  <2> QED
    BY <2>1 DEF Below, HeldFiles, Numbers
<1> QED
  BY FileInvAlways, <1>1, PTL

-----------------------------------------------------------------------------
(* Databases that can be opened                                            *)

\* What is about to be written to the MANIFEST keeps the levels sorted.
EditIsSorted == edit # None /\ ~durable => LevelsAreSorted(ApplyEdit(current, edit))

\* A MANIFEST that was never synced belongs to a database nobody has written to.
UnsyncedIsEmpty == manifest.state \in {"none", "unsynced"} => history = <<>> /\ up # "open"

SoundInv == FileInv /\ EditIsSorted /\ UnsyncedIsEmpty

\* Writers and readers leave the MANIFEST and the edit alone.
LEMMA LogSteps ==
  ASSUME SoundInv, Write \/ Read
  PROVE  EditIsSorted' /\ UnsyncedIsEmpty'
<1>1. UNCHANGED <<edit, durable, current, manifest, up>>
  BY DEF Write, Enqueue, BeginWrite, ForceSwitch, RefuseWrite, AddRecord, SyncLog, ApplyWrite,
         AddRecordFails, SyncFails, NoSwitch, SwitchMemTable, FinishGroup, setVars, bgVars, diskVars,
         Read, StartRead, EndRead, GetSnapshot, ReleaseSnapshot, RequestCompactRange
<1>2. history' = history \/ up = "open"
  BY DEF Write, Enqueue, BeginWrite, ForceSwitch, RefuseWrite, AddRecord, SyncLog, ApplyWrite,
         AddRecordFails, SyncFails, FinishGroup, SoundInv, FileInv, Quiet,
         Read, StartRead, EndRead, GetSnapshot, ReleaseSnapshot, RequestCompactRange
<1> QED
  BY <1>1, <1>2 DEF SoundInv, EditIsSorted, UnsyncedIsEmpty

\* Tables at level 0 leave the other levels as they are.
LEMMA LevelZeroIsFree ==
  ASSUME NEW v, NEW e, e.deleted = {}, \A p \in e.added : p[1] = 0, LevelsAreSorted(v)
  PROVE  LevelsAreSorted(ApplyEdit(v, e))
<1>1. ASSUME NEW l \in Levels \ {0} PROVE ApplyEdit(v, e)[l] \subseteq v[l]
  BY DEF ApplyEdit
<1> QED
  BY <1>1 DEF LevelsAreSorted

Excused == \/ bgError /\ compact # None
           \/ manifest.state = "unsynced" /\ history = <<>>

\* Only the MANIFEST decides, since the files it names are there.
LEMMA StaysOpenable ==
  ASSUME FileInv', manifest'.state # "corrupt", LevelsAreSorted(manifest'.version)
  PROVE  Openable'
BY DEF FileInv, HeldFilesExist, HeldFiles, Openable

\* While the MANIFEST stays the same, so does the answer.
LEMMA SameManifest ==
  ASSUME FileInv', manifest' = manifest
  PROVE  Openable => Openable'
BY StaysOpenable DEF Openable

\* An edit that comes out as planned keeps the database one that can be opened;
\* while no error has come before it, so does one that does not.
LEMMA EditSteps ==
  ASSUME SoundInv, FileInv', EditWritten \/ EditFails
  PROVE  EditIsSorted' /\ UnsyncedIsEmpty' /\ (Openable => Openable' \/ Excused)
<1> USE DEF SoundInv, FileInv
<1>1. /\ edit # None /\ ~durable /\ up # "closed" /\ UNCHANGED <<up, history>>
      /\ (up = "open" \/ up = "recovering")
  BY DEF EditWritten, EditFails, Quiet
<1>2. LevelsAreSorted(ApplyEdit(current, edit))
  BY <1>1 DEF EditIsSorted
<1>3. EditIsSorted'
  BY <1>1 DEF EditWritten, EditFails, EditIsSorted
<1>4. DOMAIN manifest = {"state", "version", "log", "next", "last"}
  BY DEF Shapes
<1>5. CASE manifest' = Whole(ApplyEdit(current, edit), edit)
  <2>1. manifest'.state = "whole" /\ manifest'.version = ApplyEdit(current, edit)
    BY <1>5 DEF Whole
  <2> QED
    BY <1>2, <1>3, <2>1, StaysOpenable DEF UnsyncedIsEmpty
<1>6. CASE up = "open" /\ manifest' # Whole(ApplyEdit(current, edit), edit)
  <2>1. manifest.state \notin {"none", "unsynced"}
    BY <1>6 DEF UnsyncedIsEmpty
  <2>2. \/ manifest' = manifest
        \/ manifest' = Appended(manifest, edit)
        \/ manifest' = [manifest EXCEPT !.state = IF @ = "whole" THEN "torn" ELSE @]
    BY <1>6 DEF EditWritten, EditFails
  <2>3. CASE Synced
    <3>1. manifest.version = current /\ manifest.state = "whole"
      BY <1>1, <1>6, <2>3 DEF Synced
    <3>2. manifest' # Appended(manifest, edit)
      BY <1>6, <3>1 DEF Appended
    <3>3. manifest' = manifest \/ manifest' = [manifest EXCEPT !.state = "torn"]
      BY <2>2, <3>1, <3>2
    <3>4. manifest'.version = manifest.version /\ manifest'.state \in {"whole", "torn"}
      BY <1>4, <3>1, <3>3
    <3> QED
      BY <1>1, <1>3, <3>4, StaysOpenable DEF UnsyncedIsEmpty, Openable
  <2>4. CASE ~Synced
    <3>1. bgError /\ compact # None
      BY <1>1, <2>4 DEF ManifestIsCurrent, NoBackgroundWork
    <3>2. manifest'.state \notin {"none", "unsynced"}
      <4>1. CASE manifest' = manifest
        BY <2>1, <4>1
      <4>2. CASE manifest' = Appended(manifest, edit)
        BY <1>4, <4>2 DEF Appended, Whole
      <4>3. CASE manifest' = [manifest EXCEPT !.state = IF @ = "whole" THEN "torn" ELSE @]
        <5>1. manifest'.state = IF manifest.state = "whole" THEN "torn" ELSE manifest.state
          BY <1>4, <4>3
        <5> QED
          BY <2>1, <5>1
      <4> QED
        BY <2>2, <4>1, <4>2, <4>3
    <3> QED
      BY <1>3, <3>1, <3>2 DEF UnsyncedIsEmpty, Excused
  <2> QED
    BY <2>3, <2>4
<1>7. up = "recovering" => manifest' = Whole(ApplyEdit(current, edit), edit)
  BY DEF EditWritten, EditFails
<1> QED
  BY <1>1, <1>5, <1>6, <1>7

\* The steps of the background thread.
LEMMA BackgroundSteps ==
  ASSUME SoundInv, FileInv', Background
  PROVE  EditIsSorted' /\ UnsyncedIsEmpty' /\ (Openable => Openable' \/ Excused)
<1>1. CASE StartTrivialMove \/ FlushBuilt \/ FinishCompaction
  <2>1. UNCHANGED <<current, manifest, up, history>>
    BY <1>1 DEF StartTrivialMove, FlushBuilt, FinishCompaction, setVars, diskVars
  <2>2. LevelsAreSorted(ApplyEdit(current, edit'))
    BY <1>1 DEF StartTrivialMove, FlushBuilt, FinishCompaction, LogAndApply
  <2> QED
    BY <2>1, <2>2, SameManifest DEF EditIsSorted, UnsyncedIsEmpty, SoundInv
<1>2. CASE StartFlush \/ BuildTableFails \/ StartCompaction \/ BackgroundCallIdle \/ WriteOutput
             \/ OutputFails
  <2>1. UNCHANGED <<edit, durable, current, manifest, up, history>>
    BY <1>2 DEF StartFlush, BuildTableFails, StartCompaction, BackgroundCallIdle, WriteOutput,
                OutputFails, setVars, diskVars
  <2> QED
    BY <2>1, SameManifest DEF EditIsSorted, UnsyncedIsEmpty, SoundInv
<1>3. CASE InstallFlush \/ InstallMove \/ InstallCompaction
  <2>1. edit' = None /\ UNCHANGED <<manifest, up, history>>
    BY <1>3 DEF InstallFlush, InstallMove, InstallCompaction, InstallVersion, diskVars
  <2> QED
    BY <2>1, SameManifest DEF EditIsSorted, UnsyncedIsEmpty, SoundInv
<1> QED
  BY <1>1, <1>2, <1>3, EditSteps DEF Background

\* The death of the process.
LEMMA DeathSteps ==
  ASSUME SoundInv, FileInv', NEW kind, ProcessDies(kind), manifest' = manifest
  PROVE  EditIsSorted' /\ UnsyncedIsEmpty' /\ (Openable => Openable')
<1>1. edit' = None /\ up' = "closed"
  BY DEF ProcessDies
<1>2. history = <<>> => history' = <<>>
  BY AtPlacesOfEmpty DEF ProcessDies
<1> QED
  BY <1>1, <1>2, SameManifest DEF EditIsSorted, UnsyncedIsEmpty, SoundInv

\* The steps of DB::Open.
LEMMA OpenSteps ==
  ASSUME SoundInv, FileInv', Open
  PROVE  EditIsSorted' /\ UnsyncedIsEmpty' /\ (Openable => Openable')
<1>1. CASE NewDB
  <2>1. /\ up = "closed" /\ manifest.state = "none" /\ manifest' = [manifest EXCEPT !.state = "unsynced"]
        /\ UNCHANGED <<edit, durable, current, up, history>>
    BY <1>1 DEF NewDB, setVars, bgVars
  <2>2. manifest'.version = manifest.version /\ manifest'.state = "unsynced"
    BY <2>1 DEF SoundInv, FileInv, Shapes
  <2> QED
    BY <2>1, <2>2, StaysOpenable DEF EditIsSorted, UnsyncedIsEmpty, SoundInv, Openable
<1>2. CASE Recover
  <2>1. UNCHANGED <<manifest, history>> /\ up' = "recovering" /\ current' = manifest.version
    BY <1>2 DEF Recover
  <2>2. edit'.deleted = {} /\ \A p \in edit'.added : p[1] = 0
    BY <1>2 DEF Recover
  <2>3. LevelsAreSorted(ApplyEdit(current', edit'))
    BY <1>2, <2>1, <2>2, LevelZeroIsFree DEF Recover
  <2> QED
    BY <2>1, <2>3, SameManifest DEF EditIsSorted, UnsyncedIsEmpty, SoundInv
<1>3. CASE OpenInstalled
  <2>1. durable /\ edit' = None /\ manifest' = manifest /\ up = "recovering"
    BY <1>3 DEF OpenInstalled, InstallVersion
  <2>2. manifest.state = "whole"
    BY <2>1 DEF SoundInv, FileInv, ManifestIsCurrent, Synced, Quiet
  <2> QED
    BY <2>1, <2>2, SameManifest DEF EditIsSorted, UnsyncedIsEmpty
<1>4. CASE OpenFails
  BY <1>4, DeathSteps DEF OpenFails
<1> QED
  BY <1>1, <1>2, <1>3, <1>4 DEF Open

\* A new database, and one found on disk.
LEMMA SoundInit == Init => SoundInv
<1> SUFFICES ASSUME Init PROVE SoundInv
  OBVIOUS
<1>1. EditIsSorted
  BY DEF Init, EditIsSorted
<1>2. UnsyncedIsEmpty
  <2>1. CASE manifest = NoManifest /\ history = <<>>
    BY <2>1 DEF Init, UnsyncedIsEmpty
  <2>2. CASE manifest.state = "whole"
    BY <2>2 DEF UnsyncedIsEmpty
  <2> QED
    BY <2>1, <2>2 DEF Init
<1> QED
  BY <1>1, <1>2, FileInit DEF SoundInv

\* Every step.
LEMMA SoundNext ==
  ASSUME SoundInv, [Next]_vars
  PROVE  SoundInv' /\ (Openable => Openable' \/ Excused)
<1>1. FileInv'
  BY FilesNext DEF SoundInv
<1>2. CASE Write \/ Read
  <2>1. manifest' = manifest
    BY <1>2 DEF Write, Enqueue, BeginWrite, ForceSwitch, RefuseWrite, AddRecord, SyncLog, ApplyWrite,
                AddRecordFails, SyncFails, diskVars,
                Read, StartRead, EndRead, GetSnapshot, ReleaseSnapshot, RequestCompactRange
  <2> QED
    BY <1>1, <1>2, <2>1, LogSteps, SameManifest DEF SoundInv
<1>3. CASE Background
  BY <1>1, <1>3, BackgroundSteps DEF SoundInv
<1>4. CASE Open
  BY <1>1, <1>4, OpenSteps DEF SoundInv
<1>5. CASE Abort
  BY <1>1, <1>5, DeathSteps DEF SoundInv, Abort
<1>6. ASSUME NEW kind \in {"process", "machine"}, Crash(kind)
      PROVE  SoundInv' /\ (Openable => Openable' \/ Excused)
  <2>1. CASE manifest' = manifest
    BY <1>1, <1>6, <2>1, DeathSteps DEF SoundInv, Crash
  <2>2. CASE manifest' # manifest
    <3>1. manifest.state = "unsynced" /\ manifest' = [manifest EXCEPT !.state = "corrupt"]
      BY <1>6, <2>2 DEF Crash
    <3>2. manifest'.state = "corrupt"
      BY <3>1 DEF SoundInv, FileInv, Shapes
    <3>3. edit' = None
      BY <1>6 DEF Crash, ProcessDies
    <3> QED
      BY <1>1, <3>1, <3>2, <3>3 DEF SoundInv, UnsyncedIsEmpty, EditIsSorted, Excused
  <2> QED
    BY <2>1, <2>2
<1>7. CASE UNCHANGED vars
  <2>1. UNCHANGED <<edit, durable, current, manifest, up, history>>
    BY <1>7 DEF vars, setVars, bgVars, diskVars
  <2> QED
    BY <1>1, <2>1, SameManifest DEF SoundInv, EditIsSorted, UnsyncedIsEmpty
<1> QED
  BY <1>2, <1>3, <1>4, <1>5, <1>6, <1>7 DEF Next

\* A database stops being one DB::Open can open in two ways only: a crash of the
\* machine before the first MANIFEST was synced, while the database is empty; and a
\* memtable flushed within a compaction after an error of the MANIFEST.
THEOREM TheManifestBreaksOnlyAfterAnError == Spec => ManifestBreaksOnlyAfterAnError
<1>1. SoundInv /\ [Next]_vars => SoundInv'
  BY SoundNext
<1>2. SoundInv /\ [Next]_vars
        => [Openable /\ ~Openable' => \/ bgError /\ compact # None
                                      \/ manifest.state = "unsynced" /\ history = <<>>]_vars
  BY SoundNext DEF Excused
<1> QED
  BY SoundInit, <1>1, <1>2, PTL DEF Spec, ManifestBreaksOnlyAfterAnError

-----------------------------------------------------------------------------
(* Writers that wait                                                       *)

TablesAreFinite == IsFiniteSet(tables)

\* The directory grows by one table at a time, or by those of a recovery.
LEMMA TablesStayFinite ==
  ASSUME FileInv, TablesAreFinite, [Next]_vars
  PROVE  TablesAreFinite'
<1> USE DEF TablesAreFinite
<1>1. ASSUME NEW F, IsFiniteSet(F), tables' = Written(tables, F) PROVE IsFiniteSet(tables')
  <2>1. IsFiniteSet({f \in tables : f.number \notin Numbers(F)})
    BY FS_Subset
  <2> QED
    BY <1>1, <2>1, FS_Union DEF Written
<1>2. CASE FlushBuilt
  <2>1. IsFiniteSet(FlushOutput)
    BY FS_EmptySet, FS_Singleton DEF FlushOutput
  <2> QED
    BY <1>1, <1>2, <2>1 DEF FlushBuilt
<1>3. CASE WriteOutput
  <2>1. PICK f : tables' = Written(tables, {f})
    BY <1>3 DEF WriteOutput
  <2> QED
    BY <1>1, <2>1, FS_Singleton
<1>4. CASE Recover
  <2>1. IsFiniteSet(Recovered.files)
    BY RecoveryCounts DEF FileInv, ManifestCounts
  <2> QED
    BY <1>1, <1>4, <2>1 DEF Recover
<1>5. CASE ~FlushBuilt /\ ~WriteOutput /\ ~Recover
  <2>1. tables' \subseteq tables
    <3>1. CASE Write
      BY <3>1 DEF Write, Enqueue, BeginWrite, ForceSwitch, RefuseWrite, AddRecord, SyncLog, ApplyWrite,
                  AddRecordFails, SyncFails, diskVars
    <3>2. CASE Background
      BY <1>5, <3>2 DEF Background, StartFlush, BuildTableFails, StartTrivialMove, StartCompaction,
                        BackgroundCallIdle, FinishCompaction, OutputFails, EditWritten, EditFails,
                        InstallFlush, InstallMove, InstallCompaction, DeleteObsoleteFiles, diskVars
    <3>3. CASE Read
      BY <3>3 DEF Read, StartRead, EndRead, GetSnapshot, ReleaseSnapshot, RequestCompactRange, diskVars
    <3>4. CASE Open
      BY <1>5, <3>4 DEF Open, NewDB, OpenInstalled, OpenFails, ProcessDies, DeleteObsoleteFiles
    <3>5. CASE Abort \/ (\E kind \in {"process", "machine"} : Crash(kind)) \/ UNCHANGED vars
      BY <3>5 DEF Abort, Crash, ProcessDies, vars, diskVars
    <3> QED
      BY <3>1, <3>2, <3>3, <3>4, <3>5 DEF Next
  <2> QED
    BY <2>1, FS_Subset
<1> QED
  BY <1>2, <1>3, <1>4, <1>5

\* So a writer kept waiting by MakeRoomForWrite waits for a thread that runs: the
\* trigger of compactions is reached before the limit that stops writers.
THEOREM StalledWritersAreServed == Spec => []StalledWriterIsServed
<1>1. ASSUME WorkIsScheduled, FileInv, TablesAreFinite
      PROVE  StalledWriterIsServed
  <2> SUFFICES ASSUME NEW w \in Writers, AtHead(w), ~bgError,
                      imm # None \/ Cardinality(current[0]) >= L0StopWritesTrigger
               PROVE  scheduled
    BY DEF StalledWriterIsServed
  <2>1. up = "open"
    BY DEF AtHead
  <2>2. CASE imm # None
    BY <1>1, <2>1, <2>2 DEF WorkIsScheduled, NeedsWork
  <2>3. CASE Cardinality(current[0]) >= L0StopWritesTrigger
    <3>1. 0 \in 0..(NumLevels - 2) /\ 0 \in Levels
      BY VersionSetAssumption DEF Levels
    <3>2. current[0] \subseteq tables
      BY <1>1, <3>1 DEF FileInv, HeldFilesExist, HeldFiles, LiveFiles, FilesOf
    <3>3. Cardinality(current[0]) \in Nat
      <4>1. IsFiniteSet(current[0])
        BY <1>1, <3>2, FS_Subset DEF TablesAreFinite
      <4> QED
        BY <4>1, FS_CardinalityType
    <3>4. Cardinality(current[0]) >= L0CompactionTrigger
      BY <2>3, <3>3, DBImplAssumption, VersionSetAssumption
    <3>5. 0 \in FullLevels(current)
      BY <3>1, <3>4 DEF FullLevels
    <3> QED
      BY <1>1, <2>1, <3>5 DEF WorkIsScheduled, NeedsWork
  <2> QED
    BY <2>2, <2>3
<1>2. Init => TablesAreFinite
  BY FS_EmptySet, InitialDatabasesAssumption DEF Init, TablesAreFinite
<1>3. FileInv /\ TablesAreFinite /\ [Next]_vars => TablesAreFinite'
  BY TablesStayFinite
<1>4. Spec => []TablesAreFinite
  BY <1>2, <1>3, FileInvAlways, PTL DEF Spec
<1> QED
  BY <1>1, <1>4, FileInvAlways, WorkIsAlwaysScheduled, PTL

-----------------------------------------------------------------------------
(* Types                                                                   *)

\* A table has entries, finitely many, and its metadata are those of its entries.
GoodTable(f) ==
  /\ f.number \in Nat /\ f.entries # {} /\ IsFiniteSet(f.entries) /\ AreEntries(f.entries)
  /\ f = File(f.number, f.entries)

MemTable(m) == IsFiniteSet(m) /\ AreEntries(m)

Operations == UNION {Range(Batch[w]) : w \in Writers}

\* The records whose entries have sequence numbers below b.
RecordsTo(b) ==
  {r \in [id : Writers \cup {None}, seq : Nat, ops : Seq(Operations)] : r.seq + Len(r.ops) <= b}

WritersTyped ==
  /\ writers \in Seq(Writers)
  /\ status \in [Writers -> {"idle", "queued", "ok", "failed", "gone"}]
  /\ group # None => /\ group = [size |-> group.size, phase |-> group.phase]
                     /\ group.size \in 1..Len(writers)
                     /\ group.phase \in {"logging", "syncing", "applying"}

MemTyped == MemTable(mem) /\ (imm # None => MemTable(imm))

CountsTyped ==
  /\ logfileNumber \in Nat /\ logNumber \in Nat /\ nextFileNumber \in Nat /\ lastSequence \in Nat
  /\ \A s \in snapshots : s.seq \in 0..lastSequence
  /\ up # "open" => snapshots = {}
  /\ reader # None => reader.seq \in 0..lastSequence
  /\ manifest.last \in Nat
  /\ edit # None => edit.last \in Nat

VersionsTyped ==
  /\ DOMAIN current = Levels /\ DOMAIN manifest.version = Levels
  /\ reader # None => DOMAIN reader.version = Levels
  /\ manifest.state \in {"none", "unsynced", "whole", "torn", "corrupt"}
  /\ \A w \in worn : \E l \in Levels : l + 1 \in Levels /\ \E f \in current[l] : w = <<l, f>>

WorkTyped ==
  /\ bgError \in BOOLEAN /\ scheduled \in BOOLEAN /\ durable \in BOOLEAN
  /\ manual = None \/ (manual \in Levels /\ manual + 1 \in Levels)
  /\ compact # None => MemTable(compact.todo)
  /\ flush # None => imm # None
  /\ pendingOutputs \subseteq Nat

\* The logs hold records, and so their sequence numbers have a bound.
LogsHoldRecords ==
  \E b \in Nat : \A n \in DOMAIN logs : /\ logs[n].records \in Seq(RecordsTo(b))
                                        /\ logs[n].synced \in 0..Len(logs[n].records)

TablesAreGood == \A f \in tables : GoodTable(f)

UsedTyped == used \in [Events -> Nat]

TypeInv == /\ WritersTyped /\ MemTyped /\ CountsTyped /\ VersionsTyped /\ WorkTyped
           /\ LogsHoldRecords /\ TablesAreGood /\ UsedTyped

\* The groups of writes are sequences of operations.
LEMMA OpsAreOperations ==
  ASSUME writers \in Seq(Writers), NEW n \in 0..Len(writers)
  PROVE  OpsOf(n) \in Seq(Operations)
<1> DEFINE F(f) == f = [i \in 0..n |-> IF i = 0 THEN <<>> ELSE f[i - 1] \o Batch[writers[i]]]
           c == CHOOSE f : F(f)
           P == {i \in 0..n : c[i] \in Seq(Operations)}
<1>1. n \in Nat /\ \A i \in 1..n : writers[i] \in Writers
  OBVIOUS
<1>2. OpsOf(n) = c[n]
  BY DEF OpsOf
<1>3. \E f : F(f)
  <2> DEFINE D(a, i) == a \o Batch[writers[i]]
             b == <<>>
             R(f, N) == f = [i \in 0..N |-> IF i = 0 THEN b ELSE D(f[i - 1], i)]
             Q == {N \in 0..n : \E f : R(f, N)}
  <2> HIDE DEF D, b
  <2>1. 0 \in Q
    <3> DEFINE g == [i \in 0..0 |-> b]
    <3>1. R(g, 0)
      OBVIOUS
    <3>2. \E f : R(f, 0)
      <4> HIDE DEF g, R
      <4> QED
        BY <3>1
    <3> QED
      BY <1>1, <3>2
  <2>2. ASSUME NEW N \in 1..n, N - 1 \in Q PROVE N \in Q
    <3>1. PICK f : R(f, N - 1)
      BY <2>2
    <3> DEFINE g == [i \in 0..N |-> IF i = N THEN D(f[N - 1], N) ELSE f[i]]
    <3>2. \A i \in 0..N : i # 0 => g[i - 1] = f[i - 1]
      OBVIOUS
    <3>3. \A i \in 0..(N - 1) : f[i] = IF i = 0 THEN b ELSE D(f[i - 1], i)
      BY <3>1
    <3>4. \A i \in 0..N : g[i] = IF i = 0 THEN b ELSE D(g[i - 1], i)
      BY <3>2, <3>3
    <3>5. R(g, N)
      <4>1. g = [i \in 0..N |-> g[i]]
        OBVIOUS
      <4> HIDE DEF g
      <4> QED
        BY <3>4, <4>1
    <3>6. \E h : R(h, N)
      <4> HIDE DEF g, R
      <4> QED
        BY <3>5
    <3> QED
      BY <3>6
  <2>3. n \in Q
    <3> HIDE DEF Q
    <3>1. 0..n \subseteq Q
      BY <1>1, <2>1, <2>2, UpTo
    <3> QED
      BY <1>1, <3>1
  <2>4. PICK f : R(f, n)
    BY <2>3
  <2> QED
    BY <2>4 DEF D, b
<1>4. F(c)
  <2> HIDE DEF F
  <2> QED
    BY <1>3
<1> HIDE DEF c
<1>5. c[0] = <<>>
  BY <1>1, <1>4
<1>6. ASSUME NEW i \in 1..n PROVE c[i] = c[i - 1] \o Batch[writers[i]]
  <2>1. i \in 0..n /\ i # 0
    BY <1>1
  <2> QED
    BY <1>4, <2>1
<1> HIDE DEF F
<1>7. 0 \in P
  <2>1. 0 \in 0..n
    BY <1>1
  <2>2. <<>> \in Seq(Operations)
    OBVIOUS
  <2> QED
    BY <1>5, <2>1, <2>2
<1>8. ASSUME NEW i \in 1..n, i - 1 \in P PROVE i \in P
  <2> DEFINE w == writers[i]
  <2>1. w \in Writers
    BY <1>1
  <2> HIDE DEF w
  <2>2. Batch[w] \in Seq(Range(Batch[w])) /\ Range(Batch[w]) \subseteq Operations
    BY <2>1, BatchAssumption DEF Operations
  <2>3. Batch[w] \in Seq(Operations)
    <3>1. \A S, T : S \subseteq T => Seq(S) \subseteq Seq(T)
      OBVIOUS
    <3> QED
      BY <2>2, <3>1
  <2>4. c[i] = c[i - 1] \o Batch[w]
    BY <1>6 DEF w
  <2>5. c[i - 1] \in Seq(Operations)
    BY <1>8
  <2>6. c[i - 1] \o Batch[w] \in Seq(Operations)
    <3> DEFINE a == c[i - 1]
               d == Batch[w]
               S == Operations
    <3>1. a \in Seq(S) /\ d \in Seq(S)
      BY <2>3, <2>5
    <3> HIDE DEF a, d, S
    <3>2. a \o d \in Seq(S)
      BY <3>1
    <3> QED
      BY <3>2 DEF a, d, S
  <2>7. c[i] \in Seq(Operations)
    BY <2>4, <2>6
  <2>8. i \in 0..n
    BY <1>1
  <2> QED
    BY <2>7, <2>8
<1>9. n \in P
  <2>1. 0..n \subseteq P
    <3> HIDE DEF P
    <3> QED
      BY <1>1, <1>7, <1>8, UpTo
  <2> QED
    BY <1>1, <2>1
<1> QED
  BY <1>2, <1>9

\* An operation is on a key.
LEMMA OperationsHaveKeys ==
  ASSUME NEW op \in Operations
  PROVE  op.key \in Keys
<1>1. PICK w \in Writers : op \in Range(Batch[w])
  BY DEF Operations
<1>2. PICK i \in DOMAIN Batch[w] : op = Batch[w][i]
  BY <1>1 DEF Range
<1> QED
  BY <1>2, BatchAssumption

\* The entries of a record are finitely many, and numbered from its number on.
LEMMA RecordEntries ==
  ASSUME NEW b \in Nat, NEW r \in RecordsTo(b)
  PROVE  MemTable(EntriesOfRecord(r)) /\ \A e \in EntriesOfRecord(r) : e.seq <= b
<1> DEFINE n == Len(r.ops)
           entry(i) == [key |-> r.ops[i].key, seq |-> r.seq + i - 1, val |-> r.ops[i].val]
<1>1. r.seq \in Nat /\ r.ops \in Seq(Operations) /\ r.seq + n <= b
  BY DEF RecordsTo
<1>2. n \in Nat /\ DOMAIN r.ops = 1..n
  BY <1>1
<1>3. EntriesOfRecord(r) = {entry(i) : i \in 1..n}
  BY <1>2 DEF EntriesOfRecord
<1>4. \A i \in 1..n : r.ops[i] \in Operations
  BY <1>1
<1> HIDE DEF n
<1>5. ASSUME NEW e \in EntriesOfRecord(r) PROVE e.key \in Keys /\ e.seq \in Nat /\ e.seq <= b
  <2>1. PICK i \in 1..n : e = entry(i)
    BY <1>3
  <2>2. e.key = r.ops[i].key /\ e.seq = r.seq + i - 1
    BY <2>1
  <2> QED
    BY <1>1, <1>2, <1>4, <2>2, OperationsHaveKeys
<1>6. IsFiniteSet({entry(i) : i \in 1..n})
  <2> DEFINE T == {entry(i) : i \in 1..n}
             g == [i \in 1..n |-> entry(i)]
  <2>1. g \in Surjection(1..n, T)
    <3> HIDE DEF entry
    <3> QED
      BY DEF Surjection
  <2>2. IsFiniteSet(1..n)
    BY <1>2, FS_Interval
  <2> QED
    <3> HIDE DEF T, g
    <3>1. IsFiniteSet(T)
      BY <2>1, <2>2, FS_Surjection
    <3> QED
      BY <3>1 DEF T
<1> HIDE DEF entry
<1> QED
  BY <1>3, <1>5, <1>6 DEF MemTable, AreEntries

\* There is a longest group.
LEMMA GroupsHaveSizes ==
  ASSUME writers \in Seq(Writers), writers # <<>>
  PROVE  BuildBatchGroup \in 1..Len(writers)
<1> DEFINE fits(n) == \A i \in 2..n : /\ Sync[writers[i]] => Sync[Head1]
                                      /\ Batch[writers[i]] # <<>> => Len(OpsOf(i)) <= MaxGroupSize
           S == {n \in 1..Len(writers) : fits(n)}
<1>1. Len(writers) \in Nat /\ 1 \in 1..Len(writers)
  OBVIOUS
<1>2. fits(1)
  OBVIOUS
<1>3. S \in SUBSET (0..Len(writers)) /\ S # {}
  <2> HIDE DEF fits
  <2> QED
    BY <1>1, <1>2
<1> HIDE DEF fits
<1>4. Max2(S) \in S /\ \A k \in S : k <= Max2(S)
  <2> HIDE DEF S
  <2> QED
    BY <1>1, <1>3, Greatest
<1>5. \E n \in 1..Len(writers) : fits(n) /\ \A m \in 1..Len(writers) : fits(m) => m <= n
  BY <1>4
<1>6. BuildBatchGroup = CHOOSE n \in 1..Len(writers) : fits(n) /\ \A m \in 1..Len(writers) : fits(m) => m <= n
  BY DEF BuildBatchGroup, fits
<1> QED
  BY <1>5, <1>6

GoodLog(log, b) == log.records \in Seq(RecordsTo(b)) /\ log.synced \in 0..Len(log.records)

\* The bound may grow.
LEMMA LargerBound ==
  ASSUME NEW b \in Nat, NEW d \in Nat, b <= d, NEW log, GoodLog(log, b)
  PROVE  GoodLog(log, d)
<1>1. RecordsTo(b) \subseteq RecordsTo(d)
  BY DEF RecordsTo
<1>2. \A S, T : S \subseteq T => Seq(S) \subseteq Seq(T)
  OBVIOUS
<1> QED
  BY <1>1, <1>2 DEF GoodLog

\* A new log file, and logs deleted.
LEMMA NewLogIsGood ==
  ASSUME LogsHoldRecords, NEW n, logs' = WithLog(n)
  PROVE  LogsHoldRecords'
<1>1. PICK b \in Nat : \A k \in DOMAIN logs : GoodLog(logs[k], b)
  BY DEF LogsHoldRecords, GoodLog
<1>2. GoodLog(EmptyLog, b)
  <2>1. EmptyLog.records = <<>> /\ EmptyLog.synced = 0
    BY DEF EmptyLog
  <2>2. <<>> \in Seq(RecordsTo(b)) /\ 0 \in 0..Len(<<>>)
    OBVIOUS
  <2> QED
    BY <2>1, <2>2 DEF GoodLog
<1>3. \A k \in DOMAIN logs' : GoodLog(logs'[k], b)
  BY <1>1, <1>2 DEF WithLog
<1> QED
  BY <1>3 DEF LogsHoldRecords, GoodLog

LEMMA FewerLogsAreGood ==
  ASSUME LogsHoldRecords, NEW S \in SUBSET DOMAIN logs, logs' = Restrict2(logs, S)
  PROVE  LogsHoldRecords'
BY DEF LogsHoldRecords, Restrict2

\* A record more in a log file.
LEMMA AppendedLogIsGood ==
  ASSUME LogsTyped, LogsHoldRecords, NEW d \in Nat, NEW r \in RecordsTo(d), NEW n,
         logs' = [logs EXCEPT ![n].records = Append(@, r)]
  PROVE  LogsHoldRecords'
<1>1. PICK b \in Nat : \A k \in DOMAIN logs : GoodLog(logs[k], b)
  BY DEF LogsHoldRecords, GoodLog
<1>2. b + d \in Nat /\ r \in RecordsTo(b + d) /\ \A k \in DOMAIN logs : GoodLog(logs[k], b + d)
  BY <1>1, LargerBound DEF RecordsTo
<1>3. PICK S : logs \in [DOMAIN logs -> [records : Seq(S), synced : Nat]]
  BY DEF LogsTyped
<1>4. DOMAIN logs' = DOMAIN logs
  OBVIOUS
<1>5. ASSUME NEW k \in DOMAIN logs PROVE GoodLog(logs'[k], b + d)
  <2>1. logs[k] = [records |-> logs[k].records, synced |-> logs[k].synced]
    BY <1>3
  <2>2. CASE k # n
    <3>1. logs'[k] = logs[k]
      BY <2>2
    <3> QED
      BY <1>2, <3>1
  <2>3. CASE k = n
    <3> DEFINE s == logs[k].records
               T == RecordsTo(b + d)
    <3>1. logs'[k] = [records |-> Append(s, r), synced |-> logs[k].synced]
      BY <2>1, <2>3
    <3>2. s \in Seq(T) /\ r \in T /\ logs[k].synced \in 0..Len(s)
      BY <1>2 DEF GoodLog
    <3> HIDE DEF s, T
    <3>3. Append(s, r) \in Seq(T) /\ Len(Append(s, r)) = Len(s) + 1 /\ Len(s) \in Nat
      BY <3>2
    <3> DEFINE a == Append(s, r)
    <3>4. logs[k].synced \in 0..Len(a)
      <4>1. Len(a) = Len(s) + 1
        BY <3>3
      <4> HIDE DEF a
      <4> QED
        BY <3>2, <3>3, <4>1
    <3>5. logs'[k].records = a /\ logs'[k].synced = logs[k].synced
      BY <3>1
    <3>6. a \in Seq(T)
      BY <3>3
    <3> HIDE DEF a
    <3> QED
      BY <3>4, <3>5, <3>6 DEF GoodLog, T
  <2> QED
    BY <2>2, <2>3
<1>6. \A k \in DOMAIN logs' : GoodLog(logs'[k], b + d)
  BY <1>4, <1>5
<1> QED
  BY <1>2, <1>6 DEF LogsHoldRecords, GoodLog

\* A log file synced.
LEMMA SyncedLogIsGood ==
  ASSUME LogsTyped, LogsHoldRecords, NEW n,
         logs' = [logs EXCEPT ![n].synced = Len(logs[n].records)]
  PROVE  LogsHoldRecords'
<1>1. PICK b \in Nat : \A k \in DOMAIN logs : GoodLog(logs[k], b)
  BY DEF LogsHoldRecords, GoodLog
<1>2. PICK S : logs \in [DOMAIN logs -> [records : Seq(S), synced : Nat]]
  BY DEF LogsTyped
<1>3. DOMAIN logs' = DOMAIN logs
  OBVIOUS
<1>4. ASSUME NEW k \in DOMAIN logs PROVE GoodLog(logs'[k], b)
  <2>1. logs[k] = [records |-> logs[k].records, synced |-> logs[k].synced]
    BY <1>2
  <2>2. CASE k # n
    <3>1. logs'[k] = logs[k]
      BY <2>2
    <3> QED
      BY <1>1, <3>1
  <2>3. CASE k = n
    <3>1. logs'[k] = [records |-> logs[k].records, synced |-> Len(logs[k].records)]
      BY <2>1, <2>3
    <3>2. logs[k].records \in Seq(RecordsTo(b))
      BY <1>1 DEF GoodLog
    <3>3. Len(logs[k].records) \in 0..Len(logs[k].records)
      BY <3>2
    <3> QED
      BY <3>1, <3>2, <3>3 DEF GoodLog
  <2> QED
    BY <2>2, <2>3
<1> QED
  BY <1>3, <1>4 DEF LogsHoldRecords, GoodLog

\* What a crash leaves.
LEMMA RemainsAreGood ==
  ASSUME LogsHoldRecords, NEW kind, ProcessDies(kind)
  PROVE  LogsHoldRecords'
<1>1. PICK b \in Nat : \A k \in DOMAIN logs : GoodLog(logs[k], b)
  BY DEF LogsHoldRecords, GoodLog
<1>2. DOMAIN logs' = DOMAIN logs /\ \A k \in DOMAIN logs : logs'[k] \in Remains(logs[k], kind)
  BY DEF ProcessDies
<1>3. ASSUME NEW k \in DOMAIN logs PROVE GoodLog(logs'[k], b)
  <2> DEFINE log == logs[k]
             s == log.records
             n == Len(s)
             T == RecordsTo(b)
  <2>1. s \in Seq(T) /\ log.synced \in 0..n
    BY <1>1 DEF GoodLog
  <2>2. \E end \in (IF kind = "machine" THEN log.synced ELSE n)..n : \E skip :
               logs'[k] = LeftOf(log, kind, end, skip)
    BY <1>2 DEF Remains
  <2>9. PICK end \in (IF kind = "machine" THEN log.synced ELSE n)..n :
               \E skip : logs'[k] = LeftOf(log, kind, end, skip)
    BY <2>2
  <2>10. PICK skip : logs'[k] = LeftOf(log, kind, end, skip)
    BY <2>9
  <2> DEFINE X == Torn(log) \cup skip
             R == (1..(IF kind = "machine" THEN end ELSE log.synced)) \ X
             Q == (1..end) \ X
  <2>3. logs'[k] = [records |-> AtPlaces(s, Q), synced |-> Len(AtPlaces(s, R))]
    BY <2>10 DEF LeftOf
  <2>4. R \subseteq Q
    <3>1. n \in Nat
      BY <2>1
    <3>2. kind # "machine" => end = n /\ log.synced <= end
      BY <2>1, <2>9, <3>1
    <3> HIDE DEF X
    <3> QED
      BY <2>1, <2>9, <3>1, <3>2
  <2> HIDE DEF s, R, Q, T
  <2>5. AtPlaces(s, Q) \in Seq(T) /\ AtPlaces(s, R) \in Seq(T)
    BY <2>1, AtPlacesInSeq
  <2>6. Len(AtPlaces(s, R)) <= Len(AtPlaces(s, Q))
    BY <2>1, <2>4, MorePlaces
  <2>7. Len(AtPlaces(s, R)) \in 0..Len(AtPlaces(s, Q))
    BY <2>5, <2>6
  <2>8. logs'[k].records = AtPlaces(s, Q) /\ logs'[k].synced = Len(AtPlaces(s, R))
    BY <2>3
  <2> QED
    BY <2>5, <2>7, <2>8 DEF GoodLog, T
<1> QED
  BY <1>2, <1>3 DEF LogsHoldRecords, GoodLog

\* The tables a recovery writes are good, and so is the sequence number it finds.
LEMMA RecoveredTables ==
  ASSUME LogsTyped, LogsBounded, manifest.next \in Nat, manifest.last \in Nat, LogsHoldRecords
  PROVE  /\ \A f \in Recovered.files : GoodTable(f)
         /\ Max2({manifest.last} \cup {e.seq : e \in EntriesOf(Recovered.files)}) \in Nat
         /\ \A s \in {manifest.last} \cup {e.seq : e \in EntriesOf(Recovered.files)} :
               s <= Max2({manifest.last} \cup {e.seq : e \in EntriesOf(Recovered.files)})
<1>1. PICK b \in Nat : \A k \in DOMAIN logs : logs[k].records \in Seq(RecordsTo(b))
  BY DEF LogsHoldRecords
<1> DEFINE S == RecordsTo(b)
           X == UNION {EntriesOfRecord(r) : r \in S}
           T == {m \in SUBSET X : MemTable(m) /\ \A e \in m : e.seq <= b}
<1>2. {} \in T
  BY FS_EmptySet DEF MemTable, AreEntries
<1>3. ASSUME NEW m \in T, NEW r \in S PROVE m \cup EntriesOfRecord(r) \in T
  <2>1. MemTable(EntriesOfRecord(r)) /\ \A e \in EntriesOfRecord(r) : e.seq <= b
    BY RecordEntries
  <2>2. EntriesOfRecord(r) \subseteq X
    OBVIOUS
  <2> HIDE DEF X
  <2>3. IsFiniteSet(m \cup EntriesOfRecord(r))
    BY <2>1, FS_Union DEF MemTable
  <2> QED
    BY <2>1, <2>2, <2>3 DEF MemTable, AreEntries
<1>4. \A k \in DOMAIN logs : MemTablesOf(logs[k].records) \in Seq(T \ {{}})
  <2> HIDE DEF T
  <2> QED
    BY <1>1, <1>2, <1>3, MemTablesInSeq
<1> DEFINE F(f) == f = [n \in 0..LastLog |->
                          RecoverUpTo(IF n = 0 THEN [files |-> {}, next |-> manifest.next + 1]
                                      ELSE f[n - 1], n)]
           c == CHOOSE f : F(f)
           Good(f) == /\ f.number \in Nat /\ f = File(f.number, f.entries)
                      /\ f.entries \in T \ {{}}
           P == {n \in 0..LastLog : c[n].next \in Nat /\ \A f \in c[n].files : Good(f)}
<1>5. LastLog \in Nat
  BY LastLogIsLast
<1>6. Recovered = c[LastLog]
  BY DEF Recovered
<1>7. \E f : F(f)
  BY <1>5, RecoveredExists
<1>8. F(c)
  <2> HIDE DEF F
  <2> QED
    BY <1>7
<1> HIDE DEF c, T
<1>9. ASSUME NEW acc, acc.next \in Nat, \A f \in acc.files : Good(f), NEW n \in 0..LastLog
      PROVE  LET a == RecoverUpTo(acc, n) IN a.next \in Nat /\ \A f \in a.files : Good(f)
  <2> DEFINE ms == MemTablesOf(logs[n].records)
             r == RecoverLogFile(acc, n)
  <2>1. CASE ~(n \in DOMAIN logs /\ n >= manifest.log)
    <3>1. RecoverUpTo(acc, n) = acc
      BY <2>1 DEF RecoverUpTo
    <3> QED
      BY <1>9, <3>1
  <2>2. CASE n \in DOMAIN logs /\ n >= manifest.log
    <3>1. RecoverUpTo(acc, n) = r
      BY <2>2 DEF RecoverUpTo
    <3>2. ms \in Seq(T \ {{}})
      BY <1>4, <2>2
    <3>3. /\ r.files = acc.files \cup {File(acc.next + i - 1, ms[i]) : i \in DOMAIN ms}
          /\ r.next = IF acc.next + Len(ms) <= n THEN n + 1 ELSE acc.next + Len(ms)
      BY DEF RecoverLogFile, WithTables
    <3> HIDE DEF ms, r
    <3>4. Len(ms) \in Nat /\ DOMAIN ms = 1..Len(ms) /\ \A i \in 1..Len(ms) : ms[i] \in T \ {{}}
      BY <3>2
    <3>5. r.next \in Nat
      BY <1>5, <1>9, <3>3, <3>4
    <3>6. ASSUME NEW i \in 1..Len(ms) PROVE Good(File(acc.next + i - 1, ms[i]))
      <4> DEFINE k == acc.next + i - 1
      <4>1. k \in Nat
        BY <1>9, <3>4
      <4>2. File(k, ms[i]).number = k /\ File(k, ms[i]).entries = ms[i]
        BY DEF File
      <4> HIDE DEF k
      <4>3. Good(File(k, ms[i]))
        BY <3>4, <4>1, <4>2
      <4> QED
        BY <4>3 DEF k
    <3> HIDE DEF Good
    <3> QED
      BY <1>9, <3>1, <3>3, <3>4, <3>5, <3>6
  <2> QED
    BY <2>1, <2>2
<1> HIDE DEF Good
<1>10. 0 \in P
  <2> DEFINE a == [files |-> {}, next |-> manifest.next + 1]
  <2>1. 0 \in 0..LastLog
    BY <1>5
  <2>2. c[0] = RecoverUpTo(a, 0)
    BY <1>8, <2>1
  <2>3. a.next \in Nat /\ a.files = {}
    OBVIOUS
  <2> HIDE DEF a
  <2> QED
    BY <1>9, <2>1, <2>2, <2>3
<1>11. ASSUME NEW n \in 1..LastLog, n - 1 \in P PROVE n \in P
  <2>1. n \in 0..LastLog /\ n # 0
    BY <1>5
  <2>2. c[n] = RecoverUpTo(c[n - 1], n)
    BY <1>8, <2>1
  <2> QED
    BY <1>9, <1>11, <2>1, <2>2
<1> HIDE DEF F
<1>12. LastLog \in P
  <2>1. 0..LastLog \subseteq P
    <3> HIDE DEF P
    <3> QED
      BY <1>5, <1>10, <1>11, UpTo
  <2> QED
    BY <1>5, <2>1
<1>13. ASSUME NEW f \in Recovered.files PROVE GoodTable(f) /\ \A e \in f.entries : e.seq \in 0..b
  <2>1. Good(f)
    BY <1>6, <1>12
  <2> QED
    BY <2>1 DEF Good, T, GoodTable, MemTable, AreEntries
<1>14. /\ Max2({manifest.last} \cup {e.seq : e \in EntriesOf(Recovered.files)}) \in Nat
       /\ \A s \in {manifest.last} \cup {e.seq : e \in EntriesOf(Recovered.files)} :
             s <= Max2({manifest.last} \cup {e.seq : e \in EntriesOf(Recovered.files)})
  <2> DEFINE Q == {manifest.last} \cup {e.seq : e \in EntriesOf(Recovered.files)}
  <2>1. \A e \in EntriesOf(Recovered.files) : e.seq \in 0..b
    BY <1>13 DEF EntriesOf
  <2> DEFINE N == b + manifest.last
  <2>2. Q \in SUBSET (0..N) /\ Q # {} /\ N \in Nat
    BY <2>1
  <2> HIDE DEF Q, N
  <2>3. Max2(Q) \in Q /\ \A s \in Q : s <= Max2(Q)
    BY <2>2, Greatest
  <2> DEFINE x == Max2(Q)
  <2>4. x \in 0..N
    BY <2>2, <2>3
  <2> HIDE DEF x
  <2>5. x \in Nat
    BY <2>2, <2>4
  <2> QED
    BY <2>3, <2>5 DEF Q, x
<1> QED
  BY <1>13, <1>14

-----------------------------------------------------------------------------
(* Types: the writers, the memtables and the events                        *)

\* Writers are answered and leave the queue.
LEMMA AnswerTyped ==
  ASSUME WritersTyped, NEW n \in 1..Len(writers), NEW answer \in {"ok", "failed"},
         Answer(n, answer), group' = None
  PROVE  WritersTyped'
<1> DEFINE N == Len(writers)
<1>1. writers' = SubSeq(writers, n + 1, N)
  BY DEF Answer
<1>2. writers \in Seq(Writers) /\ N \in Nat /\ n \in 1..N
  BY DEF WritersTyped
<1>3. writers' \in Seq(Writers)
  <2>1. n + 1 \in 1..(N + 1)
    BY <1>2
  <2>2. \A i \in (n + 1)..N : writers[i] \in Writers
    BY <1>2
  <2> HIDE DEF N
  <2>3. SubSeq(writers, n + 1, N) = [i \in 1..(N - (n + 1) + 1) |-> writers[i + (n + 1) - 1]]
    BY <1>2
  <2>4. SubSeq(writers, n + 1, N) \in Seq(Writers)
    BY <1>2, <2>1, <2>2, <2>3
  <2> QED
    BY <1>1, <2>4
<1>4. status' \in [Writers -> {"idle", "queued", "ok", "failed", "gone"}]
  BY DEF WritersTyped, Answer
<1> QED
  BY <1>3, <1>4 DEF WritersTyped

\* The steps of a group at the head of the queue.
LEMMA PhaseTyped ==
  ASSUME WritersTyped, group # None, NEW p \in {"logging", "syncing", "applying"},
         group' = [group EXCEPT !.phase = p], UNCHANGED <<writers, status>>
  PROVE  WritersTyped'
<1>1. group = [size |-> group.size, phase |-> group.phase]
  BY DEF WritersTyped
<1>2. group' = [size |-> group.size, phase |-> p]
  BY <1>1
<1>3. group'.size = group.size /\ group'.phase = p
  BY <1>2
<1> QED
  BY <1>2, <1>3 DEF WritersTyped

\* Every step keeps the types of the queue.
LEMMA WritersKeepTypes ==
  ASSUME WritersTyped, [Next]_vars
  PROVE  WritersTyped'
<1>1. ASSUME NEW w \in Writers, Enqueue(w) PROVE WritersTyped'
  <2>1. writers' = Append(writers, w) /\ status' = [status EXCEPT ![w] = "queued"] /\ group' = group
    BY <1>1 DEF Enqueue
  <2>2. writers' \in Seq(Writers) /\ Len(writers') = Len(writers) + 1 /\ Len(writers) \in Nat
    BY <2>1 DEF WritersTyped
  <2>3. status' \in [Writers -> {"idle", "queued", "ok", "failed", "gone"}]
    BY <2>1 DEF WritersTyped
  <2>4. group # None => group.size \in 1..Len(writers')
    BY <2>2 DEF WritersTyped
  <2> QED
    BY <2>1, <2>2, <2>3, <2>4 DEF WritersTyped
<1>2. ASSUME NEW w \in Writers, BeginWrite(w) PROVE WritersTyped'
  <2>1. BuildBatchGroup \in 1..Len(writers)
    BY <1>2, GroupsHaveSizes DEF BeginWrite, AtHead, WritersTyped
  <2>2. /\ UNCHANGED <<writers, status>>
        /\ group' = [size |-> BuildBatchGroup, phase |-> "logging"]
    BY <1>2 DEF BeginWrite
  <2> HIDE DEF BuildBatchGroup
  <2> QED
    BY <2>1, <2>2 DEF WritersTyped
<1>3. ASSUME NEW w \in Writers, ForceSwitch(w) \/ RefuseWrite(w) PROVE WritersTyped'
  <2>1. group' = None /\ (Answer(1, "ok") \/ Answer(1, "failed"))
    BY <1>3 DEF ForceSwitch, RefuseWrite, AtHead
  <2>2. 1 \in 1..Len(writers)
    BY <1>3 DEF ForceSwitch, RefuseWrite, AtHead, WritersTyped
  <2> QED
    BY <2>1, <2>2, AnswerTyped
<1>4. CASE AddRecord
  BY <1>4, PhaseTyped DEF AddRecord
<1>5. CASE SyncLog
  BY <1>5, PhaseTyped DEF SyncLog
<1>6. CASE ApplyWrite \/ AddRecordFails \/ SyncFails
  <2>1. group # None /\ group' = None /\ (Answer(group.size, "ok") \/ Answer(group.size, "failed"))
    BY <1>6 DEF ApplyWrite, AddRecordFails, SyncFails, FinishGroup
  <2>2. group.size \in 1..Len(writers)
    BY <2>1 DEF WritersTyped
  <2> QED
    BY <2>1, <2>2, AnswerTyped
<1>7. ASSUME NEW kind, ProcessDies(kind) PROVE WritersTyped'
  <2>1. writers' = <<>> /\ group' = None
        /\ status' = [w \in Writers |-> IF status[w] = "queued" THEN "gone" ELSE status[w]]
    BY <1>7 DEF ProcessDies
  <2>2. <<>> \in Seq(Writers)
    OBVIOUS
  <2>3. status' \in [Writers -> {"idle", "queued", "ok", "failed", "gone"}]
    BY <2>1 DEF WritersTyped
  <2> QED
    BY <2>1, <2>2, <2>3 DEF WritersTyped
<1>8. CASE UNCHANGED writeVars
  BY <1>8 DEF WritersTyped, writeVars
<1>9. CASE Background \/ Read
  <2>1. UNCHANGED writeVars
    BY <1>9 DEF Background, StartFlush, FlushBuilt, BuildTableFails, StartTrivialMove, StartCompaction,
                BackgroundCallIdle, WriteOutput, FinishCompaction, OutputFails, EditWritten, EditFails,
                InstallFlush, InstallMove, InstallCompaction,
                Read, StartRead, EndRead, GetSnapshot, ReleaseSnapshot, RequestCompactRange
  <2> QED
    BY <1>8, <2>1
<1>10. CASE Open
  BY <1>7, <1>8, <1>10 DEF Open, NewDB, Recover, OpenInstalled, OpenFails
<1> QED
  BY <1>1, <1>2, <1>3, <1>4, <1>5, <1>6, <1>7, <1>8, <1>9, <1>10
     DEF Next, Write, Abort, Crash, vars

\* The record of a group, and its entries.
LEMMA GroupRecordIsGood ==
  ASSUME WritersTyped, lastSequence \in Nat, group # None
  PROVE  /\ OpsOf(group.size) \in Seq(Operations)
         /\ GroupRecord \in RecordsTo(lastSequence + 1 + Len(OpsOf(group.size)))
<1> DEFINE s == group.size
           ops == OpsOf(s)
           W == Writers
<1>1. writers \in Seq(W) /\ s \in 1..Len(writers)
  BY DEF WritersTyped
<1>2. s \in 0..Len(writers)
  BY <1>1
<1>3. ops \in Seq(Operations)
  BY <1>1, <1>2, OpsAreOperations
<1>4. writers[1] \in W
  BY <1>1
<1>5. GroupRecord = [id |-> writers[1], seq |-> lastSequence + 1, ops |-> ops]
  BY DEF GroupRecord, Head1
<1> HIDE DEF ops, s
<1>6. Len(ops) \in Nat
  BY <1>3
<1> QED
  BY <1>3, <1>4, <1>5, <1>6 DEF RecordsTo, ops, s

\* Every step keeps the types of the memtables.
LEMMA MemTablesKeepTypes ==
  ASSUME WritersTyped, lastSequence \in Nat, MemTyped, [Next]_vars
  PROVE  MemTyped'
<1>0. MemTable({})
  BY FS_EmptySet DEF MemTable, AreEntries
<1>1. CASE UNCHANGED <<mem, imm>>
  BY <1>1 DEF MemTyped
<1>2. CASE SwitchMemTable
  BY <1>0, <1>2 DEF SwitchMemTable, MemTyped
<1>3. CASE ApplyWrite
  <2>1. mem' = mem \cup EntriesOfRecord(GroupRecord) /\ imm' = imm /\ group # None
    BY <1>3 DEF ApplyWrite
  <2> DEFINE b == lastSequence + 1 + Len(OpsOf(group.size))
             E == EntriesOfRecord(GroupRecord)
  <2>2. OpsOf(group.size) \in Seq(Operations) /\ GroupRecord \in RecordsTo(b)
    BY <2>1, GroupRecordIsGood
  <2>3. b \in Nat
    BY <2>2
  <2> HIDE DEF b
  <2>4. MemTable(E)
    BY <2>2, <2>3, RecordEntries
  <2> HIDE DEF E
  <2>5. IsFiniteSet(mem \cup E)
    BY <2>4, FS_Union DEF MemTyped, MemTable
  <2>6. MemTable(mem \cup E)
    BY <2>4, <2>5 DEF MemTyped, MemTable, AreEntries
  <2> QED
    BY <2>1, <2>6 DEF MemTyped, E
<1>4. CASE InstallFlush
  BY <1>4 DEF InstallFlush, MemTyped
<1>5. ASSUME NEW kind, ProcessDies(kind) PROVE MemTyped'
  BY <1>0, <1>5 DEF ProcessDies, MemTyped
<1>6. CASE Write
  BY <1>1, <1>2, <1>3, <1>6 DEF Write, Enqueue, BeginWrite, ForceSwitch, RefuseWrite, AddRecord, SyncLog,
             AddRecordFails, SyncFails, NoSwitch, memVars
<1>7. CASE Background
  BY <1>1, <1>4, <1>7 DEF Background, StartFlush, FlushBuilt, BuildTableFails, StartTrivialMove,
             StartCompaction, BackgroundCallIdle, WriteOutput, FinishCompaction, OutputFails, EditWritten,
             EditFails, InstallMove, InstallCompaction, memVars
<1>8. CASE Read
  BY <1>1, <1>8 DEF Read, StartRead, EndRead, GetSnapshot, ReleaseSnapshot, RequestCompactRange, memVars
<1>9. CASE Open
  BY <1>1, <1>5, <1>9 DEF Open, NewDB, Recover, OpenInstalled, OpenFails, memVars
<1> QED
  BY <1>1, <1>5, <1>6, <1>7, <1>8, <1>9 DEF Next, Abort, Crash, vars, memVars

\* Every step keeps the types of the counts of events.
LEMMA EventsKeepTypes ==
  ASSUME UsedTyped, [Next]_vars
  PROVE  UsedTyped'
<1>1. ASSUME NEW what \in Events, Spend(what) PROVE UsedTyped'
  BY <1>1 DEF Spend, UsedTyped
<1>2. CASE used' = used
  BY <1>2 DEF UsedTyped
<1>3. {"crash", "fault", "snapshot", "read", "manual", "flush"} \subseteq Events
  BY DEF Events
<1>4. CASE Write
  BY <1>1, <1>2, <1>3, <1>4 DEF Write, Enqueue, BeginWrite, ForceSwitch, RefuseWrite, AddRecord, SyncLog,
             ApplyWrite, AddRecordFails, SyncFails
<1>5. CASE Background
  BY <1>1, <1>2, <1>3, <1>5 DEF Background, StartFlush, FlushBuilt, BuildTableFails, StartTrivialMove,
             StartCompaction, BackgroundCallIdle, WriteOutput, FinishCompaction, OutputFails, EditWritten,
             EditFails, InstallFlush, InstallMove, InstallCompaction
<1>6. CASE Read
  BY <1>1, <1>2, <1>3, <1>6 DEF Read, StartRead, EndRead, GetSnapshot, ReleaseSnapshot, RequestCompactRange
<1>7. CASE Open
  BY <1>1, <1>2, <1>3, <1>7 DEF Open, NewDB, Recover, OpenInstalled, OpenFails
<1> QED
  BY <1>1, <1>2, <1>3, <1>4, <1>5, <1>6, <1>7 DEF Next, Abort, Crash, vars

-----------------------------------------------------------------------------
(* The order of entries                                                    *)

IsEntry(e) == e.key \in Int /\ e.seq \in Int

\* Before is a strict order, and AtOrBefore its total preorder.
LEMMA EntryOrder ==
  ASSUME NEW a, NEW b, NEW c, IsEntry(a), IsEntry(b), IsEntry(c)
  PROVE  /\ AtOrBefore(a, a) /\ (AtOrBefore(a, b) \/ AtOrBefore(b, a))
         /\ AtOrBefore(a, b) /\ AtOrBefore(b, c) => AtOrBefore(a, c)
         /\ AtOrBefore(a, b) /\ Before(b, c) => Before(a, c)
         /\ Before(a, b) /\ AtOrBefore(b, c) => Before(a, c)
         /\ AtOrBefore(a, b) => a.key <= b.key
         /\ a.key < b.key => Before(a, b)
         /\ Before(a, b) => a.key <= b.key /\ AtOrBefore(a, b)
BY DEF IsEntry, Before, AtOrBefore

\* A finite set of entries has a first and a last one.
LEMMA FirstAndLast ==
  ASSUME NEW E, IsFiniteSet(E), E # {}, \A e \in E : IsEntry(e)
  PROVE  /\ SmallestKey(E) \in E /\ \A d \in E : AtOrBefore(SmallestKey(E), d)
         /\ LargestKey(E) \in E /\ \A d \in E : AtOrBefore(d, LargestKey(E))
<1>1. PICK n \in Nat : ExistsBijection(1..n, E)
  BY FS_CardinalityType
<1>2. PICK g : g \in Bijection(1..n, E)
  BY <1>1 DEF ExistsBijection
<1>3. (\A i \in 1..n : g[i] \in E) /\ \A e \in E : \E i \in 1..n : g[i] = e
  BY <1>2 DEF Bijection, Injection, Surjection
<1>4. \A i \in 1..n : IsEntry(g[i])
  BY <1>3
<1>5. n # 0
  BY <1>3
<1> DEFINE FirstPlace(i, k) == \A j \in 1..k : AtOrBefore(g[i], g[j])
           LastPlace(i, k)  == \A j \in 1..k : AtOrBefore(g[j], g[i])
           P == {k \in 0..n : k # 0 => (\E i \in 1..k : FirstPlace(i, k)) /\ (\E i \in 1..k : LastPlace(i, k))}
<1>6. 0 \in P
  OBVIOUS
<1>7. ASSUME NEW k \in 1..n, k - 1 \in P PROVE k \in P
  <2>1. CASE k = 1
    <3>1. FirstPlace(1, 1) /\ LastPlace(1, 1)
      BY <1>4, <2>1, EntryOrder
    <3>2. 1 \in 1..1 /\ 1 \in 0..n
      BY <2>1
    <3> HIDE DEF FirstPlace, LastPlace
    <3> QED
      BY <2>1, <3>1, <3>2
  <2>2. CASE k # 1
    <3>1. PICK i \in 1..(k - 1), m \in 1..(k - 1) : FirstPlace(i, k - 1) /\ LastPlace(m, k - 1)
      <4> HIDE DEF FirstPlace, LastPlace
      <4> QED
        BY <1>7, <2>2
    <3>2. i \in 1..n /\ m \in 1..n /\ k \in 1..n /\ k \in 0..n
      OBVIOUS
    <3>3. \A j \in 1..k : j = k \/ j \in 1..(k - 1)
      OBVIOUS
    <3>4. \E a \in 1..k : FirstPlace(a, k)
      <4>1. CASE AtOrBefore(g[i], g[k])
        <5>1. FirstPlace(i, k)
          BY <3>1, <3>3, <4>1
        <5>2. i \in 1..k
          OBVIOUS
        <5> HIDE DEF FirstPlace
        <5> QED
          BY <5>1, <5>2
      <4>2. CASE ~AtOrBefore(g[i], g[k])
        <5>1. IsEntry(g[i]) /\ IsEntry(g[k])
          BY <1>4, <3>2
        <5>2. AtOrBefore(g[k], g[i]) /\ AtOrBefore(g[k], g[k])
          BY <4>2, <5>1, EntryOrder
        <5>3. ASSUME NEW j \in 1..k PROVE AtOrBefore(g[k], g[j])
          <6>1. IsEntry(g[j])
            BY <1>4
          <6>2. CASE j = k
            BY <5>2, <6>2
          <6>3. CASE j \in 1..(k - 1)
            <7>1. AtOrBefore(g[i], g[j])
              BY <3>1, <6>3
            <7> QED
              BY <5>1, <5>2, <6>1, <7>1, EntryOrder
          <6> QED
            BY <3>3, <6>2, <6>3
        <5>4. FirstPlace(k, k) /\ k \in 1..k
          BY <5>3
        <5> HIDE DEF FirstPlace
        <5> QED
          BY <5>4
      <4> QED
        BY <4>1, <4>2
    <3>5. \E a \in 1..k : LastPlace(a, k)
      <4>1. CASE AtOrBefore(g[k], g[m])
        <5>1. LastPlace(m, k)
          BY <3>1, <3>3, <4>1
        <5>2. m \in 1..k
          OBVIOUS
        <5> HIDE DEF LastPlace
        <5> QED
          BY <5>1, <5>2
      <4>2. CASE ~AtOrBefore(g[k], g[m])
        <5>1. IsEntry(g[m]) /\ IsEntry(g[k])
          BY <1>4, <3>2
        <5>2. AtOrBefore(g[m], g[k]) /\ AtOrBefore(g[k], g[k])
          BY <4>2, <5>1, EntryOrder
        <5>3. ASSUME NEW j \in 1..k PROVE AtOrBefore(g[j], g[k])
          <6>1. IsEntry(g[j])
            BY <1>4
          <6>2. CASE j = k
            BY <5>2, <6>2
          <6>3. CASE j \in 1..(k - 1)
            <7>1. AtOrBefore(g[j], g[m])
              BY <3>1, <6>3
            <7> QED
              BY <5>1, <5>2, <6>1, <7>1, EntryOrder
          <6> QED
            BY <3>3, <6>2, <6>3
        <5>4. LastPlace(k, k) /\ k \in 1..k
          BY <5>3
        <5> HIDE DEF LastPlace
        <5> QED
          BY <5>4
      <4> QED
        BY <4>1, <4>2
    <3> HIDE DEF FirstPlace, LastPlace
    <3> QED
      BY <3>2, <3>4, <3>5
  <2> QED
    BY <2>1, <2>2
<1>8. n \in P
  <2>1. 0..n \subseteq P
    <3> HIDE DEF P
    <3> QED
      BY <1>6, <1>7, UpTo
  <2> QED
    BY <2>1
<1>9. PICK i \in 1..n, m \in 1..n : FirstPlace(i, n) /\ LastPlace(m, n)
  <2> HIDE DEF FirstPlace, LastPlace
  <2> QED
    BY <1>5, <1>8
<1>10. \E e \in E : \A d \in E : AtOrBefore(e, d)
  <2>1. \A d \in E : AtOrBefore(g[i], d)
    BY <1>3, <1>9
  <2> QED
    BY <1>3, <2>1
<1>11. \E e \in E : \A d \in E : AtOrBefore(d, e)
  <2>1. \A d \in E : AtOrBefore(d, g[m])
    BY <1>3, <1>9
  <2> QED
    BY <1>3, <2>1
<1>12. SmallestKey(E) \in E /\ \A d \in E : AtOrBefore(SmallestKey(E), d)
  BY <1>10 DEF SmallestKey
<1>13. LargestKey(E) \in E /\ \A d \in E : AtOrBefore(d, LargestKey(E))
  BY <1>11 DEF LargestKey
<1> QED
  BY <1>12, <1>13

\* Where the entries of a table lie.
LEMMA TableRange ==
  ASSUME NEW f, GoodTable(f)
  PROVE  /\ f.smallest \in f.entries /\ f.largest \in f.entries
         /\ \A e \in f.entries : IsEntry(e) /\ AtOrBefore(f.smallest, e) /\ AtOrBefore(e, f.largest)
         /\ IsEntry(f.smallest) /\ IsEntry(f.largest) /\ f.smallest.key <= f.largest.key
<1>1. /\ IsFiniteSet(f.entries) /\ f.entries # {} /\ \A e \in f.entries : IsEntry(e)
      /\ f = File(f.number, f.entries)
  <2>1. \A k \in Keys : k \in Int
    BY DBImplAssumption
  <2>2. \A e \in f.entries : e.key \in Keys /\ e.seq \in Nat
    BY DEF GoodTable, AreEntries
  <2>3. ASSUME NEW e \in f.entries PROVE IsEntry(e)
    <3>1. e.key \in Keys /\ e.seq \in Nat
      BY <2>2
    <3>2. e.key \in Int
      BY <2>1, <3>1
    <3>3. e.seq \in Int
      BY <3>1
    <3> QED
      BY <3>2, <3>3 DEF IsEntry
  <2> QED
    BY <2>3, Zenon DEF GoodTable
<1>2. f.smallest = SmallestKey(f.entries) /\ f.largest = LargestKey(f.entries)
  <2> DEFINE E == f.entries
  <2>1. File(f.number, E).smallest = SmallestKey(E) /\ File(f.number, E).largest = LargestKey(E)
    BY DEF File
  <2> QED
    BY <1>1, <2>1
<1>3. /\ f.smallest \in f.entries /\ f.largest \in f.entries
      /\ \A e \in f.entries : AtOrBefore(f.smallest, e) /\ AtOrBefore(e, f.largest)
  BY <1>1, <1>2, FirstAndLast
<1>4. IsEntry(f.smallest) /\ IsEntry(f.largest) /\ AtOrBefore(f.smallest, f.largest)
  BY <1>1, <1>3
<1>5. f.smallest.key <= f.largest.key
  BY <1>4, EntryOrder
<1> QED
  BY <1>1, <1>3, <1>4, <1>5

\* The entries of finitely many tables are finitely many.
LEMMA EntriesAreFinite ==
  ASSUME NEW F, IsFiniteSet(F), \A f \in F : GoodTable(f)
  PROVE  MemTable(EntriesOf(F))
<1> DEFINE T == {f.entries : f \in F}
           g == [f \in F |-> f.entries]
<1>1. g \in Surjection(F, T)
  BY DEF Surjection
<1>2. IsFiniteSet(T)
  <2> HIDE DEF g, T
  <2> QED
    BY <1>1, FS_Surjection
<1>3. \A E \in T : IsFiniteSet(E)
  BY DEF GoodTable
<1>4. IsFiniteSet(UNION T)
  <2> HIDE DEF T
  <2> QED
    BY <1>2, <1>3, FS_UNION
<1>5. EntriesOf(F) = UNION T
  BY DEF EntriesOf
<1>6. AreEntries(EntriesOf(F))
  BY DEF EntriesOf, GoodTable, AreEntries
<1> QED
  BY <1>4, <1>5, <1>6 DEF MemTable

-----------------------------------------------------------------------------
(* The levels stay sorted                                                  *)

\* Those of the current version, and of the one that is about to be installed.
CurrentIsSorted ==
  LevelsAreSorted(current) /\ (edit # None => LevelsAreSorted(ApplyEdit(current, edit)))

\* SaveTo sees to it.
LEMMA SortedNext ==
  ASSUME CurrentIsSorted, [Next]_vars
  PROVE  CurrentIsSorted'
<1>1. CASE UNCHANGED <<current, edit>>
  BY <1>1 DEF CurrentIsSorted
<1>2. CASE edit' = None /\ current' = current
  BY <1>2 DEF CurrentIsSorted
<1>3. CASE edit # None /\ InstallVersion
  BY <1>3 DEF InstallVersion, CurrentIsSorted
<1>4. ASSUME NEW e, LogAndApply(e), current' = current PROVE CurrentIsSorted'
  BY <1>4 DEF LogAndApply, CurrentIsSorted
<1>5. ASSUME NEW kind, ProcessDies(kind) PROVE CurrentIsSorted'
  <2>1. LevelsAreSorted(EmptyVersion)
    BY DEF LevelsAreSorted, EmptyVersion
  <2> QED
    BY <1>5, <2>1 DEF ProcessDies, CurrentIsSorted
<1>6. CASE Recover
  <2>1. current' = manifest.version /\ LevelsAreSorted(manifest.version)
    BY <1>6 DEF Recover
  <2>2. edit'.deleted = {} /\ \A p \in edit'.added : p[1] = 0
    BY <1>6 DEF Recover
  <2> QED
    BY <2>1, <2>2, LevelZeroIsFree DEF CurrentIsSorted
<1>7. CASE Write \/ Read
  <2>1. UNCHANGED <<current, edit>>
    BY <1>7 DEF Write, Enqueue, BeginWrite, ForceSwitch, RefuseWrite, AddRecord, SyncLog, ApplyWrite,
                AddRecordFails, SyncFails, NoSwitch, SwitchMemTable, setVars, bgVars,
                Read, StartRead, EndRead, GetSnapshot, ReleaseSnapshot, RequestCompactRange
  <2> QED
    BY <1>1, <2>1
<1>8. CASE Background
  BY <1>1, <1>2, <1>3, <1>4, <1>8
     DEF Background, StartFlush, FlushBuilt, BuildTableFails, StartTrivialMove, StartCompaction,
         BackgroundCallIdle, WriteOutput, FinishCompaction, OutputFails, EditWritten, EditFails,
         InstallFlush, InstallMove, InstallCompaction, setVars
<1>9. CASE Open
  BY <1>1, <1>3, <1>5, <1>6, <1>9 DEF Open, NewDB, OpenInstalled, OpenFails, setVars, bgVars
<1> QED
  BY <1>1, <1>5, <1>7, <1>8, <1>9 DEF Next, Abort, Crash, vars, setVars, bgVars

-----------------------------------------------------------------------------
(* Types: counters and versions                                            *)

\* What the MANIFEST may come to hold.
LEMMA ManifestForms ==
  ASSUME Shapes, edit # None, edit.last \in Nat, manifest.last \in Nat, EditWritten \/ EditFails,
         manifest.state \in {"none", "unsynced", "whole", "torn", "corrupt"}
  PROVE  /\ manifest'.last \in Nat
         /\ manifest'.version \in {manifest.version, ApplyEdit(manifest.version, edit),
                                   ApplyEdit(current, edit)}
         /\ manifest'.state \in {"none", "unsynced", "whole", "torn", "corrupt"}
<1>1. DOMAIN manifest = {"state", "version", "log", "next", "last"}
  BY DEF Shapes
<1>2. CASE \E v \in {ApplyEdit(manifest.version, edit), ApplyEdit(current, edit)} :
              manifest' = Whole(v, edit)
  BY <1>2 DEF Whole
<1>3. CASE \E s \in {"none", "unsynced", "whole", "torn", "corrupt"} :
              manifest' = [manifest EXCEPT !.state = s]
  BY <1>1, <1>3
<1>4. CASE manifest' = manifest
  BY <1>4
<1>5. Appended(manifest, edit) \in {[manifest EXCEPT !.state = "corrupt"],
                                    Whole(ApplyEdit(manifest.version, edit), edit)}
  BY DEF Appended
<1>6. [manifest EXCEPT !.state = IF @ = "whole" THEN "torn" ELSE @]
        \in {[manifest EXCEPT !.state = manifest.state], [manifest EXCEPT !.state = "torn"]}
  OBVIOUS
<1>7. \/ manifest' = Whole(ApplyEdit(current, edit), edit)
      \/ manifest' = Appended(manifest, edit)
      \/ manifest' = manifest
      \/ manifest' = [manifest EXCEPT !.state = IF @ = "whole" THEN "torn" ELSE @]
  BY DEF EditWritten, EditFails
<1> QED
  BY <1>2, <1>3, <1>4, <1>5, <1>6, <1>7

\* Counters are numbers, and no reader is ahead of the writers.
LEMMA CountersKeepTypes ==
  ASSUME FileInv, WritersTyped, VersionsTyped, CountsTyped, LogsHoldRecords, [Next]_vars
  PROVE  CountsTyped'
<1> USE DEF FileInv
<1>0. CASE UNCHANGED <<logfileNumber, logNumber, nextFileNumber, lastSequence, snapshots, up, reader,
                       manifest, edit>>
  BY <1>0 DEF CountsTyped
<1>1. CASE SwitchMemTable /\ UNCHANGED <<logNumber, lastSequence, snapshots, up, reader, manifest, edit>>
  BY <1>1 DEF CountsTyped, SwitchMemTable
<1>2. CASE Write
  <2>1. CASE \E w \in Writers : Enqueue(w) \/ RefuseWrite(w)
    BY <1>0, <2>1 DEF Enqueue, RefuseWrite, memVars, readVars, setVars, countVars, bgVars, diskVars
  <2>2. CASE \E w \in Writers : BeginWrite(w) \/ ForceSwitch(w)
    BY <1>0, <1>1, <2>2 DEF BeginWrite, ForceSwitch, NoSwitch, memVars, readVars
  <2>3. CASE AddRecord \/ SyncLog
    BY <1>0, <2>3 DEF AddRecord, SyncLog, memVars, readVars, setVars, countVars, bgVars
  <2>4. CASE ApplyWrite \/ AddRecordFails \/ SyncFails
    <3>1. /\ group # None /\ lastSequence' = lastSequence + Len(OpsOf(group.size))
          /\ UNCHANGED <<logfileNumber, logNumber, nextFileNumber, snapshots, up, reader, manifest, edit>>
      BY <2>4 DEF ApplyWrite, AddRecordFails, SyncFails, FinishGroup, memVars, readVars, setVars,
                  bgVars, diskVars
    <3>2. Len(OpsOf(group.size)) \in Nat
      BY <3>1, GroupRecordIsGood DEF CountsTyped
    <3> HIDE DEF FileInv
    <3> QED
      BY <3>1, <3>2 DEF CountsTyped
  <2> QED
    BY <1>2, <2>1, <2>2, <2>3, <2>4 DEF Write
<1>3. CASE Background
  <2>0. edit # None => edit.log \in Nat /\ edit.last \in Nat
    BY DEF EditCounts, CountsTyped
  <2>1. CASE StartFlush \/ WriteOutput
    <3>1. /\ nextFileNumber' = nextFileNumber + 1
          /\ UNCHANGED <<logfileNumber, logNumber, lastSequence, snapshots, up, reader, manifest, edit>>
      BY <2>1 DEF StartFlush, WriteOutput, memVars, readVars, setVars, diskVars
    <3> QED
      BY <3>1 DEF CountsTyped
  <2>2. CASE FlushBuilt \/ StartTrivialMove \/ FinishCompaction
    <3>1. UNCHANGED <<logfileNumber, logNumber, nextFileNumber, lastSequence, snapshots, up, reader, manifest>>
      BY <2>2 DEF FlushBuilt, StartTrivialMove, FinishCompaction, memVars, readVars, setVars, countVars,
                  diskVars
    <3>2. edit'.last = lastSequence
      <4>1. FlushEdit.last = lastSequence
        BY DEF FlushEdit
      <4>2. CompactionEdit.last = lastSequence
        BY DEF CompactionEdit
      <4>3. \A c : MoveEdit(c).last = lastSequence
        BY DEF MoveEdit
      <4> QED
        BY <2>2, <4>1, <4>2, <4>3 DEF FlushBuilt, StartTrivialMove, FinishCompaction, LogAndApply
    <3> QED
      BY <3>1, <3>2 DEF CountsTyped
  <2>3. CASE EditWritten \/ EditFails
    <3>1. /\ edit # None /\ edit' \in {edit, None}
          /\ UNCHANGED <<logfileNumber, logNumber, nextFileNumber, lastSequence, snapshots, up, reader>>
      BY <2>3 DEF EditWritten, EditFails, memVars, readVars, setVars, countVars
    <3>2. manifest'.last \in Nat
      BY <2>0, <2>3, <3>1, ManifestForms DEF CountsTyped, VersionsTyped
    <3> QED
      BY <3>1, <3>2 DEF CountsTyped
  <2>4. CASE InstallFlush \/ InstallMove \/ InstallCompaction
    <3>1. /\ edit # None /\ edit' = None /\ logNumber' = edit.log
          /\ UNCHANGED <<logfileNumber, nextFileNumber, lastSequence, snapshots, up, reader, manifest>>
      BY <2>4 DEF InstallFlush, InstallMove, InstallCompaction, InstallVersion, memVars, readVars,
                  countVars, diskVars
    <3> QED
      BY <2>0, <3>1 DEF CountsTyped
  <2>5. CASE BuildTableFails \/ StartCompaction \/ BackgroundCallIdle \/ OutputFails
    BY <1>0, <2>5 DEF BuildTableFails, StartCompaction, BackgroundCallIdle, OutputFails, memVars, readVars,
                      setVars, countVars, diskVars
  <2> QED
    BY <1>3, <2>1, <2>2, <2>3, <2>4, <2>5 DEF Background
<1>4. CASE Read
  <2>1. UNCHANGED <<logfileNumber, logNumber, nextFileNumber, lastSequence, up, manifest, edit>>
    BY <1>4 DEF Read, StartRead, EndRead, GetSnapshot, ReleaseSnapshot, RequestCompactRange, memVars,
                setVars, countVars, bgVars, diskVars
  <2>2. CASE StartRead
    <3>1. PICK s \in {lastSequence} \cup {t.seq : t \in snapshots} :
                 reader' = [seq |-> s, mem |-> mem, imm |-> imm, version |-> current]
      BY <2>2 DEF StartRead
    <3>2. s \in 0..lastSequence /\ reader'.seq = s
      BY <3>1 DEF CountsTyped
    <3>3. snapshots' = snapshots /\ up = "open"
      BY <2>2 DEF StartRead
    <3> QED
      BY <2>1, <3>2, <3>3 DEF CountsTyped
  <2>3. CASE EndRead \/ (\E l \in Levels : RequestCompactRange(l))
    BY <2>1, <2>3 DEF EndRead, RequestCompactRange, readVars, CountsTyped
  <2>4. CASE GetSnapshot
    <3>1. PICK i : snapshots' = snapshots \cup {[id |-> i, seq |-> lastSequence]}
      BY <2>4 DEF GetSnapshot
    <3>2. reader' = reader /\ up = "open"
      BY <2>4 DEF GetSnapshot
    <3> QED
      BY <2>1, <3>1, <3>2 DEF CountsTyped
  <2>5. CASE ReleaseSnapshot
    BY <2>1, <2>5 DEF ReleaseSnapshot, CountsTyped
  <2> QED
    BY <1>4, <2>2, <2>3, <2>4, <2>5 DEF Read
<1>5. ASSUME NEW kind, ProcessDies(kind), manifest'.last \in Nat PROVE CountsTyped'
  BY <1>5 DEF ProcessDies, CountsTyped
<1>6. CASE Open
  <2>1. CASE NewDB
    <3>1. UNCHANGED <<logfileNumber, logNumber, nextFileNumber, lastSequence, snapshots, up, reader, edit>>
      BY <2>1 DEF NewDB, memVars, readVars, setVars, countVars, bgVars
    <3>2. manifest'.last = manifest.last
      BY <2>1 DEF NewDB, Shapes
    <3> QED
      BY <3>1, <3>2 DEF CountsTyped
  <2>2. CASE Recover
    <3> DEFINE Q == {manifest.last} \cup {e.seq : e \in EntriesOf(Recovered.files)}
    <3>1. /\ logNumber' = manifest.log /\ logfileNumber' = Recovered.next
          /\ nextFileNumber' = Recovered.next + 1 /\ lastSequence' = Max2(Q)
          /\ edit'.last = lastSequence' /\ UNCHANGED <<snapshots, reader, manifest>>
      BY <2>2 DEF Recover, readVars
    <3>2. Recovered.next \in Nat
      BY RecoveryCounts DEF ManifestCounts
    <3>3. Max2(Q) \in Nat
      BY RecoveredTables DEF ManifestCounts, CountsTyped
    <3> HIDE DEF Q
    <3>4. snapshots = {} /\ reader = None
      BY <2>2 DEF Recover, CountsTyped, Quiet
    <3> QED
      BY <3>1, <3>2, <3>3, <3>4 DEF CountsTyped, ManifestCounts
  <2>3. CASE OpenInstalled
    <3>1. /\ edit # None /\ edit' = None /\ logNumber' = edit.log /\ up' = "open"
          /\ UNCHANGED <<logfileNumber, nextFileNumber, lastSequence, snapshots, reader, manifest>>
      BY <2>3 DEF OpenInstalled, InstallVersion, memVars, readVars, countVars
    <3> QED
      BY <3>1 DEF CountsTyped, EditCounts
  <2>4. CASE OpenFails
    BY <1>5, <2>4 DEF OpenFails, CountsTyped
  <2> QED
    BY <1>6, <2>1, <2>2, <2>3, <2>4 DEF Open
<1>7. CASE Abort
  BY <1>5, <1>7 DEF Abort, CountsTyped
<1>8. ASSUME NEW kind, Crash(kind) PROVE CountsTyped'
  <2>1. ProcessDies(kind) /\ (manifest' = manifest \/ manifest' = [manifest EXCEPT !.state = "corrupt"])
    BY <1>8 DEF Crash
  <2>2. manifest'.last = manifest.last
    BY <2>1 DEF Shapes
  <2> QED
    BY <1>5, <2>1, <2>2 DEF CountsTyped
<1> QED
  BY <1>0, <1>2, <1>3, <1>4, <1>6, <1>7, <1>8
     DEF Next, vars, memVars, readVars, setVars, countVars, bgVars, diskVars

-----------------------------------------------------------------------------
(* Types: the files of a version                                           *)

\* A seek that finds nothing is charged to a file that has levels below it.
LEMMA SeeksAreAboveTheLastLevel ==
  ASSUME NEW v, LevelsAreSorted(v), \A f \in FilesOf(v) : GoodTable(f),
         NEW k, NEW s, NEW c \in SeekFile(v, k, s)
  PROVE  \E l \in Levels : l + 1 \in Levels /\ \E f \in v[l] : c = <<l, f>>
<1> DEFINE files == Candidates(v, k, s)
<1>0. NumLevels \in Nat /\ NumLevels > 1 /\ Levels = 0..(NumLevels - 1)
  BY VersionSetAssumption DEF Levels
<1>1. ASSUME NEW d \in files
      PROVE  \E l \in Levels : \E f \in v[l] : d = <<l, f>> /\ (l # 0 => f \in FindFile(v, l, k, s))
  <2>1. CASE d \in {<<0, f>> : f \in {g \in v[0] : Overlaps(g, [lo |-> k, hi |-> k])}}
    BY <1>0, <2>1
  <2>2. ASSUME NEW l \in Levels \ {0}, d \in {<<l, f>> : f \in FindFile(v, l, k, s)}
        PROVE  \E f \in v[l] : d = <<l, f>> /\ f \in FindFile(v, l, k, s)
    BY <2>2 DEF FindFile
  <2> QED
    BY <2>1, <2>2 DEF Candidates
<1>2. /\ c \in files /\ files # {c}
      /\ \A d \in files : c[1] < d[1] \/ (c[1] = d[1] /\ d[2].number <= c[2].number)
  BY DEF SeekFile
<1> HIDE DEF files
<1>3. PICK l \in Levels : \E f \in v[l] : c = <<l, f>> /\ (l # 0 => f \in FindFile(v, l, k, s))
  BY <1>1, <1>2
<1>3a. PICK f \in v[l] : c = <<l, f>> /\ (l # 0 => f \in FindFile(v, l, k, s))
  BY <1>3
<1>4. l + 1 \in Levels
  <2>1. SUFFICES ASSUME l = NumLevels - 1 PROVE FALSE
    BY <1>0, <1>3
  <2>2. PICK d \in files : d # c
    BY <1>2
  <2>3. PICK m \in Levels : \E g \in v[m] : d = <<m, g>> /\ (m # 0 => g \in FindFile(v, m, k, s))
    BY <1>1, <2>2
  <2>3a. PICK g \in v[m] : d = <<m, g>> /\ (m # 0 => g \in FindFile(v, m, k, s))
    BY <2>3
  <2>4. m <= l /\ l # 0
    BY <1>0, <2>1, <2>3a
  <2>5. m = l /\ g # f
    BY <1>0, <1>2, <1>3a, <2>2, <2>3a, <2>4
  <2>6. AtOrBefore(f.smallest, g.smallest) /\ AtOrBefore(g.smallest, f.smallest)
    BY <1>3a, <2>3a, <2>4, <2>5 DEF FindFile
  <2>7. Before(f.largest, g.smallest) \/ Before(g.largest, f.smallest)
    BY <1>3a, <2>3a, <2>4, <2>5 DEF LevelsAreSorted
  <2>8. GoodTable(f) /\ GoodTable(g)
    BY <1>3a, <2>3a DEF FilesOf
  <2>9. /\ IsEntry(f.smallest) /\ IsEntry(f.largest) /\ AtOrBefore(f.smallest, f.largest)
        /\ IsEntry(g.smallest) /\ IsEntry(g.largest) /\ AtOrBefore(g.smallest, g.largest)
    BY <2>8, TableRange
  <2>10. Before(f.smallest, g.smallest) \/ Before(g.smallest, f.smallest)
    BY <2>7, <2>9, EntryOrder
  <2> QED
    BY <2>6, <2>10 DEF AtOrBefore
<1> QED
  BY <1>3a, <1>4

\* A compaction of level l takes its inputs from that level and the next.
LEMMA SetupLevels ==
  ASSUME NEW v, NEW l, NEW F \in SUBSET v[l]
  PROVE  LET c == SetupOtherInputs(v, l, F)
         IN  c.level = l /\ c.in0 \subseteq v[l] /\ c.in1 \subseteq v[l + 1]
<1>1. \A m, r : GetOverlappingInputs(v, m, r) \subseteq v[m]
  BY DEF GetOverlappingInputs, Search
<1>2. \A G \in SUBSET v[l] : AddBoundaryInputs(v, l, G) \subseteq v[l]
  BY DEF AddBoundaryInputs, Search
<1> DEFINE inputs0   == AddBoundaryInputs(v, l, F)
           inputs1   == GetOverlappingInputs(v, l + 1, RangeOf(inputs0))
           all       == RangeOf(inputs0 \cup inputs1)
           expanded0 == AddBoundaryInputs(v, l, GetOverlappingInputs(v, l, all))
           expanded1 == GetOverlappingInputs(v, l + 1, RangeOf(expanded0))
           c         == SetupOtherInputs(v, l, F)
<1>3. c.level = l /\ c.in0 \in {inputs0, expanded0} /\ c.in1 \in {inputs1, expanded1}
  BY DEF SetupOtherInputs
<1>4. inputs0 \subseteq v[l] /\ expanded0 \subseteq v[l]
  BY <1>1, <1>2
<1>5. inputs1 \subseteq v[l + 1] /\ expanded1 \subseteq v[l + 1]
  BY <1>1
<1> HIDE DEF inputs0, inputs1, expanded0, expanded1
<1> QED
  BY <1>3, <1>4, <1>5

\* The files PickCompaction starts from.
StartingFiles(v, l, f) == IF l = 0 THEN GetOverlappingInputs(v, 0, RangeOf({f})) ELSE {f}

\* What PickCompaction and CompactRange choose.
LEMMA ChosenInputs ==
  ASSUME VersionsTyped, WorkTyped, NEW c \in CompactionChoices
  PROVE  \E l \in Levels : \E F \in SUBSET current[l] :
            /\ l + 1 \in Levels /\ c = SetupOtherInputs(current, l, F)
            /\ manual = None => \E f \in current[l] : F = StartingFiles(current, l, f)
<1>0. NumLevels \in Nat /\ NumLevels > 1 /\ Levels = 0..(NumLevels - 1)
  BY VersionSetAssumption DEF Levels
<1>1. CASE manual # None
  <2>1. manual \in Levels /\ manual + 1 \in Levels
    BY <1>1 DEF WorkTyped
  <2> DEFINE upTo(f) == {g \in current[manual] : AtOrBefore(g.smallest, f.smallest)}
             limited == {f \in current[manual] : TotalFileSize(upTo(f) \ {f}) < MaxOutputFileSize}
             chosen == IF manual = 0 THEN current[0] ELSE limited
  <2>2. c \in IF chosen = {} THEN {} ELSE {SetupOtherInputs(current, manual, chosen)}
    BY <1>1 DEF CompactionChoices, CompactRange
  <2>3. chosen \in SUBSET current[manual]
    OBVIOUS
  <2> HIDE DEF chosen
  <2>4. c = SetupOtherInputs(current, manual, chosen)
    BY <2>2
  <2> QED
    BY <1>1, <2>1, <2>3, <2>4
<1>2. CASE manual = None
  <2> DEFINE start(l, f) == IF l = 0 THEN GetOverlappingInputs(current, 0, RangeOf({f})) ELSE {f}
             picked == IF FullLevels(current) # {}
                       THEN UNION {{<<l, f>> : f \in current[l]} : l \in FullLevels(current)}
                       ELSE worn
  <2>1. CompactionChoices = {SetupOtherInputs(current, p[1], start(p[1], p[2])) : p \in picked}
    BY <1>2 DEF CompactionChoices, PickCompaction
  <2>2. \A l, f : f \in current[l] => start(l, f) \in SUBSET current[l]
    BY DEF GetOverlappingInputs, Search
  <2> HIDE DEF start
  <2>3. PICK p \in picked : c = SetupOtherInputs(current, p[1], start(p[1], p[2]))
    <3> HIDE DEF picked
    <3> QED
      BY <2>1
  <2>4. \E l \in Levels : l + 1 \in Levels /\ \E f \in current[l] : p = <<l, f>>
    <3>1. CASE FullLevels(current) # {}
      <4>1. PICK l \in FullLevels(current) : p \in {<<l, f>> : f \in current[l]}
        BY <2>3, <3>1
      <4>2. l \in Levels /\ l + 1 \in Levels
        BY <1>0, <4>1 DEF FullLevels
      <4> QED
        BY <4>1, <4>2
    <3>2. CASE FullLevels(current) = {}
      BY <2>3, <3>2 DEF VersionsTyped
    <3> QED
      BY <3>1, <3>2
  <2>5. PICK l \in Levels : l + 1 \in Levels /\ \E f \in current[l] : p = <<l, f>>
    BY <2>4
  <2>6. PICK f \in current[l] : p = <<l, f>>
    BY <2>5
  <2>7. c = SetupOtherInputs(current, l, start(l, f)) /\ start(l, f) \in SUBSET current[l]
    BY <2>2, <2>3, <2>6
  <2>8. start(l, f) = StartingFiles(current, l, f)
    BY DEF start, StartingFiles
  <2> QED
    BY <2>5, <2>7, <2>8
<1> QED
  BY <1>1, <1>2

\* Every step keeps the types of the versions.
LEMMA VersionsKeepTypes ==
  ASSUME FileInv, TablesAreGood, CurrentIsSorted, CountsTyped, VersionsTyped, [Next]_vars
  PROVE  VersionsTyped'
<1> USE DEF FileInv
<1>0. \A v, e : DOMAIN ApplyEdit(v, e) = Levels
  BY DEF ApplyEdit
<1>1. CASE UNCHANGED <<current, manifest, reader, worn>>
  BY <1>1 DEF VersionsTyped
<1>2. CASE InstallVersion /\ UNCHANGED <<manifest, reader>>
  BY <1>0, <1>2 DEF InstallVersion, VersionsTyped
<1>3. CASE EditWritten \/ EditFails
  <2>1. edit # None /\ UNCHANGED <<current, reader, worn>>
    BY <1>3 DEF EditWritten, EditFails, readVars, setVars
  <2>2. /\ manifest'.version \in {manifest.version, ApplyEdit(manifest.version, edit),
                                  ApplyEdit(current, edit)}
        /\ manifest'.state \in {"none", "unsynced", "whole", "torn", "corrupt"}
    BY <1>3, <2>1, ManifestForms DEF CountsTyped, VersionsTyped
  <2> QED
    BY <1>0, <2>1, <2>2 DEF VersionsTyped
<1>4. ASSUME NEW kind, ProcessDies(kind), manifest' = manifest \/ manifest' = [manifest EXCEPT !.state = "corrupt"]
      PROVE  VersionsTyped'
  <2>1. manifest'.version = manifest.version /\ manifest'.state \in {manifest.state, "corrupt"}
    BY <1>4 DEF Shapes
  <2>2. current' = EmptyVersion /\ worn' = {} /\ reader' = None
    BY <1>4 DEF ProcessDies
  <2> QED
    BY <2>1, <2>2 DEF VersionsTyped, EmptyVersion
<1>5. CASE StartRead
  <2>1. reader'.version = current /\ UNCHANGED <<current, worn, manifest>>
    BY <1>5 DEF StartRead, setVars, diskVars
  <2> QED
    BY <2>1 DEF VersionsTyped
<1>6. CASE EndRead
  <2>1. UNCHANGED <<current, manifest>> /\ reader' = None
    BY <1>6 DEF EndRead, diskVars
  <2>2. CASE worn' = worn
    BY <2>1, <2>2 DEF VersionsTyped
  <2>3. CASE worn' # worn
    <3>1. reader.version = current /\ \E k \in Keys : worn' = SeekFile(current, k, reader.seq)
      BY <1>6, <2>3 DEF EndRead
    <3>2. \A f \in FilesOf(current) : GoodTable(f)
      BY DEF TablesAreGood, HeldFilesExist, HeldFiles, LiveFiles
    <3>3. \A w \in worn' : \E l \in Levels : l + 1 \in Levels /\ \E f \in current[l] : w = <<l, f>>
      BY <3>1, <3>2, SeeksAreAboveTheLastLevel DEF CurrentIsSorted
    <3> QED
      BY <2>1, <3>3 DEF VersionsTyped
  <2> QED
    BY <2>2, <2>3
<1>7. CASE NewDB
  <2>1. manifest'.version = manifest.version /\ manifest'.state = "unsynced"
    BY <1>7 DEF NewDB, Shapes
  <2> QED
    BY <1>7, <2>1 DEF NewDB, readVars, setVars, VersionsTyped
<1>8. CASE Recover
  <2>1. current' = manifest.version /\ UNCHANGED <<manifest, reader, worn>> /\ worn = {}
    BY <1>8 DEF Recover, readVars, Quiet
  <2> QED
    BY <2>1 DEF VersionsTyped
<1>9. CASE Write
  BY <1>1, <1>9 DEF Write, Enqueue, BeginWrite, ForceSwitch, RefuseWrite, AddRecord, SyncLog, ApplyWrite,
                    AddRecordFails, SyncFails, NoSwitch, SwitchMemTable, setVars, readVars, diskVars
<1>10. CASE Background
  BY <1>1, <1>2, <1>3, <1>10
     DEF Background, StartFlush, FlushBuilt, BuildTableFails, StartTrivialMove, StartCompaction,
         BackgroundCallIdle, WriteOutput, FinishCompaction, OutputFails,
         InstallFlush, InstallMove, InstallCompaction, setVars, readVars, diskVars
<1>11. CASE Read
  BY <1>1, <1>5, <1>6, <1>11 DEF Read, GetSnapshot, ReleaseSnapshot, RequestCompactRange, readVars, setVars,
                                 diskVars
<1>12. CASE Open
  BY <1>2, <1>4, <1>7, <1>8, <1>12 DEF Open, OpenInstalled, OpenFails, readVars
<1> QED
  BY <1>1, <1>4, <1>9, <1>10, <1>11, <1>12 DEF Next, Abort, Crash, vars, setVars, readVars, diskVars

-----------------------------------------------------------------------------
(* Types: the background thread                                            *)

\* The inputs of a compaction are tables of the current version, and so its
\* entries are finitely many.
LEMMA ChosenEntries ==
  ASSUME FileInv, TablesAreFinite, TablesAreGood, VersionsTyped, WorkTyped,
         NEW c \in CompactionChoices
  PROVE  InputsOf(c) \subseteq FilesOf(current) /\ MemTable(EntriesOf(InputsOf(c)))
<1>6. PICK l \in Levels :
             \E F \in SUBSET current[l] : l + 1 \in Levels /\ c = SetupOtherInputs(current, l, F)
  BY ChosenInputs
<1>1. PICK F \in SUBSET current[l] : l + 1 \in Levels /\ c = SetupOtherInputs(current, l, F)
  BY <1>6
<1>2. c.in0 \subseteq current[l] /\ c.in1 \subseteq current[l + 1]
  BY <1>1, SetupLevels
<1>3. InputsOf(c) \subseteq FilesOf(current)
  BY <1>1, <1>2 DEF InputsOf, FilesOf
<1>4. FilesOf(current) \subseteq tables
  BY DEF FileInv, HeldFilesExist, HeldFiles, LiveFiles
<1>5. IsFiniteSet(InputsOf(c)) /\ \A f \in InputsOf(c) : GoodTable(f)
  BY <1>3, <1>4, FS_Subset DEF TablesAreFinite, TablesAreGood
<1> QED
  BY <1>3, <1>5, EntriesAreFinite

LEMMA FewerEntries ==
  ASSUME NEW m, MemTable(m), NEW n \in SUBSET m
  PROVE  MemTable(n)
BY FS_Subset DEF MemTable, AreEntries

\* Every step keeps the types of the background thread.
LEMMA WorkKeepsTypes ==
  ASSUME FileInv, TablesAreFinite, TablesAreGood, CountsTyped, VersionsTyped, WorkTyped, [Next]_vars
  PROVE  WorkTyped'
<1>0. /\ (scheduled \/ (~bgError' /\ NeedsWork(imm', manual', current', worn'))) \in BOOLEAN
      /\ (~bgError' /\ NeedsWork(imm', manual', current', worn')) \in BOOLEAN
  OBVIOUS
<1>1. CASE UNCHANGED <<bgError, scheduled, durable, manual, compact, flush, imm, pendingOutputs>>
  BY <1>1 DEF WorkTyped
<1>2. ASSUME SwitchMemTable, UNCHANGED <<durable, compact, flush, pendingOutputs>> PROVE WorkTyped'
  BY <1>0, <1>2 DEF SwitchMemTable, MaybeScheduleCompaction, WorkTyped
<1>3. CASE Write
  <2>1. CASE SyncFails
    BY <2>1 DEF SyncFails, memVars, WorkTyped
  <2> QED
    BY <1>1, <1>2, <1>3, <2>1
       DEF Write, Enqueue, BeginWrite, ForceSwitch, RefuseWrite, AddRecord, SyncLog, ApplyWrite,
           AddRecordFails, NoSwitch, memVars, bgVars
<1>4. CASE Background
  <2>1. CASE StartFlush
    BY <2>1 DEF StartFlush, memVars, CountsTyped, WorkTyped
  <2>2. CASE FlushBuilt \/ BuildTableFails
    BY <2>2 DEF FlushBuilt, BuildTableFails, LogAndApply, memVars, WorkTyped
  <2>3. CASE StartTrivialMove \/ FinishCompaction
    BY <1>1, <2>3 DEF StartTrivialMove, FinishCompaction, LogAndApply, memVars
  <2>4. CASE StartCompaction
    <3>1. PICK c \in CompactionChoices : compact' = Compaction(c)
      BY <2>4 DEF StartCompaction
    <3>2. UNCHANGED <<bgError, scheduled, durable, manual, flush, imm, pendingOutputs>>
      BY <2>4 DEF StartCompaction, memVars
    <3>3. compact'.todo \subseteq EntriesOf(InputsOf(c))
      BY <3>1 DEF Compaction, Kept
    <3>4. MemTable(compact'.todo)
      BY <3>3, ChosenEntries, FewerEntries
    <3> QED
      BY <3>2, <3>4 DEF WorkTyped
  <2>5. CASE BackgroundCallIdle
    BY <1>0, <2>5 DEF BackgroundCallIdle, EndBackgroundCall, WorkTyped
  <2>6. CASE WriteOutput
    <3>1. /\ compact # None /\ flush = None /\ pendingOutputs' = pendingOutputs \cup {nextFileNumber}
          /\ UNCHANGED <<bgError, scheduled, durable, manual, flush, imm>>
      BY <2>6 DEF WriteOutput, memVars
    <3>2. PICK part, f : compact' = [compact EXCEPT !.todo = @ \ part, !.outputs = @ \cup {f}]
      BY <2>6 DEF WriteOutput
    <3>3. compact'.todo = compact.todo \ part
      BY <3>1, <3>2 DEF FileInv, Shapes
    <3>4. MemTable(compact'.todo)
      BY <3>1, <3>3, FewerEntries DEF WorkTyped
    <3> QED
      BY <3>1, <3>4 DEF WorkTyped, CountsTyped
  <2>7. CASE OutputFails
    BY <2>7 DEF OutputFails, CleanupCompaction, memVars, WorkTyped
  <2>8. CASE EditWritten
    BY <2>8 DEF EditWritten, memVars, WorkTyped
  <2>9. CASE EditFails
    <3>1. (flush # None /\ compact # None) \in BOOLEAN
      OBVIOUS
    <3> QED
      BY <2>9, <3>1 DEF EditFails, CleanupCompaction, memVars, WorkTyped
  <2>10. CASE InstallFlush
    BY <1>0, <2>10 DEF InstallFlush, InstallVersion, EndBackgroundCall, WorkTyped
  <2>11. CASE InstallMove
    BY <1>0, <2>11 DEF InstallMove, InstallVersion, EndBackgroundCall, memVars, WorkTyped
  <2>12. CASE InstallCompaction
    BY <1>0, <2>12 DEF InstallCompaction, InstallVersion, CleanupCompaction, EndBackgroundCall, memVars,
                       WorkTyped
  <2> QED
    BY <1>4, <2>1, <2>2, <2>3, <2>4, <2>5, <2>6, <2>7, <2>8, <2>9, <2>10, <2>11, <2>12 DEF Background
<1>5. CASE Read
  <2>1. CASE StartRead \/ GetSnapshot \/ ReleaseSnapshot
    BY <1>1, <2>1 DEF StartRead, GetSnapshot, ReleaseSnapshot, memVars, bgVars
  <2>2. CASE EndRead
    BY <1>0, <2>2 DEF EndRead, MaybeScheduleCompaction, WorkTyped
  <2>3. ASSUME NEW l \in Levels, RequestCompactRange(l) PROVE WorkTyped'
    BY <1>0, <2>3 DEF RequestCompactRange, MaybeScheduleCompaction, WorkTyped
  <2> QED
    BY <1>5, <2>1, <2>2, <2>3 DEF Read
<1>6. ASSUME NEW kind, ProcessDies(kind) PROVE WorkTyped'
  BY <1>6 DEF ProcessDies, WorkTyped
<1>7. CASE Open
  <2>1. CASE NewDB \/ Recover
    BY <1>1, <2>1 DEF NewDB, Recover, memVars, bgVars
  <2>2. CASE OpenInstalled
    BY <1>0, <2>2 DEF OpenInstalled, InstallVersion, MaybeScheduleCompaction, memVars, WorkTyped
  <2>3. CASE OpenFails
    BY <1>6, <2>3 DEF OpenFails
  <2> QED
    BY <1>7, <2>1, <2>2, <2>3 DEF Open
<1> QED
  BY <1>1, <1>3, <1>4, <1>5, <1>6, <1>7 DEF Next, Abort, Crash, vars, memVars, bgVars

-----------------------------------------------------------------------------
(* Types: the disk                                                         *)

\* Every step keeps the logs.
LEMMA LogsKeepTypes ==
  ASSUME FileInv, WritersTyped, CountsTyped, LogsHoldRecords, [Next]_vars
  PROVE  LogsHoldRecords'
<1>0. LogsTyped
  BY DEF FileInv
<1>1. CASE UNCHANGED logs
  BY <1>1 DEF LogsHoldRecords
<1>2. CASE SwitchMemTable
  BY <1>2, NewLogIsGood DEF SwitchMemTable
<1>3. CASE AddRecord
  <2>1. logs' = [logs EXCEPT ![logfileNumber].records = Append(@, GroupRecord)] /\ group # None
    BY <1>3 DEF AddRecord
  <2> DEFINE d == lastSequence + 1 + Len(OpsOf(group.size))
  <2>2. OpsOf(group.size) \in Seq(Operations) /\ GroupRecord \in RecordsTo(d)
    BY <2>1, GroupRecordIsGood DEF CountsTyped
  <2>3. d \in Nat
    BY <2>2 DEF CountsTyped
  <2> HIDE DEF d
  <2> QED
    BY <1>0, <2>1, <2>2, <2>3, AppendedLogIsGood
<1>4. CASE SyncLog
  BY <1>0, <1>4, SyncedLogIsGood DEF SyncLog
<1>5. CASE AddRecordFails
  <2>1. TornRecord \in RecordsTo(0)
    <3>1. <<>> \in Seq(Operations) /\ Len(<<>>) = 0
      OBVIOUS
    <3> QED
      BY <3>1 DEF TornRecord, RecordsTo
  <2> QED
    BY <1>0, <1>1, <1>5, <2>1, AppendedLogIsGood DEF AddRecordFails
<1>6. CASE DeleteObsoleteFiles
  <2>1. CASE logs' = Restrict2(logs, {n \in DOMAIN logs : n >= logNumber'})
    BY <2>1, FewerLogsAreGood
  <2> QED
    BY <1>1, <1>6, <2>1 DEF DeleteObsoleteFiles
<1>7. CASE Write
  BY <1>1, <1>2, <1>3, <1>4, <1>5, <1>7
     DEF Write, Enqueue, BeginWrite, ForceSwitch, RefuseWrite, ApplyWrite, SyncFails, NoSwitch, diskVars
<1>8. CASE Background
  BY <1>1, <1>6, <1>8
     DEF Background, StartFlush, FlushBuilt, BuildTableFails, StartTrivialMove, StartCompaction,
         BackgroundCallIdle, WriteOutput, FinishCompaction, OutputFails, EditWritten, EditFails,
         InstallFlush, InstallMove, InstallCompaction, diskVars
<1>9. CASE Read
  BY <1>1, <1>9 DEF Read, StartRead, EndRead, GetSnapshot, ReleaseSnapshot, RequestCompactRange, diskVars
<1>10. CASE Open
  BY <1>1, <1>6, <1>10, NewLogIsGood, RemainsAreGood DEF Open, NewDB, Recover, OpenInstalled, OpenFails
<1> QED
  BY <1>1, <1>7, <1>8, <1>9, <1>10, RemainsAreGood DEF Next, Abort, Crash, vars, diskVars

\* A table of a finite set of entries is good.
LEMMA BuiltTable ==
  ASSUME NEW n \in Nat, NEW E, MemTable(E), E # {}
  PROVE  GoodTable(File(n, E))
<1>1. File(n, E).number = n /\ File(n, E).entries = E
  BY DEF File
<1> QED
  BY <1>1, Zenon DEF GoodTable, MemTable

\* Every step keeps the tables.
LEMMA TablesStayGood ==
  ASSUME FileInv, TablesAreGood, MemTyped, CountsTyped, WorkTyped, LogsHoldRecords, [Next]_vars
  PROVE  TablesAreGood'
<1>1. CASE tables' \subseteq tables
  BY <1>1 DEF TablesAreGood
<1>2. ASSUME NEW F, \A f \in F : GoodTable(f), tables' = Written(tables, F) PROVE TablesAreGood'
  BY <1>2 DEF Written, TablesAreGood
<1>3. CASE FlushBuilt
  <2>1. flush # None /\ tables' = Written(tables, FlushOutput)
    BY <1>3 DEF FlushBuilt
  <2>2. imm # None /\ MemTable(imm)
    BY <2>1 DEF WorkTyped, MemTyped
  <2>3. flush \in Nat
    BY <2>1 DEF FileInv, Quiet, CountsAreAhead
  <2>4. \A f \in FlushOutput : GoodTable(f)
    BY <2>2, <2>3, BuiltTable DEF FlushOutput
  <2> QED
    BY <1>2, <2>1, <2>4
<1>4. CASE WriteOutput
  <2>1. PICK part \in OutputsOf(compact, compact.todo) : tables' = Written(tables, {File(nextFileNumber, part)})
    BY <1>4 DEF WriteOutput
  <2>2. MemTable(compact.todo)
    BY <1>4 DEF WriteOutput, WorkTyped
  <2>3. part \subseteq compact.todo /\ part # {}
    BY <2>1 DEF OutputsOf
  <2>4. GoodTable(File(nextFileNumber, part))
    BY <2>2, <2>3, FewerEntries, BuiltTable DEF CountsTyped
  <2> QED
    BY <1>2, <2>1, <2>4
<1>5. CASE Recover
  <2>1. tables' = Written(tables, Recovered.files)
    BY <1>5 DEF Recover
  <2>2. \A f \in Recovered.files : GoodTable(f)
    BY RecoveredTables DEF FileInv, ManifestCounts, CountsTyped
  <2> QED
    BY <1>2, <2>1, <2>2
<1>6. CASE Write
  BY <1>1, <1>6 DEF Write, Enqueue, BeginWrite, ForceSwitch, RefuseWrite, AddRecord, SyncLog, ApplyWrite,
                    AddRecordFails, SyncFails, diskVars
<1>7. CASE Background
  BY <1>1, <1>3, <1>4, <1>7
     DEF Background, StartFlush, BuildTableFails, StartTrivialMove, StartCompaction, BackgroundCallIdle,
         FinishCompaction, OutputFails, EditWritten, EditFails, InstallFlush, InstallMove,
         InstallCompaction, DeleteObsoleteFiles, diskVars
<1>8. CASE Read
  BY <1>1, <1>8 DEF Read, StartRead, EndRead, GetSnapshot, ReleaseSnapshot, RequestCompactRange, diskVars
<1>9. CASE Open
  BY <1>1, <1>5, <1>9 DEF Open, NewDB, OpenInstalled, OpenFails, ProcessDies, DeleteObsoleteFiles
<1> QED
  BY <1>1, <1>6, <1>7, <1>8, <1>9 DEF Next, Abort, Crash, ProcessDies, vars, diskVars

-----------------------------------------------------------------------------
(* Types: the theorem                                                      *)

\* A new database and one found on disk have them.
LEMMA TypeInit == Init => TypeInv /\ CurrentIsSorted
<1> SUFFICES ASSUME Init PROVE TypeInv /\ CurrentIsSorted
  OBVIOUS
<1>1. /\ writers = <<>> /\ status = [w \in Writers |-> "idle"] /\ group = None
      /\ mem = {} /\ imm = None /\ logfileNumber = 0 /\ snapshots = {} /\ reader = None
      /\ current = EmptyVersion /\ worn = {} /\ logNumber = 0 /\ nextFileNumber = 0 /\ lastSequence = 0
      /\ bgError = FALSE /\ scheduled = FALSE /\ manual = None /\ flush = None /\ compact = None
      /\ edit = None /\ durable = FALSE /\ pendingOutputs = {} /\ logs = <<>>
      /\ used = [what \in Events |-> 0]
  BY DEF Init
<1>2. /\ manifest.last \in Nat /\ DOMAIN manifest.version = Levels
      /\ manifest.state \in {"none", "unsynced", "whole", "torn", "corrupt"}
      /\ TablesAreGood
  <2>1. CASE manifest = NoManifest /\ tables = {}
    BY <2>1 DEF NoManifest, EmptyVersion, TablesAreGood
  <2>2. ASSUME NEW db \in InitialDatabases,
               manifest = [state |-> "whole", version |-> db.version, log |-> 0,
                           next |-> db.next, last |-> db.last],
               tables = FilesOf(db.version)
        PROVE  /\ manifest.last \in Nat /\ DOMAIN manifest.version = Levels
               /\ manifest.state \in {"none", "unsynced", "whole", "torn", "corrupt"}
               /\ TablesAreGood
    <3>1. db.last \in Nat /\ DOMAIN db.version = Levels
      BY InitialDatabasesAssumption
    <3>2. ASSUME NEW f \in FilesOf(db.version) PROVE GoodTable(f)
      <4>1. /\ f.number \in Nat /\ f = File(f.number, f.entries)
            /\ f.entries # {} /\ IsFiniteSet(f.entries)
            /\ \A e \in f.entries : e.key \in Keys /\ e.seq \in 0..db.last
        BY InitialDatabasesAssumption, Zenon
      <4>2. AreEntries(f.entries)
        BY <3>1, <4>1 DEF AreEntries
      <4> QED
        BY <4>1, <4>2, Zenon DEF GoodTable
    <3> QED
      BY <2>2, <3>1, <3>2 DEF TablesAreGood
  <2> QED
    BY <2>1, <2>2 DEF Init
<1>3. WritersTyped
  <2>1. <<>> \in Seq(Writers)
    OBVIOUS
  <2> QED
    BY <1>1, <2>1 DEF WritersTyped
<1>4. MemTyped
  BY <1>1, FS_EmptySet DEF MemTyped, MemTable, AreEntries
<1>5. CountsTyped
  BY <1>1, <1>2 DEF CountsTyped
<1>6. VersionsTyped
  BY <1>1, <1>2 DEF VersionsTyped, EmptyVersion
<1>7. WorkTyped
  BY <1>1 DEF WorkTyped
<1>8. LogsHoldRecords
  <2>1. DOMAIN logs = {}
    BY <1>1
  <2> QED
    BY <2>1 DEF LogsHoldRecords
<1>9. UsedTyped
  BY <1>1 DEF UsedTyped
<1>10. CurrentIsSorted
  BY <1>1 DEF CurrentIsSorted, LevelsAreSorted, EmptyVersion
<1> QED
  BY <1>2, <1>3, <1>4, <1>5, <1>6, <1>7, <1>8, <1>9, <1>10 DEF TypeInv

TypedInv == TypeInv /\ CurrentIsSorted /\ TablesAreFinite

\* The types hold in every reachable state.
LEMMA TypedInvAlways == Spec => [](FileInv /\ TypedInv)
<1>1. Init => TypedInv
  BY TypeInit, FS_EmptySet, InitialDatabasesAssumption DEF Init, TypedInv, TablesAreFinite
<1>2. ASSUME FileInv, TypedInv, [Next]_vars PROVE TypedInv'
  <2>1. /\ WritersTyped /\ MemTyped /\ CountsTyped /\ VersionsTyped /\ WorkTyped /\ LogsHoldRecords
        /\ TablesAreGood /\ UsedTyped /\ CurrentIsSorted /\ TablesAreFinite
    BY <1>2 DEF TypedInv, TypeInv
  <2>2. lastSequence \in Nat
    BY <2>1 DEF CountsTyped
  <2>3. WritersTyped' /\ UsedTyped' /\ CurrentIsSorted' /\ TablesAreFinite'
    BY <1>2, <2>1, WritersKeepTypes, EventsKeepTypes, SortedNext, TablesStayFinite
  <2>4. MemTyped' /\ CountsTyped' /\ VersionsTyped'
    BY <1>2, <2>1, <2>2, MemTablesKeepTypes, CountersKeepTypes, VersionsKeepTypes
  <2>5. WorkTyped' /\ LogsHoldRecords' /\ TablesAreGood'
    BY <1>2, <2>1, WorkKeepsTypes, LogsKeepTypes, TablesStayGood
  <2> QED
    BY <2>3, <2>4, <2>5 DEF TypedInv, TypeInv
<1>3. FileInv /\ TypedInv /\ [Next]_vars => TypedInv'
  BY <1>2
<1> QED
  BY <1>1, <1>3, FileInvAlways, PTL DEF Spec

\* The variables of the engine keep their types, whatever is written, flushed,
\* compacted, lost and recovered: every version is of tables with entries, no
\* reader and no snapshot is ahead of the writers, the group is a part of the
\* queue, and a log has no more records synced than it holds.
THEOREM TypesAreCorrect == Spec => []TypeOK
<1>1. ASSUME FileInv, TypedInv PROVE TypeOK
  <2>1. /\ WritersTyped /\ MemTyped /\ CountsTyped /\ VersionsTyped /\ WorkTyped /\ LogsHoldRecords
        /\ TablesAreGood /\ UsedTyped
    BY <1>1 DEF TypedInv, TypeInv
  <2>2. \A f \in tables : IsTable(f)
    BY <2>1 DEF TablesAreGood, GoodTable, IsTable
  <2>3. HeldFiles \subseteq tables
    BY <1>1 DEF FileInv, HeldFilesExist
  <2>4. IsVersion(current) /\ IsVersion(manifest.version) /\ (reader # None => IsVersion(reader.version))
    BY <2>1, <2>2, <2>3 DEF HeldFiles, LiveFiles, VersionsTyped, IsVersion
  <2>5. compact # None => AreEntries(compact.todo) /\ \A f \in compact.outputs : IsTable(f)
    BY <2>1, <2>2, <2>3 DEF HeldFiles, Outputs, WorkTyped, MemTable
  <2>6. worn \subseteq {<<l, f>> : l \in Levels, f \in FilesOf(current)}
    <3> SUFFICES ASSUME NEW w \in worn PROVE w \in {<<l, f>> : l \in Levels, f \in FilesOf(current)}
      OBVIOUS
    <3>1. PICK l \in Levels : \E f \in current[l] : w = <<l, f>>
      BY <2>1 DEF VersionsTyped
    <3>2. \A f \in current[l] : f \in FilesOf(current)
      BY DEF FilesOf
    <3> QED
      BY <3>1, <3>2
  <2>7. flush # None => flush \in Nat
    BY <1>1 DEF FileInv, Quiet, CountsAreAhead
  <2>8. up \in {"closed", "recovering", "open"}
    BY <1>1 DEF FileInv, Quiet
  <2>9. \A n \in DOMAIN logs : logs[n].synced \in 0..Len(logs[n].records)
    BY <2>1 DEF LogsHoldRecords
  <2>10. AreEntries(mem) /\ (imm = None \/ AreEntries(imm))
    BY <2>1 DEF MemTyped, MemTable
  <2>11. /\ {logfileNumber, logNumber, nextFileNumber, lastSequence} \subseteq Nat
         /\ \A s \in snapshots : s.seq \in 0..lastSequence
         /\ reader # None => reader.seq \in 0..lastSequence
    BY <2>1 DEF CountsTyped
  <2>12. /\ writers \in Seq(Writers)
         /\ status \in [Writers -> {"idle", "queued", "ok", "failed", "gone"}]
         /\ group = None \/ (group.size \in 1..Len(writers) /\ group.phase \in {"logging", "syncing", "applying"})
    BY <2>1 DEF WritersTyped
  <2>13. /\ {bgError, scheduled, durable} \subseteq BOOLEAN /\ (manual = None \/ manual \in Levels)
         /\ pendingOutputs \subseteq Nat
    BY <2>1 DEF WorkTyped
  <2>14. manifest.state \in {"none", "unsynced", "whole", "torn", "corrupt"} /\ used \in [Events -> Nat]
    BY <2>1 DEF VersionsTyped, UsedTyped
  <2> QED
    BY <2>2, <2>4, <2>5, <2>6, <2>7, <2>8, <2>9, <2>10, <2>11, <2>12, <2>13, <2>14 DEF TypeOK
<1> QED
  BY <1>1, TypedInvAlways, PTL

-----------------------------------------------------------------------------
(* The inputs of a compaction                                              *)

FileSet(F) == IsFiniteSet(F) /\ \A f \in F : GoodTable(f)

\* Files that end before a user key, that start behind it, that do not cover it.
EndBefore(F, k) == \A f \in F : f.largest.key < k
StartBehind(F, k) == \A f \in F : k < f.smallest.key
Clear(F, k) == \A f \in F : f.largest.key < k \/ k < f.smallest.key

\* The range of a set of files.
LEMMA RangeBounds ==
  ASSUME NEW F, FileSet(F), F # {}
  PROVE  /\ RangeOf(F).lo \in Int /\ RangeOf(F).hi \in Int /\ RangeOf(F).lo <= RangeOf(F).hi
         /\ \E f \in F : RangeOf(F).lo = f.smallest.key
         /\ \E f \in F : RangeOf(F).hi = f.largest.key
         /\ \A f \in F : RangeOf(F).lo <= f.smallest.key /\ f.largest.key <= RangeOf(F).hi
<1> DEFINE S == {f.smallest : f \in F}
           L == {f.largest : f \in F}
           s == SmallestKey(S)
           t == LargestKey(L)
<1>1. \A f \in F : /\ IsEntry(f.smallest) /\ IsEntry(f.largest)
                   /\ f.smallest.key <= f.largest.key
                   /\ f.smallest.key \in Int /\ f.largest.key \in Int
  BY TableRange DEF FileSet, IsEntry
<1>2. IsFiniteSet(S)
  <2> DEFINE g == [f \in F |-> f.smallest]
  <2>1. g \in Surjection(F, S)
    BY DEF Surjection
  <2> HIDE DEF g, S
  <2> QED
    BY <2>1, FS_Surjection DEF FileSet
<1>3. IsFiniteSet(L)
  <2> DEFINE g == [f \in F |-> f.largest]
  <2>1. g \in Surjection(F, L)
    BY DEF Surjection
  <2> HIDE DEF g, L
  <2> QED
    BY <2>1, FS_Surjection DEF FileSet
<1>4. S # {} /\ L # {} /\ (\A e \in S : IsEntry(e)) /\ (\A e \in L : IsEntry(e))
  BY <1>1
<1>5. s \in S /\ \A d \in S : AtOrBefore(s, d)
  <2> HIDE DEF S, L
  <2> QED
    BY <1>2, <1>4, FirstAndLast
<1>6. t \in L /\ \A d \in L : AtOrBefore(d, t)
  <2> HIDE DEF S, L
  <2> QED
    BY <1>3, <1>4, FirstAndLast
<1>7. RangeOf(F).lo = s.key /\ RangeOf(F).hi = t.key
  BY DEF RangeOf
<1> HIDE DEF s, t
<1>8. PICK f \in F : s = f.smallest
  BY <1>5
<1>9. PICK g \in F : t = g.largest
  BY <1>6
<1>10. ASSUME NEW h \in F PROVE s.key <= h.smallest.key /\ h.largest.key <= t.key
  <2>1. AtOrBefore(s, h.smallest) /\ AtOrBefore(h.largest, t)
    BY <1>5, <1>6
  <2>2. IsEntry(s) /\ IsEntry(t) /\ IsEntry(h.smallest) /\ IsEntry(h.largest)
    BY <1>1, <1>8, <1>9
  <2> QED
    BY <2>1, <2>2, EntryOrder
<1>11. s.key <= f.largest.key /\ f.largest.key <= t.key
  BY <1>1, <1>8, <1>10
<1>12. s.key \in Int /\ t.key \in Int
  BY <1>1, <1>8, <1>9
<1> HIDE DEF S, L
<1>13. s.key <= t.key
  BY <1>1, <1>11, <1>12
<1> QED
  BY <1>7, <1>8, <1>9, <1>10, <1>12, <1>13

\* GetOverlappingInputs finds all files that overlap the range, and above level 0
\* no others.
LEMMA OverlappingAreFound ==
  ASSUME NEW v, NEW l, NEW r
  PROVE  /\ \A f \in v[l] : Overlaps(f, r) => f \in GetOverlappingInputs(v, l, r)
         /\ l # 0 => GetOverlappingInputs(v, l, r) = {f \in v[l] : Overlaps(f, r)}
         /\ GetOverlappingInputs(v, l, r) \subseteq v[l]
<1> DEFINE overlapping == {f \in v[l] : Overlaps(f, r)}
           further(T)  == overlapping \cup {f \in v[l] : \E g \in T : Overlaps(f, RangeOf({g}))}
<1>1. l # 0 => GetOverlappingInputs(v, l, r) = overlapping
  BY DEF GetOverlappingInputs
<1>2. l = 0 => GetOverlappingInputs(v, l, r) = {f \in v[0] : \A T \in SUBSET v[0] : further(T) \subseteq T => f \in T}
  BY DEF GetOverlappingInputs, Search
<1>3. \A T : overlapping \subseteq further(T)
  OBVIOUS
<1> HIDE DEF further
<1>4. overlapping \subseteq v[l]
  OBVIOUS
<1> HIDE DEF overlapping
<1>5. overlapping \subseteq GetOverlappingInputs(v, l, r) /\ GetOverlappingInputs(v, l, r) \subseteq v[l]
  BY <1>1, <1>2, <1>3, <1>4
<1> QED
  BY <1>1, <1>5 DEF overlapping

\* Files found by overlap lie on the side of a user key on which the range lies,
\* unless one of them covers it.
LEMMA OverlappingStayAside ==
  ASSUME NEW v, NEW l, FileSet(v[l]), NEW r, NEW k \in Int, r.lo \in Int, r.hi \in Int,
         Clear(GetOverlappingInputs(v, l, r), k)
  PROVE  /\ r.hi < k => EndBefore(GetOverlappingInputs(v, l, r), k)
         /\ k < r.lo => StartBehind(GetOverlappingInputs(v, l, r), k)
<1> DEFINE G == GetOverlappingInputs(v, l, r)
           overlapping == {f \in v[l] : Overlaps(f, r)}
           further(T)  == overlapping \cup {f \in v[l] : \E g \in T : Overlaps(f, RangeOf({g}))}
           before == {f \in G : f.largest.key < k}
           behind == {f \in G : k < f.smallest.key}
<1>1. \A f \in v[l] : f.smallest.key \in Int /\ f.largest.key \in Int /\ f.smallest.key <= f.largest.key
  BY TableRange DEF FileSet, IsEntry
<1>2. G \subseteq v[l] /\ overlapping \subseteq G /\ (l # 0 => G = overlapping)
  BY OverlappingAreFound
<1>3. \A f \in G : f.largest.key < k \/ k < f.smallest.key
  BY DEF Clear
<1>4. r.hi < k => \A f \in overlapping : f \in before
  BY <1>1, <1>2, <1>3 DEF Overlaps
<1>5. k < r.lo => \A f \in overlapping : f \in behind
  BY <1>1, <1>2, <1>3 DEF Overlaps
<1>6. CASE l # 0
  <2> HIDE DEF overlapping, G
  <2> QED
    BY <1>2, <1>4, <1>5, <1>6 DEF EndBefore, StartBehind, G
<1>7. CASE l = 0
  <2>1. G = {f \in v[0] : \A T \in SUBSET v[0] : further(T) \subseteq T => f \in T}
    BY <1>7 DEF GetOverlappingInputs, Search
  <2>2. \A T, U : T \subseteq U => further(T) \subseteq further(U)
    BY <1>7
  <2>3. further(G) \subseteq v[0]
    BY <1>7
  <2>4. ASSUME NEW g \in v[l], NEW f \in v[l], Overlaps(f, RangeOf({g}))
        PROVE  f.largest.key >= g.smallest.key /\ f.smallest.key <= g.largest.key
    <3>1. FileSet({g}) /\ {g} # {}
      BY FS_Singleton DEF FileSet
    <3>2. RangeOf({g}).lo = g.smallest.key /\ RangeOf({g}).hi = g.largest.key
      BY <3>1, RangeBounds
    <3> QED
      BY <2>4, <3>2 DEF Overlaps
  <2>5. \A T \in SUBSET G : \A f \in further(T) : f \in overlapping \/
          (f \in v[l] /\ \E g \in T : f.largest.key >= g.smallest.key /\ f.smallest.key <= g.largest.key)
    BY <1>2, <2>4
  <2> HIDE DEF further
  <2>6. further(G) \subseteq G
    <3> SUFFICES ASSUME NEW f \in further(G), NEW T \in SUBSET v[0], further(T) \subseteq T PROVE f \in T
      BY <2>1, <2>3
    <3>1. G \subseteq T
      BY <2>1
    <3> QED
      BY <2>2, <3>1
  <2> HIDE DEF overlapping, G
  <2>7. ASSUME r.hi < k PROVE EndBefore(G, k)
    <3>1. ASSUME NEW f \in further(before) PROVE f \in before
      <4>1. before \in SUBSET G
        OBVIOUS
      <4>2. f \in G
        BY <2>2, <2>6, <4>1
      <4>3. CASE f \in overlapping
        BY <1>4, <2>7, <4>3
      <4>4. ASSUME NEW g \in before, f.smallest.key <= g.largest.key PROVE f \in before
        BY <1>1, <1>2, <1>3, <4>2, <4>4
      <4> QED
        BY <2>5, <4>1, <4>3, <4>4
    <3>2. before \in SUBSET v[0]
      BY <1>2, <1>7
    <3> HIDE DEF before
    <3>3. G \subseteq before
      BY <2>1, <3>1, <3>2
    <3> QED
      BY <3>3 DEF EndBefore, before
  <2>8. ASSUME k < r.lo PROVE StartBehind(G, k)
    <3>1. ASSUME NEW f \in further(behind) PROVE f \in behind
      <4>1. behind \in SUBSET G
        OBVIOUS
      <4>2. f \in G
        BY <2>2, <2>6, <4>1
      <4>3. CASE f \in overlapping
        BY <1>5, <2>8, <4>3
      <4>4. ASSUME NEW g \in behind, f.largest.key >= g.smallest.key PROVE f \in behind
        BY <1>1, <1>2, <1>3, <4>2, <4>4
      <4> QED
        BY <2>5, <4>1, <4>3, <4>4
    <3>2. behind \in SUBSET v[0]
      BY <1>2, <1>7
    <3> HIDE DEF behind
    <3>3. G \subseteq behind
      BY <2>1, <3>1, <3>2
    <3> QED
      BY <3>3 DEF StartBehind, behind
  <2> QED
    BY <2>7, <2>8 DEF G
<1> QED
  BY <1>6, <1>7

\* So do the boundary files taken in.
LEMMA BoundaryStaysAside ==
  ASSUME NEW v, NEW l, FileSet(v[l]), NEW F \in SUBSET v[l], F # {}, NEW k \in Int,
         Clear(AddBoundaryInputs(v, l, F), k)
  PROVE  /\ F \subseteq AddBoundaryInputs(v, l, F) /\ AddBoundaryInputs(v, l, F) \subseteq v[l]
         /\ EndBefore(F, k) => EndBefore(AddBoundaryInputs(v, l, F), k)
         /\ StartBehind(F, k) => StartBehind(AddBoundaryInputs(v, l, F), k)
<1> DEFINE first == FindSmallestBoundaryFile(v, l, FindLargestKey(F))
           further(T) == first \cup UNION {FindSmallestBoundaryFile(v, l, g.largest) : g \in T}
           G == {f \in v[l] : \A T \in SUBSET v[l] : further(T) \subseteq T => f \in T}
           before == {f \in G : f.largest.key < k}
           behind == {f \in G : k < f.smallest.key}
<1>1. AddBoundaryInputs(v, l, F) = F \cup G
  BY DEF AddBoundaryInputs, Search
<1>2. \A f \in v[l] : f.smallest.key \in Int /\ f.largest.key \in Int /\ f.smallest.key <= f.largest.key
  BY TableRange DEF FileSet, IsEntry
<1>3. \A f \in F \cup G : f.largest.key < k \/ k < f.smallest.key
  BY <1>1 DEF Clear
<1>4. G \subseteq v[l]
  OBVIOUS
<1>5. \A x : FindSmallestBoundaryFile(v, l, x) \subseteq {f \in v[l] : f.smallest.key = x.key}
  BY DEF FindSmallestBoundaryFile, BoundaryFiles
<1>6. PICK h \in F : FindLargestKey(F) = h.largest
  <2> DEFINE L == {f.largest : f \in F}
             g == [f \in F |-> f.largest]
  <2>1. g \in Surjection(F, L)
    BY DEF Surjection
  <2>2. IsFiniteSet(F)
    BY FS_Subset DEF FileSet
  <2>3. \A e \in L : IsEntry(e)
    BY TableRange DEF FileSet
  <2>4. L # {}
    OBVIOUS
  <2> HIDE DEF L, g
  <2>5. LargestKey(L) \in L
    BY <2>1, <2>2, <2>3, <2>4, FS_Surjection, FirstAndLast
  <2> QED
    BY <2>5 DEF FindLargestKey, L
<1>7. \A f \in first : f \in v[l] /\ f.smallest.key = h.largest.key
  BY <1>5, <1>6
<1>8. \A T \in SUBSET v[l] : \A f \in further(T) :
         f \in v[l] /\ \E g \in F \cup T : f.smallest.key = g.largest.key
  <2> HIDE DEF first
  <2> QED
    BY <1>5, <1>7
<1>9. \A T, U : T \subseteq U => further(T) \subseteq further(U)
  <2> HIDE DEF first
  <2> QED
    OBVIOUS
<1> HIDE DEF further
<1>10. further(G) \subseteq G
  <2> SUFFICES ASSUME NEW f \in further(G), NEW T \in SUBSET v[l], further(T) \subseteq T PROVE f \in T
    BY <1>4, <1>8
  <2>1. G \subseteq T
    OBVIOUS
  <2> QED
    BY <1>9, <2>1
<1>11. \A T \in SUBSET v[l] : further(T) \subseteq T => G \subseteq T
  OBVIOUS
<1> HIDE DEF G
<1>12. ASSUME EndBefore(F, k) PROVE EndBefore(G, k)
  <2>1. before \in SUBSET G /\ before \in SUBSET v[l]
    BY <1>4
  <2>2. ASSUME NEW f \in further(before) PROVE f \in before
    <3>1. f \in G
      BY <1>9, <1>10, <2>1
    <3>2. PICK g \in F \cup before : f.smallest.key = g.largest.key
      BY <1>8, <2>1
    <3>3. g.largest.key < k /\ g \in v[l]
      BY <1>12, <2>1, <3>2 DEF EndBefore
    <3> QED
      BY <1>2, <1>3, <1>4, <3>1, <3>2, <3>3
  <2> HIDE DEF before
  <2>3. G \subseteq before
    BY <1>11, <2>1, <2>2
  <2> QED
    BY <2>3 DEF EndBefore, before
<1>13. ASSUME StartBehind(F, k) PROVE StartBehind(G, k)
  <2>1. behind \in SUBSET G /\ behind \in SUBSET v[l]
    BY <1>4
  <2>2. ASSUME NEW f \in further(behind) PROVE f \in behind
    <3>1. f \in G
      BY <1>9, <1>10, <2>1
    <3>2. PICK g \in F \cup behind : f.smallest.key = g.largest.key
      BY <1>8, <2>1
    <3>3. k < g.smallest.key /\ g \in v[l]
      BY <1>13, <2>1, <3>2 DEF StartBehind
    <3> QED
      BY <1>2, <1>3, <1>4, <3>1, <3>2, <3>3
  <2> HIDE DEF behind
  <2>3. G \subseteq behind
    BY <1>11, <2>1, <2>2
  <2> QED
    BY <2>3 DEF StartBehind, behind
<1>14. F \subseteq F \cup G /\ F \cup G \subseteq v[l]
  BY <1>4
<1>15. EndBefore(F, k) => EndBefore(F \cup G, k)
  BY <1>12 DEF EndBefore
<1>16. StartBehind(F, k) => StartBehind(F \cup G, k)
  BY <1>13 DEF StartBehind
<1> QED
  BY <1>1, <1>14, <1>15, <1>16

\* A user key that no file of I covers has all of them on one side.
Linked(I) == \A k \in Int : Clear(I, k) => EndBefore(I, k) \/ StartBehind(I, k)

Apart(g, E) == (\A e \in E : Before(g.largest, e)) \/ (\A e \in E : Before(e, g.smallest))

\* Boundary files are files of the level, behind those that ask for them.
LEMMA BoundaryFilesAdd ==
  ASSUME NEW v, NEW l, NEW F, F \subseteq v[l]
  PROVE  F \subseteq AddBoundaryInputs(v, l, F) /\ AddBoundaryInputs(v, l, F) \subseteq v[l]
BY DEF AddBoundaryInputs, Search

\* More files have a larger range.
LEMMA LargerRange ==
  ASSUME NEW G, FileSet(G), NEW F \in SUBSET G, F # {}
  PROVE  /\ RangeOf(G).lo <= RangeOf(F).lo /\ RangeOf(F).hi <= RangeOf(G).hi
         /\ RangeOf(F).lo \in Int /\ RangeOf(F).hi \in Int
         /\ RangeOf(G).lo \in Int /\ RangeOf(G).hi \in Int
<1>1. FileSet(F)
  BY FS_Subset DEF FileSet
<1> QED
  BY <1>1, RangeBounds

\* The side of a set of files is that of its range.
LEMMA SideOfRange ==
  ASSUME NEW F, FileSet(F), F # {}, NEW k \in Int
  PROVE  /\ EndBefore(F, k) => RangeOf(F).hi < k
         /\ StartBehind(F, k) => k < RangeOf(F).lo
BY RangeBounds DEF EndBefore, StartBehind

\* The inputs PickCompaction starts from, grown or not, are linked by their ranges.
LEMMA InputsAreLinked ==
  ASSUME NEW v, NEW l \in Nat, FileSet(v[l]), FileSet(v[l + 1]), NEW f \in v[l]
  PROVE  LET c == SetupOtherInputs(v, l, StartingFiles(v, l, f))
         IN  /\ Linked(InputsOf(c)) /\ c.in0 # {}
             /\ c.in1 = GetOverlappingInputs(v, l + 1, RangeOf(c.in0))
<1> DEFINE F         == StartingFiles(v, l, f)
           inputs0   == AddBoundaryInputs(v, l, F)
           inputs1   == GetOverlappingInputs(v, l + 1, RangeOf(inputs0))
           all       == RangeOf(inputs0 \cup inputs1)
           overlap0  == GetOverlappingInputs(v, l, all)
           expanded0 == AddBoundaryInputs(v, l, overlap0)
           expanded1 == GetOverlappingInputs(v, l + 1, RangeOf(expanded0))
           c         == SetupOtherInputs(v, l, F)
<1>0. \A m : \A g \in v[m] : GoodTable(g) =>
           g.smallest.key \in Int /\ g.largest.key \in Int /\ g.smallest.key <= g.largest.key
  BY TableRange DEF IsEntry
<1>1. \/ c.in0 = inputs0 /\ c.in1 = inputs1
      \/ c.in0 = expanded0 /\ c.in1 = expanded1
  BY DEF SetupOtherInputs
<1>2. RangeOf({f}).lo = f.smallest.key /\ RangeOf({f}).hi = f.largest.key
  <2>1. FileSet({f}) /\ {f} # {}
    BY FS_Singleton DEF FileSet
  <2> QED
    BY <2>1, RangeBounds
<1>3. f \in F /\ F \subseteq v[l]
  <2>1. Overlaps(f, RangeOf({f}))
    BY <1>0, <1>2 DEF Overlaps, FileSet
  <2> QED
    BY <2>1, OverlappingAreFound DEF StartingFiles
<1>4. F \subseteq inputs0 /\ inputs0 \subseteq v[l]
  <2>1. \A G : G \subseteq v[l]
                => G \subseteq AddBoundaryInputs(v, l, G) /\ AddBoundaryInputs(v, l, G) \subseteq v[l]
    BY BoundaryFilesAdd
  <2> QED
    BY <1>3, <2>1
<1>5. inputs1 \subseteq v[l + 1] /\ overlap0 \subseteq v[l]
  BY OverlappingAreFound
<1>6. \A S : (S \subseteq v[l] \/ S \subseteq v[l + 1]) => FileSet(S)
  BY FS_Subset DEF FileSet
<1>7. FileSet(inputs0) /\ FileSet(inputs1) /\ FileSet(inputs0 \cup inputs1) /\ inputs0 # {}
  <2>1. \A S, T : FileSet(S) /\ FileSet(T) => FileSet(S \cup T)
    BY FS_Union DEF FileSet
  <2> HIDE DEF inputs0, inputs1
  <2> QED
    BY <1>3, <1>4, <1>5, <1>6, <2>1
<1>8. all.lo \in Int /\ all.hi \in Int
  <2> DEFINE I == inputs0 \cup inputs1
  <2>1. FileSet(I) /\ I # {}
    BY <1>7
  <2> HIDE DEF I
  <2> QED
    BY <2>1, RangeBounds DEF I
<1>9. inputs0 \subseteq overlap0
  <2> DEFINE I == inputs0 \cup inputs1
  <2>1. FileSet(I) /\ I # {} /\ inputs0 \subseteq I
    BY <1>7
  <2> HIDE DEF I, inputs0
  <2>2. ASSUME NEW g \in inputs0 PROVE Overlaps(g, RangeOf(I))
    <3>1. RangeOf(I).lo <= g.smallest.key /\ g.largest.key <= RangeOf(I).hi
          /\ RangeOf(I).lo \in Int /\ RangeOf(I).hi \in Int
      BY <2>1, RangeBounds
    <3>2. g.smallest.key \in Int /\ g.largest.key \in Int /\ g.smallest.key <= g.largest.key
      BY <1>0, <1>4 DEF FileSet
    <3> QED
      BY <3>1, <3>2 DEF Overlaps
  <2>3. \A g \in v[l] : Overlaps(g, RangeOf(I)) => g \in GetOverlappingInputs(v, l, RangeOf(I))
    BY OverlappingAreFound
  <2>4. inputs0 \subseteq v[l]
    BY <1>4
  <2>5. inputs0 \subseteq GetOverlappingInputs(v, l, RangeOf(I))
    BY <2>2, <2>3, <2>4
  <2> QED
    BY <2>5 DEF I
<1>10. overlap0 \subseteq expanded0 /\ expanded0 \subseteq v[l]
  <2> HIDE DEF overlap0
  <2> QED
    BY <1>5, BoundaryFilesAdd
<1>11. FileSet(expanded0) /\ expanded0 # {} /\ FileSet(overlap0) /\ overlap0 # {}
  <2> HIDE DEF inputs0, inputs1, overlap0, expanded0
  <2> QED
    BY <1>5, <1>6, <1>7, <1>9, <1>10
<1>12. inputs1 \subseteq expanded1
  <2>1. inputs0 \subseteq expanded0
    BY <1>9, <1>10
  <2> DEFINE r == RangeOf(inputs0)
             x == RangeOf(expanded0)
  <2>2. x.lo <= r.lo /\ r.hi <= x.hi /\ r.lo \in Int /\ r.hi \in Int /\ x.lo \in Int /\ x.hi \in Int
    BY <1>7, <1>11, <2>1, LargerRange
  <2>3. /\ inputs1 = {g \in v[l + 1] : Overlaps(g, r)}
        /\ expanded1 = {g \in v[l + 1] : Overlaps(g, x)}
    BY OverlappingAreFound
  <2> HIDE DEF r, x
  <2>4. ASSUME NEW g \in v[l + 1], Overlaps(g, r) PROVE Overlaps(g, x)
    BY <1>0, <2>2, <2>4 DEF Overlaps, FileSet
  <2> QED
    BY <2>3, <2>4
<1>13. RangeOf(inputs0).lo \in Int /\ RangeOf(inputs0).hi \in Int
       /\ RangeOf(expanded0).lo \in Int /\ RangeOf(expanded0).hi \in Int
  BY <1>7, <1>11, RangeBounds
\* The inputs before they grow.
<1>14. ASSUME NEW k \in Int, Clear(inputs0 \cup inputs1, k)
       PROVE  \/ EndBefore(inputs0, k) /\ EndBefore(inputs1, k)
              \/ StartBehind(inputs0, k) /\ StartBehind(inputs1, k)
  <2>1. Clear(inputs0, k) /\ Clear(inputs1, k) /\ Clear(F, k)
    BY <1>4, <1>14 DEF Clear
  <2>2. EndBefore(F, k) \/ StartBehind(F, k)
    <3>1. CASE l # 0
      BY <1>3, <2>1, <3>1 DEF Clear, EndBefore, StartBehind, StartingFiles
    <3>2. CASE l = 0
      <4>1. F = GetOverlappingInputs(v, l, RangeOf({f}))
        BY <3>2 DEF StartingFiles
      <4>2. f.largest.key < k \/ k < f.smallest.key
        BY <1>3, <2>1 DEF Clear
      <4>3. RangeOf({f}).lo \in Int /\ RangeOf({f}).hi \in Int
        BY <1>0, <1>2 DEF FileSet
      <4> QED
        BY <1>2, <2>1, <4>1, <4>2, <4>3, OverlappingStayAside
    <3> QED
      BY <3>1, <3>2
  <2>3. /\ EndBefore(F, k) => EndBefore(inputs0, k)
        /\ StartBehind(F, k) => StartBehind(inputs0, k)
    BY <1>3, <2>1, BoundaryStaysAside
  <2>4. /\ EndBefore(inputs0, k) => RangeOf(inputs0).hi < k
        /\ StartBehind(inputs0, k) => k < RangeOf(inputs0).lo
    BY <1>7, SideOfRange
  <2>5. /\ RangeOf(inputs0).hi < k => EndBefore(inputs1, k)
        /\ k < RangeOf(inputs0).lo => StartBehind(inputs1, k)
    BY <1>13, <2>1, OverlappingStayAside
  <2> QED
    BY <2>2, <2>3, <2>4, <2>5
\* The inputs after they grow.
<1>15. ASSUME NEW k \in Int, Clear(expanded0 \cup expanded1, k)
       PROVE  \/ EndBefore(expanded0, k) /\ EndBefore(expanded1, k)
              \/ StartBehind(expanded0, k) /\ StartBehind(expanded1, k)
  <2>1. Clear(expanded0, k) /\ Clear(expanded1, k) /\ Clear(overlap0, k)
    BY <1>10, <1>15 DEF Clear
  <2>2. Clear(inputs0 \cup inputs1, k)
    <3> HIDE DEF inputs0, inputs1, overlap0, expanded0, expanded1
    <3> QED
      BY <1>9, <1>12, <2>1 DEF Clear
  <2>3. EndBefore(inputs0 \cup inputs1, k) \/ StartBehind(inputs0 \cup inputs1, k)
    BY <1>14, <2>2 DEF EndBefore, StartBehind
  <2>4. all.hi < k \/ k < all.lo
    <3> DEFINE I == inputs0 \cup inputs1
    <3>1. FileSet(I) /\ I # {} /\ (EndBefore(I, k) \/ StartBehind(I, k))
      BY <1>7, <2>3
    <3> HIDE DEF I
    <3> QED
      BY <3>1, SideOfRange DEF I
  <2>5. EndBefore(overlap0, k) \/ StartBehind(overlap0, k)
    BY <1>8, <2>1, <2>4, OverlappingStayAside
  <2>6. /\ EndBefore(overlap0, k) => EndBefore(expanded0, k)
        /\ StartBehind(overlap0, k) => StartBehind(expanded0, k)
    BY <1>5, <1>11, <2>1, BoundaryStaysAside
  <2>7. /\ EndBefore(expanded0, k) => RangeOf(expanded0).hi < k
        /\ StartBehind(expanded0, k) => k < RangeOf(expanded0).lo
    BY <1>11, SideOfRange
  <2>8. /\ RangeOf(expanded0).hi < k => EndBefore(expanded1, k)
        /\ k < RangeOf(expanded0).lo => StartBehind(expanded1, k)
    BY <1>13, <2>1, OverlappingStayAside
  <2> QED
    BY <2>5, <2>6, <2>7, <2>8
<1>16. Linked(InputsOf(c))
  <2> SUFFICES ASSUME NEW k \in Int, Clear(c.in0 \cup c.in1, k)
               PROVE  EndBefore(c.in0 \cup c.in1, k) \/ StartBehind(c.in0 \cup c.in1, k)
    BY DEF Linked, InputsOf
  <2> HIDE DEF c, inputs0, inputs1, expanded0, expanded1
  <2>1. \/ EndBefore(c.in0, k) /\ EndBefore(c.in1, k)
        \/ StartBehind(c.in0, k) /\ StartBehind(c.in1, k)
    BY <1>1, <1>14, <1>15
  <2> QED
    BY <2>1 DEF EndBefore, StartBehind
<1>17. c.in0 # {} /\ c.in1 = GetOverlappingInputs(v, l + 1, RangeOf(c.in0))
  BY <1>1, <1>7, <1>11
<1> QED
  BY <1>16, <1>17

\* A file of the next level that is no input lies outside all inputs.
LEMMA OthersAreApart ==
  ASSUME NEW v, NEW l \in Nat, LevelsAreSorted(v), l + 1 \in Levels, FileSet(v[l + 1]),
         NEW I0, FileSet(I0), I0 # {}, NEW I1, I1 = GetOverlappingInputs(v, l + 1, RangeOf(I0)),
         NEW g \in v[l + 1] \ I1
  PROVE  Apart(g, EntriesOf(I0 \cup I1))
<1> DEFINE r == RangeOf(I0)
<1>1. I1 = {h \in v[l + 1] : Overlaps(h, r)}
  BY OverlappingAreFound
<1>2. /\ r.lo \in Int /\ r.hi \in Int /\ r.lo <= r.hi
      /\ \A f \in I0 : r.lo <= f.smallest.key /\ f.largest.key <= r.hi
  BY RangeBounds
<1> HIDE DEF r
<1>3. \A f : GoodTable(f) =>
        /\ IsEntry(f.smallest) /\ IsEntry(f.largest) /\ f.smallest.key <= f.largest.key
        /\ f.smallest.key \in Int /\ f.largest.key \in Int
        /\ \A e \in f.entries : /\ IsEntry(e) /\ AtOrBefore(f.smallest, e) /\ AtOrBefore(e, f.largest)
                                /\ f.smallest.key <= e.key /\ e.key <= f.largest.key /\ e.key \in Int
  <2>1. ASSUME NEW f, GoodTable(f)
        PROVE  /\ IsEntry(f.smallest) /\ IsEntry(f.largest) /\ f.smallest.key <= f.largest.key
               /\ \A e \in f.entries : IsEntry(e) /\ AtOrBefore(f.smallest, e) /\ AtOrBefore(e, f.largest)
    BY <2>1, TableRange
  <2> QED
    BY <2>1, EntryOrder DEF IsEntry
<1>4. GoodTable(g) /\ (\A h \in I0 \cup I1 : GoodTable(h)) /\ (\A h \in I1 : h \in v[l + 1] /\ h # g)
  BY <1>1 DEF FileSet
<1>5. g.largest.key < r.lo \/ r.hi < g.smallest.key
  BY <1>1, <1>2, <1>3, <1>4 DEF Overlaps
<1>6. \A h \in I1 : Before(g.largest, h.smallest) \/ Before(h.largest, g.smallest)
  BY <1>4 DEF LevelsAreSorted
<1>7. \A h \in I1 : h.largest.key >= r.lo /\ h.smallest.key <= r.hi
  BY <1>1 DEF Overlaps
<1>8. ASSUME g.largest.key < r.lo, NEW h \in I0 \cup I1, NEW e \in h.entries PROVE Before(g.largest, e)
  <2>1. CASE h \in I0
    <3>1. g.largest.key < e.key
      BY <1>2, <1>3, <1>4, <1>8, <2>1
    <3> QED
      BY <3>1 DEF Before
  <2>2. CASE h \in I1
    <3>1. ~Before(h.largest, g.smallest)
      <4>1. g.smallest.key < h.largest.key
        BY <1>2, <1>3, <1>4, <1>7, <1>8, <2>2
      <4> QED
        BY <1>3, <1>4, <4>1 DEF Before
    <3>2. Before(g.largest, h.smallest)
      BY <1>6, <2>2, <3>1
    <3> QED
      BY <1>3, <1>4, <3>2, EntryOrder
  <2> QED
    BY <2>1, <2>2
<1>9. ASSUME r.hi < g.smallest.key, NEW h \in I0 \cup I1, NEW e \in h.entries PROVE Before(e, g.smallest)
  <2>1. CASE h \in I0
    <3>1. e.key < g.smallest.key
      BY <1>2, <1>3, <1>4, <1>9, <2>1
    <3> QED
      BY <3>1 DEF Before
  <2>2. CASE h \in I1
    <3>1. ~Before(g.largest, h.smallest)
      <4>1. h.smallest.key < g.largest.key
        BY <1>2, <1>3, <1>4, <1>7, <1>9, <2>2
      <4> QED
        BY <1>3, <1>4, <4>1 DEF Before
    <3>2. Before(h.largest, g.smallest)
      BY <1>6, <2>2, <3>1
    <3> QED
      BY <1>3, <1>4, <3>2, EntryOrder
  <2> QED
    BY <2>1, <2>2
<1> QED
  BY <1>5, <1>8, <1>9 DEF Apart, EntriesOf

-----------------------------------------------------------------------------
(* The levels stay sorted: what the background thread is about to write    *)

\* What the inputs of a compaction leave in their levels is clear of them.
InputsStay(v, c) ==
  /\ c.in0 \subseteq v[c.level] /\ c.in1 \subseteq v[c.level + 1]
  /\ \A g \in v[c.level + 1] \ c.in1 : Apart(g, EntriesOf(InputsOf(c)))

\* Its outputs follow one another, in front of what is left to write.
OutputsInOrder(c) ==
  /\ \A f, g \in c.outputs : f # g => Before(f.largest, g.smallest) \/ Before(g.largest, f.smallest)
  /\ \A f \in c.outputs, e \in c.todo : Before(f.largest, e)
  /\ c.todo \cup EntriesOf(c.outputs) \subseteq EntriesOf(InputsOf(c))

\* A memtable flushed while a compaction runs must find no gap between its inputs
\* at the level of its outputs: it would lie among them. The inputs of a compaction
\* the engine chooses are linked, and so there is none.
CompactInv ==
  compact # None /\ ~compact.manual =>
    /\ compact.level \in Levels /\ compact.level + 1 \in Levels
    /\ Linked(InputsOf(compact))
    /\ InputsStay(current, compact)
    /\ OutputsInOrder(compact)
    /\ edit # None /\ flush # None => InputsStay(ApplyEdit(current, edit), compact)

\* A flushed memtable overlaps no file above its level, nor at it.
LEMMA FlushedBelow ==
  ASSUME NEW v, NEW r, PickLevelForMemTableOutput(v, r) # 0
  PROVE  \A m \in 0..PickLevelForMemTableOutput(v, r) : ~OverlapInLevel(v, m, r)
<1> DEFINE free(l) == /\ ~OverlapInLevel(v, l, r)
                      /\ l + 1 \in Levels => TotalFileSize(GetOverlappingInputs(v, l + 1, r))
                                               <= MaxGrandParentOverlapBytes
           reached == {l \in 0..MaxMemCompactLevel : \A m \in 1..l : free(m)}
           p == PickLevelForMemTableOutput(v, r)
<1>1. ~OverlapInLevel(v, 0, r) /\ p = CHOOSE l \in reached : \A m \in reached : m <= l
  BY DEF PickLevelForMemTableOutput
<1>2. MaxMemCompactLevel \in Nat
  BY VersionSetAssumption
<1> HIDE DEF free
<1>3. reached \in SUBSET (0..MaxMemCompactLevel) /\ 0 \in reached
  BY <1>2
<1>4. \E l \in reached : \A m \in reached : m <= l
  <2> HIDE DEF reached
  <2>1. Max2(reached) \in reached /\ \A m \in reached : m <= Max2(reached)
    BY <1>2, <1>3, Greatest
  <2> QED
    BY <2>1
<1>5. p \in reached
  <2> HIDE DEF reached, p
  <2> QED
    BY <1>1, <1>4
<1>6. p \in Nat /\ \A m \in 1..p : free(m)
  BY <1>2, <1>5
<1>7. \A m : free(m) => ~OverlapInLevel(v, m, r)
  BY DEF free
<1> HIDE DEF p
<1>8. \A m \in 0..p : ~OverlapInLevel(v, m, r)
  BY <1>1, <1>6, <1>7
<1> QED
  BY <1>8 DEF p

\* A file that does not overlap another lies before or behind it.
LEMMA NoOverlap ==
  ASSUME NEW f, NEW g, GoodTable(f), GoodTable(g), ~Overlaps(g, RangeOf({f}))
  PROVE  g.largest.key < f.smallest.key \/ f.largest.key < g.smallest.key
<1>1. FileSet({f}) /\ {f} # {}
  BY FS_Singleton DEF FileSet
<1>2. RangeOf({f}).lo = f.smallest.key /\ RangeOf({f}).hi = f.largest.key
  BY <1>1, RangeBounds
<1>3. f.smallest.key \in Int /\ f.largest.key \in Int /\ g.smallest.key \in Int /\ g.largest.key \in Int
  BY TableRange DEF IsEntry
<1> QED
  BY <1>2, <1>3 DEF Overlaps

\* The edit of a flush.
LEMMA FlushEditIs ==
  /\ FlushEdit.deleted = {}
  /\ \A q \in FlushEdit.added :
       /\ imm # {} /\ q[2] = File(flush, imm)
       /\ q[1] = PickLevelForMemTableOutput(current, RangeOf({q[2]}))
<1> DEFINE place(f) == PickLevelForMemTableOutput(current, RangeOf({f}))
<1>1. FlushEdit.deleted = {} /\ FlushEdit.added = {<<place(f), f>> : f \in FlushOutput}
  BY DEF FlushEdit
<1>2. \A f \in FlushOutput : imm # {} /\ f = File(flush, imm)
  BY DEF FlushOutput
<1> HIDE DEF place
<1>3. \A q \in FlushEdit.added : imm # {} /\ q[2] = File(flush, imm) /\ q[1] = place(q[2])
  BY <1>1, <1>2
<1> QED
  BY <1>1, <1>3 DEF place

\* A flush puts its table where the level stays sorted.
LEMMA FlushKeepsOrder ==
  ASSUME LevelsAreSorted(current), \A f \in FilesOf(current) : GoodTable(f),
         flush \in Nat, MemTable(imm)
  PROVE  LevelsAreSorted(ApplyEdit(current, FlushEdit))
<1> DEFINE e == FlushEdit
           F == File(flush, imm)
           p == PickLevelForMemTableOutput(current, RangeOf({F}))
<1>1. e.deleted = {} /\ \A q \in e.added : imm # {} /\ q[2] = F /\ q[1] = p
  BY FlushEditIs
<1>2. \A l \in Levels : ApplyEdit(current, e)[l] = current[l] \cup {q[2] : q \in {s \in e.added : s[1] = l}}
  <2> HIDE DEF e
  <2> QED
    BY <1>1 DEF ApplyEdit
<1> SUFFICES ASSUME NEW l \in Levels \ {0}, NEW f \in ApplyEdit(current, e)[l],
                    NEW g \in ApplyEdit(current, e)[l], f # g
             PROVE  Before(f.largest, g.smallest) \/ Before(g.largest, f.smallest)
  BY DEF LevelsAreSorted
<1> HIDE DEF e, p, F
<1>3. \A h \in ApplyEdit(current, e)[l] : h \in current[l] \/ (h = F /\ l = p /\ imm # {})
  BY <1>1, <1>2
<1>4. CASE f \in current[l] /\ g \in current[l]
  BY <1>4 DEF LevelsAreSorted
<1>5. ASSUME NEW h \in current[l], l = p, imm # {}
      PROVE  Before(F.largest, h.smallest) \/ Before(h.largest, F.smallest)
  <2>1. GoodTable(F)
    BY <1>5, BuiltTable DEF F
  <2>2. GoodTable(h)
    BY DEF FilesOf
  <2>3. l \in Nat /\ l # 0
    BY VersionSetAssumption DEF Levels
  <2>4. ~OverlapInLevel(current, l, RangeOf({F}))
    <3>1. l \in 0..p
      BY <1>5, <2>3
    <3> QED
      BY <1>5, <2>3, <3>1, FlushedBelow DEF p
  <2>5. h.largest.key < F.smallest.key \/ F.largest.key < h.smallest.key
    BY <2>1, <2>2, <2>4, NoOverlap DEF OverlapInLevel
  <2> QED
    BY <2>5 DEF Before
<1> QED
  BY <1>3, <1>4, <1>5

\* Nor does it get among the inputs of a compaction whose inputs are linked.
LEMMA FlushStaysApart ==
  ASSUME \A f \in FilesOf(current) : GoodTable(f), flush \in Nat, MemTable(imm),
         NEW c, c.level \in Levels, c.level + 1 \in Levels, Linked(InputsOf(c)), InputsStay(current, c)
  PROVE  InputsStay(ApplyEdit(current, FlushEdit), c)
<1> DEFINE e == FlushEdit
           F == File(flush, imm)
           p == PickLevelForMemTableOutput(current, RangeOf({F}))
           v == ApplyEdit(current, e)
           n == c.level + 1
<1>1. e.deleted = {} /\ \A q \in e.added : imm # {} /\ q[2] = F /\ q[1] = p
  BY FlushEditIs
<1>2. \A l \in Levels : v[l] = current[l] \cup {q[2] : q \in {s \in e.added : s[1] = l}}
  <2> HIDE DEF e
  <2> QED
    BY <1>1 DEF ApplyEdit
<1>3. c.level \in Nat /\ n \in Nat /\ n # 0 /\ c.level \in 0..n /\ n \in 0..n /\ n \in Levels
  BY VersionSetAssumption DEF Levels
<1> HIDE DEF e, p, F, v, n
<1>4. \A h \in v[n] : h \in current[n] \/ (h = F /\ n = p /\ imm # {})
  BY <1>1, <1>2, <1>3
<1>5. c.in0 \subseteq v[c.level] /\ c.in1 \subseteq v[n]
  BY <1>2, <1>3 DEF InputsStay, n
<1>6. ASSUME n = p, imm # {} PROVE Apart(F, EntriesOf(InputsOf(c)))
  <2>1. GoodTable(F)
    BY <1>6, BuiltTable DEF F
  <2>2. ~OverlapInLevel(current, c.level, RangeOf({F})) /\ ~OverlapInLevel(current, n, RangeOf({F}))
    BY <1>3, <1>6, FlushedBelow DEF p
  <2>3. \A h \in InputsOf(c) : GoodTable(h) /\ ~Overlaps(h, RangeOf({F}))
    BY <1>3, <2>2 DEF InputsStay, InputsOf, OverlapInLevel, FilesOf, n
  <2>4. \A h \in InputsOf(c) : h.largest.key < F.smallest.key \/ F.largest.key < h.smallest.key
    BY <2>1, <2>3, NoOverlap
  <2>5. /\ F.smallest.key \in Int /\ F.largest.key \in Int /\ F.smallest.key <= F.largest.key
        /\ \A h \in InputsOf(c) : h.smallest.key \in Int /\ h.largest.key \in Int /\ h.smallest.key <= h.largest.key
    BY <2>1, <2>3, TableRange DEF IsEntry
  <2>6. Clear(InputsOf(c), F.smallest.key)
    BY <2>4, <2>5 DEF Clear
  <2>7. EndBefore(InputsOf(c), F.smallest.key) \/ StartBehind(InputsOf(c), F.smallest.key)
    BY <2>5, <2>6 DEF Linked
  <2>8. ASSUME NEW h \in InputsOf(c), NEW x \in h.entries
        PROVE  h.smallest.key <= x.key /\ x.key <= h.largest.key /\ x.key \in Int
    <3>1. IsEntry(x) /\ IsEntry(h.smallest) /\ IsEntry(h.largest)
          /\ AtOrBefore(h.smallest, x) /\ AtOrBefore(x, h.largest)
      BY <2>3, TableRange
    <3> QED
      BY <3>1, EntryOrder DEF IsEntry
  <2>9. CASE EndBefore(InputsOf(c), F.smallest.key)
    <3>1. ASSUME NEW h \in InputsOf(c), NEW x \in h.entries PROVE Before(x, F.smallest)
      <4>1. x.key < F.smallest.key
        BY <2>5, <2>8, <2>9 DEF EndBefore
      <4> QED
        BY <4>1 DEF Before
    <3> QED
      BY <3>1 DEF Apart, EntriesOf
  <2>10. CASE StartBehind(InputsOf(c), F.smallest.key)
    <3>1. ASSUME NEW h \in InputsOf(c), NEW x \in h.entries PROVE Before(F.largest, x)
      <4>1. F.largest.key < h.smallest.key
        BY <2>4, <2>5, <2>10 DEF StartBehind
      <4>2. F.largest.key < x.key
        BY <2>5, <2>8, <4>1
      <4> QED
        BY <4>2 DEF Before
    <3> QED
      BY <3>1 DEF Apart, EntriesOf
  <2> QED
    BY <2>7, <2>9, <2>10
<1>7. \A g \in v[n] \ c.in1 : Apart(g, EntriesOf(InputsOf(c)))
  BY <1>4, <1>6 DEF InputsStay, n
<1> QED
  BY <1>5, <1>7 DEF InputsStay, n, v, e

\* The edit of a compaction keeps the levels sorted.
LEMMA CompactionKeepsOrder ==
  ASSUME LevelsAreSorted(current), \A f \in compact.outputs : GoodTable(f),
         compact.level \in Levels, InputsStay(current, compact), OutputsInOrder(compact)
  PROVE  LevelsAreSorted(ApplyEdit(current, CompactionEdit))
<1> DEFINE e == CompactionEdit
           v == ApplyEdit(current, e)
           n == compact.level + 1
           O == compact.outputs
<1>0. compact.level \in Nat /\ n \in Nat /\ n # compact.level
  BY VersionSetAssumption DEF Levels
<1>1. /\ \A f : f \in compact.in1 => <<n, f>> \in e.deleted
      /\ \A q \in e.added : q[1] = n /\ q[2] \in O
  BY DEF CompactionEdit, InputDeletions
<1> HIDE DEF e
<1>2. \A l \in Levels : v[l] = {f \in current[l] : <<l, f>> \notin e.deleted}
                                 \cup {q[2] : q \in {s \in e.added : s[1] = l}}
  BY DEF ApplyEdit
<1> HIDE DEF v, n, O
<1>3. ASSUME NEW l \in Levels, NEW f \in v[l]
      PROVE  (f \in current[l] /\ <<l, f>> \notin e.deleted) \/ (l = n /\ f \in O)
  BY <1>1, <1>2
<1> SUFFICES ASSUME NEW l \in Levels \ {0}, NEW f \in v[l], NEW g \in v[l], f # g
             PROVE  Before(f.largest, g.smallest) \/ Before(g.largest, f.smallest)
  BY DEF LevelsAreSorted, v, e
<1>4. CASE f \in current[l] /\ g \in current[l]
  BY <1>4 DEF LevelsAreSorted
<1>5. CASE f \in O /\ g \in O
  BY <1>5 DEF OutputsInOrder, O
<1>6. ASSUME l = n, NEW x \in O, NEW h \in current[l], <<l, h>> \notin e.deleted
      PROVE  Before(h.largest, x.smallest) \/ Before(x.largest, h.smallest)
  <2>1. h \in current[n] \ compact.in1
    BY <1>1, <1>6
  <2>2. Apart(h, EntriesOf(InputsOf(compact)))
    BY <2>1 DEF InputsStay, n
  <2>3. x.smallest \in x.entries /\ x.largest \in x.entries
    BY TableRange DEF O
  <2>4. x.smallest \in EntriesOf(InputsOf(compact)) /\ x.largest \in EntriesOf(InputsOf(compact))
    BY <2>3 DEF OutputsInOrder, EntriesOf, O
  <2> QED
    BY <2>2, <2>4 DEF Apart
<1> QED
  BY <1>3, <1>4, <1>5, <1>6

\* One output more: it ends where the rest begins.
LEMMA OutputStaysInOrder ==
  ASSUME Shapes, compact # None, MemTable(compact.todo), OutputsInOrder(compact),
         NEW n \in Nat, NEW part \in OutputsOf(compact, compact.todo),
         compact' = [compact EXCEPT !.todo = @ \ part, !.outputs = @ \cup {File(n, part)}]
  PROVE  /\ OutputsInOrder(compact')
         /\ compact'.level = compact.level /\ compact'.in0 = compact.in0 /\ compact'.in1 = compact.in1
         /\ compact'.manual = compact.manual
<1> DEFINE f == File(n, part)
           todo == compact.todo
           O == compact.outputs
           E == EntriesOf(InputsOf(compact))
<1>1. /\ compact'.todo = todo \ part /\ compact'.outputs = O \cup {f}
      /\ compact'.level = compact.level /\ compact'.in0 = compact.in0 /\ compact'.in1 = compact.in1
      /\ compact'.manual = compact.manual
  BY DEF Shapes
<1>2. InputsOf(compact') = InputsOf(compact)
  BY <1>1 DEF InputsOf
<1>3. part \subseteq todo /\ part # {} /\ \A d \in part, e \in todo \ part : Before(d, e)
  BY DEF OutputsOf
<1>4. f.entries = part
  BY DEF File
<1>5. GoodTable(f)
  BY <1>3, FewerEntries, BuiltTable
<1>6. f.smallest \in part /\ f.largest \in part
  BY <1>4, <1>5, TableRange
<1>7. /\ \A g \in O, e \in todo : Before(g.largest, e)
      /\ \A g, h \in O : g # h => Before(g.largest, h.smallest) \/ Before(h.largest, g.smallest)
      /\ todo \cup EntriesOf(O) \subseteq E
  BY DEF OutputsInOrder
<1> HIDE DEF f, todo, O, E
<1>8. \A g \in O : Before(g.largest, f.smallest)
  BY <1>3, <1>6, <1>7
<1>9. \A e \in todo \ part : Before(f.largest, e)
  BY <1>3, <1>6
<1>10. (todo \ part) \cup EntriesOf(O \cup {f}) \subseteq E
  BY <1>3, <1>4, <1>7 DEF EntriesOf
<1>11. EntriesOf(InputsOf(compact')) = E
  BY <1>2 DEF E
<1> QED
  BY <1>1, <1>7, <1>8, <1>9, <1>10, <1>11 DEF OutputsInOrder

\* A compaction the engine chooses starts with linked inputs.
LEMMA CompactionStarts ==
  ASSUME FileInv, TypedInv, StartCompaction
  PROVE  CompactInv'
<1> SUFFICES ASSUME ~compact'.manual PROVE CompactInv'
  BY DEF CompactInv
<1>0. /\ VersionsTyped /\ WorkTyped /\ TablesAreGood /\ TablesAreFinite /\ CurrentIsSorted
  BY DEF TypedInv, TypeInv
<1>1. PICK c \in CompactionChoices : compact' = Compaction(c)
  BY DEF StartCompaction
<1>2. UNCHANGED <<current, edit, flush>> /\ edit = None
  BY DEF StartCompaction, BackgroundCompaction, NoBackgroundWork, setVars
<1>3. /\ compact'.level = c.level /\ compact'.in0 = c.in0 /\ compact'.in1 = c.in1
      /\ compact'.todo \subseteq EntriesOf(InputsOf(c)) /\ compact'.outputs = {}
      /\ manual = None
  BY <1>1 DEF Compaction, Kept
<1>4. PICK l \in Levels : \E F \in SUBSET current[l] :
            /\ l + 1 \in Levels /\ c = SetupOtherInputs(current, l, F)
            /\ \E f \in current[l] : F = StartingFiles(current, l, f)
  BY <1>0, <1>3, ChosenInputs
<1>5. PICK F \in SUBSET current[l] :
            /\ l + 1 \in Levels /\ c = SetupOtherInputs(current, l, F)
            /\ \E f \in current[l] : F = StartingFiles(current, l, f)
  BY <1>4
<1>6. \A m \in Levels : FileSet(current[m])
  <2>1. \A m \in Levels : current[m] \subseteq tables
    BY DEF FileInv, HeldFilesExist, HeldFiles, LiveFiles, FilesOf
  <2> QED
    BY <1>0, <2>1, FS_Subset DEF FileSet, TablesAreFinite, TablesAreGood
<1>7. l \in Nat
  BY VersionSetAssumption DEF Levels
<1>8. c.level = l /\ c.in0 \subseteq current[l] /\ c.in1 \subseteq current[l + 1]
  BY <1>5, SetupLevels
<1>9. Linked(InputsOf(c)) /\ c.in0 # {} /\ c.in1 = GetOverlappingInputs(current, l + 1, RangeOf(c.in0))
  <2>1. PICK f \in current[l] : F = StartingFiles(current, l, f)
    BY <1>5
  <2> DEFINE d == SetupOtherInputs(current, l, StartingFiles(current, l, f))
  <2>2. FileSet(current[l]) /\ FileSet(current[l + 1])
    BY <1>5, <1>6
  <2>3. Linked(InputsOf(d)) /\ d.in0 # {} /\ d.in1 = GetOverlappingInputs(current, l + 1, RangeOf(d.in0))
    BY <1>7, <2>2, InputsAreLinked
  <2>4. c = d
    BY <1>5, <2>1
  <2> HIDE DEF d
  <2> QED
    BY <2>3, <2>4
<1>10. \A g \in current[l + 1] \ c.in1 : Apart(g, EntriesOf(InputsOf(c)))
  <2>1. FileSet(c.in0)
    BY <1>6, <1>8, FS_Subset DEF FileSet
  <2>2. LevelsAreSorted(current) /\ FileSet(current[l + 1])
    BY <1>0, <1>5, <1>6 DEF CurrentIsSorted
  <2> QED
    BY <1>5, <1>7, <1>9, <2>1, <2>2, OthersAreApart DEF InputsOf
<1>11. InputsOf(compact') = InputsOf(c)
  BY <1>3 DEF InputsOf
<1>12. OutputsInOrder(compact')
  BY <1>3, <1>11 DEF OutputsInOrder, EntriesOf
<1>13. InputsStay(current', compact')
  BY <1>2, <1>3, <1>8, <1>10, <1>11 DEF InputsStay
<1> QED
  BY <1>2, <1>3, <1>5, <1>8, <1>9, <1>11, <1>12, <1>13 DEF CompactInv

\* Every step keeps the invariant of the compaction.
LEMMA CompactNext ==
  ASSUME FileInv, TypedInv, CompactInv, [Next]_vars
  PROVE  CompactInv'
<1>0. /\ Shapes /\ Quiet
  BY DEF FileInv
<1>1. CASE UNCHANGED <<current, edit, flush, compact>>
  BY <1>1 DEF CompactInv
<1>2. CASE compact' = None
  BY <1>2 DEF CompactInv
<1>3. CASE UNCHANGED <<current, compact>> /\ (edit' = None \/ flush' = None)
  BY <1>3 DEF CompactInv
<1>4. CASE FlushBuilt
  <2>1. flush # None /\ edit' = FlushEdit /\ UNCHANGED <<current, compact, flush>>
    BY <1>4 DEF FlushBuilt, LogAndApply, setVars
  <2>2. flush \in Nat
    BY <1>0, <2>1 DEF FileInv, Quiet, CountsAreAhead
  <2>3. MemTable(imm)
    BY <2>1 DEF TypedInv, TypeInv, WorkTyped, MemTyped
  <2>4. \A f \in FilesOf(current) : GoodTable(f)
    BY DEF FileInv, HeldFilesExist, HeldFiles, LiveFiles, TypedInv, TypeInv, TablesAreGood
  <2>5. compact # None /\ ~compact.manual => InputsStay(ApplyEdit(current, FlushEdit), compact)
    BY <2>2, <2>3, <2>4, FlushStaysApart DEF CompactInv
  <2> QED
    BY <2>1, <2>5 DEF CompactInv
<1>5. CASE StartCompaction
  BY <1>5, CompactionStarts
<1>6. CASE WriteOutput
  <2>1. compact # None /\ flush = None /\ UNCHANGED <<current, edit, flush>>
    BY <1>6 DEF WriteOutput, setVars
  <2>2. PICK part \in OutputsOf(compact, compact.todo) :
           compact' = [compact EXCEPT !.todo = @ \ part, !.outputs = @ \cup {File(nextFileNumber, part)}]
    BY <1>6 DEF WriteOutput
  <2>3. MemTable(compact.todo) /\ nextFileNumber \in Nat
    BY <2>1 DEF TypedInv, TypeInv, WorkTyped, CountsTyped
  <2>4. CASE OutputsInOrder(compact)
    <3>1. /\ OutputsInOrder(compact')
          /\ compact'.level = compact.level /\ compact'.in0 = compact.in0 /\ compact'.in1 = compact.in1
          /\ compact'.manual = compact.manual
      BY <1>0, <2>1, <2>2, <2>3, <2>4, OutputStaysInOrder
    <3> QED
      BY <2>1, <3>1 DEF CompactInv, InputsStay, InputsOf
  <2>5. CASE compact.manual
    <3>1. compact'.manual = compact.manual
      BY <1>0, <2>1, <2>2 DEF Shapes
    <3> QED
      BY <2>5, <3>1 DEF CompactInv
  <2> QED
    BY <2>1, <2>4, <2>5 DEF CompactInv
<1>7. CASE InstallFlush
  <2>1. /\ edit # None /\ flush # None /\ current' = ApplyEdit(current, edit) /\ edit' = None
        /\ compact' = compact
    BY <1>7 DEF InstallFlush, InstallVersion
  <2> QED
    BY <2>1 DEF CompactInv
<1>8. CASE Background
  <2>1. CASE StartFlush \/ BuildTableFails \/ BackgroundCallIdle \/ EditWritten
    BY <1>1, <1>3, <2>1 DEF StartFlush, BuildTableFails, BackgroundCallIdle, EditWritten, setVars
  <2>2. CASE StartTrivialMove \/ OutputFails \/ InstallMove \/ InstallCompaction
    BY <1>2, <2>2 DEF StartTrivialMove, BackgroundCompaction, NoBackgroundWork, OutputFails, InstallMove,
                      InstallCompaction, CleanupCompaction
  <2>3. CASE FinishCompaction
    BY <1>3, <2>3 DEF FinishCompaction, setVars
  <2>4. CASE EditFails
    BY <1>2, <1>3, <2>4 DEF EditFails, CleanupCompaction, setVars
  <2> QED
    BY <1>4, <1>5, <1>6, <1>7, <1>8, <2>1, <2>2, <2>3, <2>4 DEF Background
<1>9. CASE Write \/ Read
  <2>1. UNCHANGED <<current, edit, flush, compact>>
    BY <1>9 DEF Write, Enqueue, BeginWrite, ForceSwitch, RefuseWrite, AddRecord, SyncLog, ApplyWrite,
                AddRecordFails, SyncFails, NoSwitch, SwitchMemTable, setVars, bgVars,
                Read, StartRead, EndRead, GetSnapshot, ReleaseSnapshot, RequestCompactRange
  <2> QED
    BY <1>1, <2>1
<1>10. CASE Open
  <2>1. CASE NewDB \/ Recover \/ OpenInstalled
    <3>1. up # "open" /\ compact' = compact
      BY <2>1 DEF NewDB, Recover, OpenInstalled, bgVars
    <3> QED
      BY <1>0, <1>2, <3>1 DEF Quiet
  <2>2. CASE OpenFails
    BY <1>2, <2>2 DEF OpenFails, ProcessDies
  <2> QED
    BY <1>10, <2>1, <2>2 DEF Open
<1> QED
  BY <1>1, <1>2, <1>8, <1>9, <1>10 DEF Next, Abort, Crash, ProcessDies, vars, setVars, bgVars

\* A flush never brings SaveTo to its abort(), nor does a compaction the engine
\* chooses, whatever is flushed while it runs: its inputs leave no gap for a
\* memtable. Only a manual compaction may.
THEOREM OnlyManualCompactionsBringOverlaps == Spec => []OnlyManualCompactionsOverlap
<1>1. Init => CompactInv
  BY DEF Init, CompactInv
<1>2. FileInv /\ TypedInv /\ CompactInv /\ [Next]_vars => CompactInv'
  BY CompactNext
<1>3. Spec => []CompactInv
  BY <1>1, <1>2, TypedInvAlways, PTL DEF Spec
<1>4. ASSUME FileInv, TypedInv, CompactInv PROVE OnlyManualCompactionsOverlap
  <2> SUFFICES ASSUME NEW e \in EditsDue, ~(compact # None /\ compact.manual)
               PROVE  LevelsAreSorted(ApplyEdit(current, e))
    BY DEF OnlyManualCompactionsOverlap
  <2>1. LevelsAreSorted(current)
    BY <1>4 DEF TypedInv, CurrentIsSorted
  <2>2. \A f \in FilesOf(current) \cup Outputs : GoodTable(f)
    BY <1>4 DEF FileInv, HeldFilesExist, HeldFiles, LiveFiles, TypedInv, TypeInv, TablesAreGood
  <2>3. CASE flush # None /\ e = FlushEdit
    <3>1. flush \in Nat
      BY <1>4, <2>3 DEF FileInv, Quiet, CountsAreAhead
    <3>2. MemTable(imm)
      BY <1>4, <2>3 DEF TypedInv, TypeInv, WorkTyped, MemTyped
    <3> QED
      BY <2>1, <2>2, <2>3, <3>1, <3>2, FlushKeepsOrder
  <2>4. CASE compact # None /\ e = CompactionEdit
    <3>1. compact.level \in Levels /\ InputsStay(current, compact) /\ OutputsInOrder(compact)
      BY <1>4, <2>4 DEF CompactInv
    <3>2. \A f \in compact.outputs : GoodTable(f)
      BY <2>2, <2>4 DEF Outputs
    <3> QED
      BY <2>1, <2>4, <3>1, <3>2, CompactionKeepsOrder
  <2> QED
    BY <2>3, <2>4 DEF EditsDue
<1> QED
  BY <1>3, <1>4, TypedInvAlways, PTL

-----------------------------------------------------------------------------
(* Reads of a compaction                                                   *)

\* What a Get finds that looks in E, the inputs or the outputs of a compaction,
\* and then in B, the levels below them.
Found(E, B, k, s) == IF Newest(E, k, s) # {} THEN Newest(E, k, s) ELSE Newest(B, k, s)

\* No two entries of a key have the same sequence number.
Distinct(E) == \A d, e \in E : d.key = e.key /\ d.seq = e.seq => d = e

HasSeqs(E) == \A e \in E : e.seq \in Int

\* An entry that a reader finds in what is kept is the one it found before.
LEMMA KeptIsNewest ==
  ASSUME NEW E, HasSeqs(E), NEW smallest \in Int, NEW IsBase, NEW k, NEW s \in Int,
         NEW e \in Newest(Kept(E, smallest, IsBase), k, s)
  PROVE  e \in Newest(E, k, s)
<1>1. /\ e \in E /\ e.key = k /\ e.seq <= s /\ e.seq \in Int
      /\ ~Hidden(E, e, smallest)
      /\ \A d \in Kept(E, smallest, IsBase) : d.key = k /\ d.seq <= s => d.seq <= e.seq
  BY DEF Newest, Kept, HasSeqs
<1>2. ASSUME NEW d \in E, d.key = k, d.seq <= s, ~(d.seq <= e.seq)
      PROVE  FALSE
  <2>1. d.seq \in Int /\ e.seq < d.seq
    BY <1>1, <1>2 DEF HasSeqs
  <2>2. d \notin Kept(E, smallest, IsBase)
    BY <1>1, <1>2
  <2>3. CASE ObsoleteMarker(d, smallest, IsBase)
    BY <1>1, <1>2, <2>1, <2>3 DEF Hidden, ObsoleteMarker
  <2>4. CASE Hidden(E, d, smallest)
    <3>1. PICK c \in E : c.key = d.key /\ d.seq < c.seq /\ c.seq <= smallest
      BY <2>4 DEF Hidden
    <3>2. e.seq < c.seq /\ c.key = e.key
      BY <1>1, <1>2, <2>1, <3>1 DEF HasSeqs
    <3> QED
      BY <1>1, <3>1, <3>2 DEF Hidden
  <2> QED
    BY <2>2, <2>3, <2>4 DEF Kept
<1> QED
  BY <1>1, <1>2 DEF Newest

\* The entry a reader found before is kept, unless it is an obsolete marker.
LEMMA NewestIsKept ==
  ASSUME NEW E, HasSeqs(E), NEW smallest \in Int, NEW IsBase, NEW k, NEW s \in Int, smallest <= s,
         NEW e \in Newest(E, k, s), ~ObsoleteMarker(e, smallest, IsBase)
  PROVE  e \in Newest(Kept(E, smallest, IsBase), k, s)
<1>1. /\ e \in E /\ e.key = k /\ e.seq <= s /\ e.seq \in Int
      /\ \A d \in E : d.key = k /\ d.seq <= s => d.seq <= e.seq
  BY DEF Newest, HasSeqs
<1>2. ASSUME NEW d \in E, d.key = e.key, e.seq < d.seq, d.seq <= smallest
      PROVE  FALSE
  <2>1. d.seq \in Int
    BY DEF HasSeqs
  <2> QED
    BY <1>1, <1>2, <2>1
<1>3. e \in Kept(E, smallest, IsBase)
  BY <1>1, <1>2 DEF Kept, Hidden
<1> QED
  BY <1>1, <1>3 DEF Newest, Kept

\* A reader at a snapshot the compaction knows of, or a later one, finds the same
\* entry in the outputs as in the inputs; or it found a deletion marker before
\* and finds nothing now. (DoCompactionWork's rule (A), and its rule for markers,
\* which needs that keys of IsBase are in no level below.)
THEOREM CompactionKeepsReads ==
  ASSUME NEW E, HasSeqs(E), Distinct(E), NEW B, NEW smallest \in Int, NEW IsBase,
         \A b \in B : b.key \notin IsBase,
         NEW k, NEW s \in Int, smallest <= s
  PROVE  LET outputs == Kept(E, smallest, IsBase)
         IN  \/ Found(outputs, B, k, s) = Found(E, B, k, s)
             \/ /\ Found(outputs, B, k, s) = {}
                /\ \A e \in Found(E, B, k, s) : e.val = Deleted
<1> DEFINE outputs == Kept(E, smallest, IsBase)
<1>1. Newest(outputs, k, s) \subseteq Newest(E, k, s)
  BY KeptIsNewest
<1>2. \A d, e \in Newest(E, k, s) : d = e
  <2> SUFFICES ASSUME NEW d \in Newest(E, k, s), NEW e \in Newest(E, k, s) PROVE d = e
    OBVIOUS
  <2>1. d \in E /\ e \in E /\ d.key = e.key /\ d.seq <= e.seq /\ e.seq <= d.seq
    BY DEF Newest
  <2>2. d.seq \in Int /\ e.seq \in Int
    BY <2>1 DEF HasSeqs
  <2>3. d.seq = e.seq
    BY <2>1, <2>2
  <2> QED
    BY <2>1, <2>3 DEF Distinct
<1>3. CASE Newest(E, k, s) = {}
  BY <1>1, <1>3 DEF Found
<1>4. ASSUME NEW e \in Newest(E, k, s), ~ObsoleteMarker(e, smallest, IsBase)
      PROVE  Found(outputs, B, k, s) = Found(E, B, k, s)
  <2>1. e \in Newest(outputs, k, s)
    BY <1>4, NewestIsKept
  <2>2. Newest(outputs, k, s) = Newest(E, k, s)
    BY <1>1, <1>2, <1>4, <2>1
  <2> QED
    BY <2>1, <2>2 DEF Found
<1>5. ASSUME NEW e \in Newest(E, k, s), ObsoleteMarker(e, smallest, IsBase)
      PROVE  /\ Found(outputs, B, k, s) = {}
             /\ \A d \in Found(E, B, k, s) : d.val = Deleted
  <2>1. e.val = Deleted /\ e.key = k /\ k \in IsBase
    BY <1>5 DEF ObsoleteMarker, Newest
  <2>2. e \notin outputs
    BY <1>5 DEF Kept
  <2>3. Newest(outputs, k, s) = {}
    BY <1>1, <1>2, <1>5, <2>2 DEF Newest
  <2>4. Newest(B, k, s) = {}
    BY <2>1 DEF Newest
  <2>5. Found(E, B, k, s) = Newest(E, k, s)
    BY <1>5 DEF Found
  <2> QED
    BY <1>2, <1>5, <2>1, <2>3, <2>4, <2>5 DEF Found
<1> QED
  BY <1>3, <1>4, <1>5
=============================================================================
