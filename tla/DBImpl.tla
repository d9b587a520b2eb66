------------------------------- MODULE DBImpl -------------------------------
(***************************************************************************)
(* The LevelDB storage engine (db/db_impl.cc over db/version_set.cc):       *)
(* writers that queue up and write in groups, the background thread that    *)
(* flushes the memtable and compacts levels, readers and snapshots, the     *)
(* files on disk, crashes and recovery.  A step runs from one point where   *)
(* DBImpl::mutex_ is released to the next.                                  *)
(***************************************************************************)
EXTENDS VersionSet, Sequences, SequencesExt, TLC

CONSTANTS
  Keys,                \* user keys: integers, for their order
  Writers,             \* calls of DB::Write, each made once
  Batch,               \* Batch[w]: its operations; <<>> for a null batch (TEST_CompactMemTable)
  Sync,                \* Sync[w]: WriteOptions::sync
  None,
  InitialDatabases,    \* databases found on disk: their levels and counters
  WriteBufferSize,     \* entries a memtable may hold before it is switched
  L0StopWritesTrigger, \* config::kL0_StopWritesTrigger
  MaxGroupSize,        \* operations of a group of writes
  MaxOf, MaxEvents     \* bounds of the model: events of each kind, and of all kinds

\* What else happens to a database: the model bounds how often.
Events == {"crash", "fault", "snapshot", "read", "manual", "flush"}

ASSUME DBImplAssumption ==
  /\ Keys \subseteq Int /\ IsFiniteSet(Keys)
  /\ L0StopWritesTrigger \in Nat /\ L0StopWritesTrigger > L0CompactionTrigger
  /\ WriteBufferSize \in Nat /\ MaxGroupSize \in Nat
  /\ Sync \in [Writers -> BOOLEAN] /\ None \notin Writers
  /\ None \notin [size : Nat, phase : {"logging", "syncing", "applying"}]
  /\ MaxOf \in [Events -> Nat] /\ MaxEvents \in Nat

\* A batch is a sequence of operations on keys.
ASSUME BatchAssumption ==
  \A w \in Writers : /\ Batch[w] \in Seq(Range(Batch[w]))
                     /\ \A i \in DOMAIN Batch[w] : Batch[w][i].key \in Keys

\* Every entry of E is newer than every entry of D for the same key.
AllNewer(E, D) == \A e \in E, d \in D : e.key = d.key => e.seq > d.seq

\* The order a Get relies on: the files of level 0 by number, then level by level.
\* (A memtable flushed again after a failed write of the MANIFEST is there twice.)
NewestFirst(v) ==
  /\ \A f, g \in v[0] :
       f.number > g.number => f.entries = g.entries \/ AllNewer(f.entries, g.entries)
  /\ \A l, m \in Levels : l < m => AllNewer(EntriesOf(v[l]), EntriesOf(v[m]))

\* A database found on disk has finitely many files, which are tables in order, and
\* its counters are ahead of them.
ASSUME InitialDatabasesAssumption ==
  \A db \in InitialDatabases :
    /\ db.next \in Nat /\ db.last \in Nat
    /\ DOMAIN db.version = Levels /\ IsFiniteSet(FilesOf(db.version)) /\ NewestFirst(db.version)
    /\ \A f \in FilesOf(db.version) :
         /\ f.number \in Nat /\ f.number < db.next
         /\ f = File(f.number, f.entries) /\ f.entries # {} /\ IsFiniteSet(f.entries)
         /\ \A e \in f.entries : e.key \in Keys /\ e.seq \in 0..db.last

VARIABLES
  writers,         \* writers_: the queue
  status,          \* what each call has come to
  group,           \* the group the head of the queue is writing, or None
  mem, imm,        \* mem_ and imm_: sets of entries; imm may be None
  logfileNumber,   \* logfile_number_
  snapshots,       \* snapshots_
  reader,          \* a Get or an iterator under way, with the references it holds
  current,         \* versions_->current()
  worn,            \* its file_to_compact_ and level: at most one
  logNumber,       \* versions_->log_number_
  nextFileNumber,  \* versions_->next_file_number_
  lastSequence,    \* versions_->last_sequence_
  bgError,         \* ~bg_error_.ok()
  scheduled,       \* background_compaction_scheduled_
  manual,          \* level of manual_compaction_, or None
  flush,           \* number of the table WriteLevel0Table builds, or None
  compact,         \* the CompactionState of DoCompactionWork, or None
  edit,            \* the version edit LogAndApply is writing, or None
  durable,         \* it is in the MANIFEST, and synced
  pendingOutputs,  \* pending_outputs_
  up,              \* "closed", "recovering" or "open"
  logs,            \* disk: log files by number, their records and how many are synced
  tables,          \* disk: table files
  manifest,        \* disk: what CURRENT and the MANIFEST it names add up to
  history,         \* history variable: the groups of writes and what was promised
  used             \* the events so far, of each kind

writeVars  == <<writers, status, group>>
memVars    == <<mem, imm, logfileNumber>>
readVars   == <<snapshots, reader>>
setVars    == <<current, worn, logNumber>>
countVars  == <<nextFileNumber, lastSequence>>
bgVars     == <<bgError, scheduled, manual, flush, compact, edit, durable, pendingOutputs>>
diskVars   == <<logs, tables, manifest>>
vars == <<writeVars, memVars, readVars, setVars, countVars, bgVars, diskVars, up, history, used>>

-----------------------------------------------------------------------------
\* Entries, records, files

Spend(what) ==
  /\ used[what] < MaxOf[what] /\ SumFunction(used) < MaxEvents
  /\ used' = [used EXCEPT ![what] = @ + 1]

\* InsertInto: the operations of a record numbered from its sequence number.
EntriesOfRecord(r) ==
  {[key |-> r.ops[i].key, seq |-> r.seq + i - 1, val |-> r.ops[i].val] : i \in DOMAIN r.ops}

\* What a failed AddRecord leaves in a log file.
TornRecord == [id |-> None, seq |-> 0, ops |-> <<>>]

Torn(log) == {i \in DOMAIN log.records : log.records[i] = TornRecord}

EmptyLog == [records |-> <<>>, synced |-> 0]

\* The log files once a new one has been created.
WithLog(number) ==
  [n \in DOMAIN logs \cup {number} |-> IF n = number THEN EmptyLog ELSE logs[n]]

Restrict2(f, S) == [x \in S |-> f[x]]

Numbers(F) == {f.number : f \in F}

\* A file is written under its number, over what a crashed process left there.
Written(T, F) == {f \in T : f.number \notin Numbers(F)} \cup F

\* Get: the memtable, then the one being flushed, then the levels.
ReadAt(m, i, v, k, s) ==
  LET inMem == Newest(m, k, s)
      inImm == IF i = None THEN {} ELSE Newest(i, k, s)
      found == IF inMem # {} THEN inMem ELSE IF inImm # {} THEN inImm ELSE GetFrom(v, k, s)
  IN  IF found = {} THEN Deleted ELSE (CHOOSE e \in found : TRUE).val

ContentsAt(s) == [k \in Keys |-> ReadAt(mem, imm, current, k, s)]

\* Versions a reader or a compaction still refers to are live.
LiveFiles(v, r, c) ==
  FilesOf(v) \cup (IF r = None THEN {} ELSE FilesOf(r.version))
             \cup (IF c = None THEN {} ELSE FilesOf(c.version))

NeedsWork(i, m, v, w) == i # None \/ m # None \/ FullLevels(v) # {} \/ w # {}

MaybeScheduleCompaction ==
  scheduled' = (scheduled \/ (~bgError' /\ NeedsWork(imm', manual', current', worn')))

\* Mutant: only the files of the current version and the pending outputs are kept.
DeleteAllButCurrent ==
  /\ tables' = {f \in tables : f.number \in pendingOutputs' \cup Numbers(FilesOf(current'))}
  /\ logs' = Restrict2(logs, {n \in DOMAIN logs : n >= logNumber'})

DeleteObsoleteFiles ==
  IF bgError THEN UNCHANGED <<logs, tables>>
  ELSE LET live == pendingOutputs' \cup Numbers(LiveFiles(current', reader, compact'))
       IN  /\ tables' = {f \in tables : f.number \in live}
           /\ logs' = Restrict2(logs, {n \in DOMAIN logs : n >= logNumber'})

-----------------------------------------------------------------------------
\* Writers

\* The call joins the queue. A null batch counts as an event.
Enqueue(w) ==
  /\ up = "open" /\ status[w] = "idle"
  /\ status' = [status EXCEPT ![w] = "queued"]
  /\ writers' = Append(writers, w)
  /\ IF Batch[w] = <<>> THEN Spend("flush") ELSE UNCHANGED used
  /\ UNCHANGED <<group, memVars, readVars, setVars, countVars, bgVars, diskVars, up, history>>

Head1 == writers[1]
AtHead(w) == up = "open" /\ group = None /\ writers # <<>> /\ w = Head1

\* The head and the first n - 1 behind it are answered and leave the queue.
Answer(n, answer) ==
  LET done == {writers[i] : i \in 1..n}
  IN  /\ status' = [w \in Writers |-> IF w \in done THEN answer ELSE status[w]]
      /\ writers' = SubSeq(writers, n + 1, Len(writers))

\* The operations of the first n calls of the queue, one after the other.
OpsOf(n) ==
  LET Upto[i \in 0..n] == IF i = 0 THEN <<>> ELSE Upto[i - 1] \o Batch[writers[i]]
  IN  Upto[n]

\* Mutant: a sync write may join a group that is not synced.
BuildGroupOfAny ==
  CHOOSE n \in 1..Len(writers) :
    /\ \A i \in 2..n : Batch[writers[i]] # <<>> => Len(OpsOf(i)) <= MaxGroupSize
    /\ \A m \in 1..Len(writers) :
         (\A i \in 2..m : Batch[writers[i]] # <<>> => Len(OpsOf(i)) <= MaxGroupSize) => m <= n

\* BuildBatchGroup: the longest prefix of the queue that has no sync write
\* behind a head without sync and stays within the size limit.
BuildBatchGroup ==
  LET fits(n) == \A i \in 2..n : /\ Sync[writers[i]] => Sync[Head1]
                                 /\ Batch[writers[i]] # <<>> => Len(OpsOf(i)) <= MaxGroupSize
  IN  CHOOSE n \in 1..Len(writers) : fits(n) /\ \A m \in 1..Len(writers) : fits(m) => m <= n

HasRoom(w) == Batch[w] # <<>> /\ Cardinality(mem) <= WriteBufferSize

\* Mutant: the background thread is not woken for the new immutable memtable.
SwitchWithoutWakeup ==
  /\ imm = None
  /\ Cardinality(current[0]) < L0StopWritesTrigger
  /\ logfileNumber' = nextFileNumber
  /\ nextFileNumber' = nextFileNumber + 1
  /\ logs' = WithLog(nextFileNumber)
  /\ imm' = mem /\ mem' = {}
  /\ UNCHANGED <<current, worn, bgError, manual, scheduled>>

\* MakeRoomForWrite: the log and the memtable are switched.
SwitchMemTable ==
  /\ imm = None
  /\ Cardinality(current[0]) < L0StopWritesTrigger
  /\ logfileNumber' = nextFileNumber
  /\ nextFileNumber' = nextFileNumber + 1
  /\ logs' = WithLog(nextFileNumber)
  /\ imm' = mem /\ mem' = {}
  /\ UNCHANGED <<current, worn, bgError, manual>>
  /\ MaybeScheduleCompaction

NoSwitch == UNCHANGED <<memVars, nextFileNumber, logs, current, worn, bgError, manual, scheduled>>

\* Write of a batch, up to the point where the mutex is released for the log.
BeginWrite(w) ==
  /\ AtHead(w) /\ Batch[w] # <<>> /\ ~bgError
  /\ IF HasRoom(w) THEN NoSwitch ELSE SwitchMemTable
  /\ group' = [size |-> BuildBatchGroup, phase |-> "logging"]
  /\ UNCHANGED <<writers, status, readVars, logNumber, lastSequence, flush, compact, edit, durable,
                 pendingOutputs, tables, manifest, up, history, used>>

\* Write of a null batch at the head: it only forces the switch.
ForceSwitch(w) ==
  /\ AtHead(w) /\ Batch[w] = <<>> /\ ~bgError
  /\ SwitchMemTable
  /\ Answer(1, "ok")
  /\ UNCHANGED <<group, readVars, logNumber, lastSequence, flush, compact, edit, durable,
                 pendingOutputs, tables, manifest, up, history, used>>

\* MakeRoomForWrite returns the background error, or that of a new log file.
RefuseWrite(w) ==
  /\ AtHead(w)
  /\ \/ bgError /\ UNCHANGED used
     \/ ~bgError /\ ~HasRoom(w) /\ imm = None
          /\ Cardinality(current[0]) < L0StopWritesTrigger /\ Spend("fault")
  /\ Answer(1, "failed")
  /\ UNCHANGED <<group, memVars, readVars, setVars, countVars, bgVars, diskVars, up, history>>

GroupRecord == [id |-> Head1, seq |-> lastSequence + 1, ops |-> OpsOf(group.size)]

GroupSync == \E i \in 1..group.size : Sync[writers[i]]

\* log_->AddRecord, outside the mutex.
AddRecord ==
  /\ group # None /\ group.phase = "logging"
  /\ logs' = [logs EXCEPT ![logfileNumber].records = Append(@, GroupRecord)]
  /\ group' = [group EXCEPT !.phase = IF Sync[Head1] THEN "syncing" ELSE "applying"]
  /\ history' = Append(history, [id |-> Head1, ops |-> GroupRecord.ops,
                                 sync |-> GroupSync, promise |-> "issued"])
  /\ UNCHANGED <<writers, status, memVars, readVars, setVars, countVars, bgVars, tables, manifest,
                 up, used>>

\* logfile_->Sync, outside the mutex.
SyncLog ==
  /\ group # None /\ group.phase = "syncing"
  /\ logs' = [logs EXCEPT ![logfileNumber].synced = Len(logs[logfileNumber].records)]
  /\ group' = [group EXCEPT !.phase = "applying"]
  /\ UNCHANGED <<writers, status, memVars, readVars, setVars, countVars, bgVars, tables, manifest,
                 up, history, used>>

\* The sequence numbers of a group are used up whether it was written or not.
FinishGroup(answer) ==
  /\ lastSequence' = lastSequence + Len(OpsOf(group.size))
  /\ Answer(group.size, answer)
  /\ group' = None

Promise ==
  IF Torn(logs[logfileNumber]) # {} THEN "none" ELSE IF GroupSync THEN "machine" ELSE "process"

\* InsertInto outside the mutex, then SetLastSequence and the answers inside it.
\* The entries are newer than any reader, so that they appear all at once here.
ApplyWrite ==
  /\ group # None /\ group.phase = "applying"
  /\ mem' = mem \cup EntriesOfRecord(GroupRecord)
  /\ history' = [history EXCEPT ![Len(history)].promise = Promise]
  /\ FinishGroup("ok")
  /\ UNCHANGED <<imm, logfileNumber, readVars, setVars, nextFileNumber, bgVars, diskVars, up, used>>

\* AddRecord fails, with some or none of the record in the file.
AddRecordFails ==
  /\ group # None /\ group.phase = "logging"
  /\ Spend("fault")
  /\ logs' \in {logs, [logs EXCEPT ![logfileNumber].records = Append(@, TornRecord)]}
  /\ FinishGroup("failed")
  /\ UNCHANGED <<memVars, readVars, setVars, nextFileNumber, bgVars, tables, manifest, up, history>>

\* Sync fails: the record may or may not be found later, so no write is taken
\* from here on.
SyncFails ==
  /\ group # None /\ group.phase = "syncing"
  /\ Spend("fault")
  /\ bgError' = TRUE
  /\ FinishGroup("failed")
  /\ UNCHANGED <<memVars, readVars, setVars, nextFileNumber, scheduled, manual, flush, compact, edit,
                 durable, pendingOutputs, diskVars, up, history>>
-----------------------------------------------------------------------------
\* The background thread

NoBackgroundWork == flush = None /\ compact = None /\ edit = None

\* The end of BackgroundCall.
EndBackgroundCall == scheduled' = (~bgError' /\ NeedsWork(imm', manual', current', worn'))

\* WriteLevel0Table begins: at the start of a background call, or in the loop
\* of a compaction, which gives way to a full memtable.
StartFlush ==
  /\ up = "open" /\ imm # None /\ flush = None /\ edit = None
  /\ \/ compact = None /\ scheduled /\ ~bgError
     \/ compact # None /\ FindLargestKey(InputsOf(compact)) \notin EntriesOf(compact.outputs)
  /\ flush' = nextFileNumber
  /\ nextFileNumber' = nextFileNumber + 1
  /\ pendingOutputs' = pendingOutputs \cup {nextFileNumber}
  /\ UNCHANGED <<writeVars, memVars, readVars, setVars, lastSequence, bgError, scheduled, manual,
                 compact, edit, durable, diskVars, up, history, used>>

FlushOutput == IF imm = {} THEN {} ELSE {File(flush, imm)}

FlushEdit ==
  [deleted |-> {},
   added   |-> {<<PickLevelForMemTableOutput(current, RangeOf({f})), f>> : f \in FlushOutput},
   log |-> logfileNumber, next |-> nextFileNumber, last |-> lastSequence]

\* LogAndApply up to the write of the MANIFEST. SaveTo aborts the process when
\* files of a level overlap: see Abort.
LogAndApply(e) == LevelsAreSorted(ApplyEdit(current, e)) /\ edit' = e /\ UNCHANGED durable

\* BuildTable has written and synced the table, and the edit goes out.
FlushBuilt ==
  /\ flush # None /\ edit = None
  /\ tables' = Written(tables, FlushOutput)
  /\ pendingOutputs' = pendingOutputs \ {flush}
  /\ LogAndApply(FlushEdit)
  /\ UNCHANGED <<writeVars, memVars, readVars, setVars, countVars, bgError, scheduled, manual, flush,
                 compact, logs, manifest, up, history, used>>

BuildTableFails ==
  /\ flush # None /\ edit = None
  /\ Spend("fault")
  /\ pendingOutputs' = pendingOutputs \ {flush}
  /\ flush' = None /\ bgError' = TRUE
  /\ scheduled' = (compact # None)
  /\ UNCHANGED <<writeVars, memVars, readVars, setVars, countVars, manual, compact, edit, durable,
                 diskVars, up, history>>

SmallestSnapshot ==
  LET seqs == {s.seq : s \in snapshots}
  IN  IF seqs = {} THEN lastSequence ELSE CHOOSE s \in seqs : \A r \in seqs : s <= r

MoveEdit(c) ==
  [deleted |-> InputDeletions(c), added |-> {<<c.level + 1, f>> : f \in c.in0},
   log |-> logNumber, next |-> nextFileNumber, last |-> lastSequence]

Compaction(c) ==
  [level |-> c.level, in0 |-> c.in0, in1 |-> c.in1, version |-> current,
   todo |-> Kept(EntriesOf(InputsOf(c)), SmallestSnapshot, BaseLevelKeys(current, c, Keys)),
   outputs |-> {}, manual |-> manual # None]

CompactionChoices ==
  IF manual # None THEN CompactRange(current, manual) ELSE PickCompaction(current, worn)

BackgroundCompaction == up = "open" /\ scheduled /\ ~bgError /\ imm = None /\ NoBackgroundWork

\* A compaction nobody asked for by hand may be a mere move of one file.
StartTrivialMove ==
  /\ BackgroundCompaction /\ manual = None
  /\ \E c \in CompactionChoices : IsTrivialMove(current, c) /\ LogAndApply(MoveEdit(c))
  /\ UNCHANGED <<writeVars, memVars, readVars, setVars, countVars, bgError, scheduled, manual, flush,
                 compact, pendingOutputs, diskVars, up, history, used>>

StartCompaction ==
  /\ BackgroundCompaction
  /\ \E c \in CompactionChoices :
        (manual # None \/ ~IsTrivialMove(current, c)) /\ compact' = Compaction(c)
  /\ UNCHANGED <<writeVars, memVars, readVars, setVars, countVars, bgError, scheduled, manual, flush,
                 edit, durable, pendingOutputs, diskVars, up, history, used>>

\* A background call that finds nothing to do, or an error.
BackgroundCallIdle ==
  /\ up = "open" /\ scheduled /\ NoBackgroundWork
  /\ bgError \/ (imm = None /\ CompactionChoices = {})
  /\ manual' = IF bgError THEN manual ELSE None
  /\ UNCHANGED <<imm, current, worn, bgError>>
  /\ EndBackgroundCall
  /\ UNCHANGED <<writeVars, mem, logfileNumber, readVars, logNumber, countVars, flush, compact, edit,
                 durable, pendingOutputs, diskVars, up, history, used>>

\* One output file of a compaction: a first part of what is left to write.
WriteOutput ==
  /\ compact # None /\ flush = None /\ edit = None
  /\ \E part \in OutputsOf(compact, compact.todo) :
       LET f == File(nextFileNumber, part)
       IN  /\ tables' = Written(tables, {f})
           /\ compact' = [compact EXCEPT !.todo = @ \ part, !.outputs = @ \cup {f}]
  /\ pendingOutputs' = pendingOutputs \cup {nextFileNumber}
  /\ nextFileNumber' = nextFileNumber + 1
  /\ UNCHANGED <<writeVars, memVars, readVars, setVars, lastSequence, bgError, scheduled, manual,
                 flush, edit, durable, logs, manifest, up, history, used>>

CompactionEdit ==
  [deleted |-> InputDeletions(compact), added |-> {<<compact.level + 1, f>> : f \in compact.outputs},
   log |-> logNumber, next |-> nextFileNumber, last |-> lastSequence]

\* InstallCompactionResults.
FinishCompaction ==
  /\ compact # None /\ compact.todo = {} /\ flush = None /\ edit = None
  /\ LogAndApply(CompactionEdit)
  /\ UNCHANGED <<writeVars, memVars, readVars, setVars, countVars, bgError, scheduled, manual, flush,
                 compact, pendingOutputs, diskVars, up, history, used>>

\* CleanupCompaction and ReleaseInputs, and the end of a manual compaction.
CleanupCompaction ==
  /\ pendingOutputs' = pendingOutputs \ Numbers(compact.outputs)
  /\ compact' = None
  /\ manual' = IF compact.manual THEN None ELSE manual

OutputFails ==
  /\ compact # None /\ compact.todo # {} /\ flush = None /\ edit = None
  /\ Spend("fault")
  /\ CleanupCompaction
  /\ bgError' = TRUE /\ scheduled' = FALSE
  /\ UNCHANGED <<writeVars, memVars, readVars, setVars, countVars, flush, edit, durable, diskVars,
                 up, history>>

-----------------------------------------------------------------------------
\* LogAndApply, from the write of the MANIFEST on

Whole(v, e) == [state |-> "whole", version |-> v, log |-> e.log, next |-> e.next, last |-> e.last]

\* An edit behind a torn record cannot be read any more.
Appended(m, e) == IF m.state \in {"torn", "corrupt"} THEN [m EXCEPT !.state = "corrupt"]
                                      ELSE Whole(ApplyEdit(m.version, e), e)

\* The edit is in the MANIFEST and synced. The first edit after DB::Open goes to
\* a new MANIFEST that starts with the current version, and CURRENT is renamed.
EditWritten ==
  /\ edit # None /\ ~durable
  /\ manifest' = IF up = "recovering" THEN Whole(ApplyEdit(current, edit), edit)
                                      ELSE Appended(manifest, edit)
  /\ UNCHANGED edit /\ durable' = TRUE
  /\ UNCHANGED <<writeVars, memVars, readVars, setVars, countVars, bgError, scheduled, manual, flush,
                 compact, pendingOutputs, logs, tables, up, history, used>>

\* Mutant: the file worn out in the old version is taken over.
InstallKeepingWorn ==
  /\ current' = ApplyEdit(current, edit) /\ worn' = worn /\ logNumber' = edit.log
  /\ edit' = None /\ durable' = FALSE

\* AppendVersion: the new version is current, and nobody has worn its files yet.
InstallVersion ==
  /\ current' = ApplyEdit(current, edit) /\ worn' = {} /\ logNumber' = edit.log
  /\ edit' = None /\ durable' = FALSE

\* The rest of CompactMemTable.
InstallFlush ==
  /\ edit # None /\ durable /\ flush # None
  /\ InstallVersion
  /\ imm' = None /\ flush' = None
  /\ UNCHANGED <<bgError, manual, compact, pendingOutputs>>
  /\ DeleteObsoleteFiles
  /\ IF compact = None THEN EndBackgroundCall ELSE UNCHANGED scheduled
  /\ UNCHANGED <<writeVars, mem, logfileNumber, readVars, countVars, manifest, up, history, used>>

InstallMove ==
  /\ up = "open" /\ edit # None /\ durable /\ flush = None /\ compact = None
  /\ InstallVersion
  /\ UNCHANGED <<memVars, bgError, manual>>
  /\ EndBackgroundCall
  /\ UNCHANGED <<writeVars, readVars, countVars, flush, compact, pendingOutputs, diskVars, up, history, used>>

InstallCompaction ==
  /\ edit # None /\ durable /\ flush = None /\ compact # None
  /\ InstallVersion
  /\ CleanupCompaction
  /\ UNCHANGED <<memVars, bgError>>
  /\ DeleteObsoleteFiles
  /\ EndBackgroundCall
  /\ UNCHANGED <<writeVars, readVars, countVars, flush, manifest, up, history, used>>

\* Mutant: the background thread goes on after the failure.
EditFailsUnnoticed ==
  /\ up = "open" /\ edit # None /\ ~durable
  /\ Spend("fault")
  /\ manifest' \in {manifest, Appended(manifest, edit),
                    [manifest EXCEPT !.state = IF @ = "whole" THEN "torn" ELSE @]}
  /\ edit' = None /\ UNCHANGED durable /\ flush' = None
  /\ IF flush # None \/ compact = None
     THEN UNCHANGED <<compact, manual, pendingOutputs>>
     ELSE CleanupCompaction
  /\ UNCHANGED <<writeVars, memVars, readVars, setVars, countVars, bgError, scheduled, logs, tables,
                 up, history>>

\* The write or the sync of the MANIFEST fails: nobody knows what of the edit is
\* in it. Only the background thread's part is undone.
EditFails ==
  /\ up = "open" /\ edit # None /\ ~durable
  /\ Spend("fault")
  /\ manifest' \in {manifest, Appended(manifest, edit),
                    [manifest EXCEPT !.state = IF @ = "whole" THEN "torn" ELSE @]}
  /\ edit' = None /\ UNCHANGED durable /\ flush' = None /\ bgError' = TRUE
  /\ IF flush # None \/ compact = None
     THEN UNCHANGED <<compact, manual, pendingOutputs>>
     ELSE CleanupCompaction
  /\ scheduled' = (flush # None /\ compact # None)
  /\ UNCHANGED <<writeVars, memVars, readVars, setVars, countVars, logs, tables, up, history>>
-----------------------------------------------------------------------------
\* Readers, snapshots, manual compactions

\* Get and NewIterator take references under the mutex and read without it, at
\* a snapshot or at the last sequence number.
StartRead ==
  /\ up = "open" /\ reader = None /\ Spend("read")
  /\ \E s \in {lastSequence} \cup {t.seq : t \in snapshots} :
        reader' = [seq |-> s, mem |-> mem, imm |-> imm, version |-> current]
  /\ UNCHANGED <<writeVars, memVars, snapshots, setVars, countVars, bgVars, diskVars, up, history>>

\* The references are dropped. A Get that had to read two files may have been
\* the last seek the first of them was allowed (UpdateStats).
EndRead ==
  /\ reader # None
  /\ reader' = None
  /\ LET inMemory(k) == \E m \in {reader.mem, reader.imm} \ {None} : Newest(m, k, reader.seq) # {}
         seeks == {SeekFile(reader.version, k, reader.seq) : k \in {j \in Keys : ~inMemory(j)}}
     IN  \/ UNCHANGED <<imm, current, worn, bgError, manual, scheduled>>
         \/ /\ worn = {} /\ reader.version = current
            /\ worn' \in seeks \ {{}}
            /\ UNCHANGED <<imm, current, bgError, manual>> /\ MaybeScheduleCompaction
  /\ UNCHANGED <<writeVars, mem, logfileNumber, snapshots, logNumber, countVars, flush, compact,
                 edit, durable, pendingOutputs, diskVars, up, history, used>>

GetSnapshot ==
  /\ up = "open" /\ Spend("snapshot")
  /\ snapshots' = snapshots \cup {[id |-> used.snapshot, seq |-> lastSequence]}
  /\ UNCHANGED <<writeVars, memVars, reader, setVars, countVars, bgVars, diskVars, up, history>>

\* A snapshot is released only when no read of it is under way.
ReleaseSnapshot ==
  /\ up = "open" /\ reader = None
  /\ \E s \in snapshots : snapshots' = snapshots \ {s}
  /\ UNCHANGED <<writeVars, memVars, reader, setVars, countVars, bgVars, diskVars, up, history, used>>

\* One round of TEST_CompactRange over all keys of a level.
RequestCompactRange(l) ==
  /\ up = "open" /\ manual = None /\ ~bgError /\ Spend("manual")
  /\ l + 1 \in Levels
  /\ manual' = l
  /\ UNCHANGED <<imm, current, worn, bgError>>
  /\ MaybeScheduleCompaction
  /\ UNCHANGED <<writeVars, mem, logfileNumber, readVars, logNumber, countVars, flush, compact, edit,
                 durable, pendingOutputs, diskVars, up, history>>

-----------------------------------------------------------------------------
\* Crashes

KeepAt(kept, s, i, places) == IF i \in places THEN Append(kept, s[i]) ELSE kept

\* The elements of a sequence at some of its places.
AtPlaces(s, places) ==
  LET Upto[i \in 0..Len(s)] == IF i = 0 THEN <<>> ELSE KeepAt(Upto[i - 1], s, i, places)
  IN  Upto[Len(s)]

\* A reader passes over torn records and those in skip, and stops at end.
LeftOf(log, kind, end, skip) ==
  LET kept(n) == AtPlaces(log.records, (1..n) \ (Torn(log) \cup skip))
  IN  [records |-> kept(end), synced |-> Len(kept(IF kind = "machine" THEN end ELSE log.synced))]

\* What can be left of a log file: a crash of the machine takes records that are
\* not synced, and a reader loses what follows a torn record up to the next block.
Remains(log, kind) ==
  LET n == Len(log.records)
      skips == {{}} \cup {i..j : i \in Torn(log), j \in 1..n}
  IN  UNION {{LeftOf(log, kind, end, skip) : skip \in skips} :
                end \in (IF kind = "machine" THEN log.synced ELSE n)..n}

RecordsOf(L) == UNION {{L[n].records[i] : i \in DOMAIN L[n].records} : n \in DOMAIN L}

\* The groups whose records are gone from the logs that count and have not been
\* flushed to a table the MANIFEST names.
LostIds(L) ==
  LET needed == RecordsOf(Restrict2(logs, {n \in DOMAIN logs : n >= manifest.log}))
      stored == EntriesOf(FilesOf(manifest.version))
  IN  {r.id : r \in {q \in needed \ RecordsOf(L) : EntriesOfRecord(q) \cap stored = {}}}

\* Everything in memory is gone; the calls under way never return.
ProcessDies(kind) ==
  /\ up' = "closed"
  /\ writers' = <<>> /\ group' = None
  /\ status' = [w \in Writers |-> IF status[w] = "queued" THEN "gone" ELSE status[w]]
  /\ mem' = {} /\ imm' = None /\ logfileNumber' = 0
  /\ snapshots' = {} /\ reader' = None
  /\ current' = EmptyVersion /\ worn' = {} /\ logNumber' = 0
  /\ nextFileNumber' = 0 /\ lastSequence' = 0
  /\ bgError' = FALSE /\ scheduled' = FALSE /\ manual' = None
  /\ flush' = None /\ compact' = None /\ edit' = None /\ durable' = FALSE
  /\ pendingOutputs' = {}
  /\ logs' \in {L \in [DOMAIN logs -> UNION {Remains(logs[n], kind) : n \in DOMAIN logs}] :
                  \A n \in DOMAIN logs : L[n] \in Remains(logs[n], kind)}
  /\ history' = AtPlaces(history, {i \in DOMAIN history : history[i].id \notin LostIds(logs')})
  /\ UNCHANGED tables

Crash(kind) ==
  /\ Spend("crash")
  /\ ProcessDies(kind)
  /\ manifest' = IF kind = "machine" /\ manifest.state = "unsynced"
                 THEN [manifest EXCEPT !.state = "corrupt"] ELSE manifest

\* The edits a background step is about to hand to LogAndApply.
EditsDue ==
  (IF flush # None /\ edit = None THEN {FlushEdit} ELSE {}) \cup
  (IF compact # None /\ compact.todo = {} /\ flush = None /\ edit = None THEN {CompactionEdit} ELSE {})

\* The overlap check of SaveTo: abort().
Abort ==
  /\ \E e \in EditsDue : ~LevelsAreSorted(ApplyEdit(current, e))
  /\ ProcessDies("process")
  /\ UNCHANGED <<manifest, used>>

-----------------------------------------------------------------------------
\* DB::Open

NoManifest == [state |-> "none", version |-> EmptyVersion, log |-> 0, next |-> 2, last |-> 0]

\* A new database: its MANIFEST is written and closed but not synced.
NewDB ==
  /\ up = "closed" /\ manifest.state = "none"
  /\ manifest' = [manifest EXCEPT !.state = "unsynced"]
  /\ UNCHANGED <<writeVars, memVars, readVars, setVars, countVars, bgVars, logs, tables, up, history, used>>

\* RecoverLogFile: the records of a log as one memtable, or several when it fills up.
InsertRecord(acc, r) ==
  LET m == acc.mem \cup EntriesOfRecord(r)
  IN  IF Cardinality(m) > WriteBufferSize
      THEN [full |-> Append(acc.full, m), mem |-> {}]
      ELSE [full |-> acc.full, mem |-> m]

MemTablesOf(records) ==
  LET After[i \in 0..Len(records)] ==
        IF i = 0 THEN [full |-> <<>>, mem |-> {}] ELSE InsertRecord(After[i - 1], records[i])
      all == After[Len(records)]
  IN  IF all.mem = {} THEN all.full ELSE Append(all.full, all.mem)

WithTables(acc, ms) ==
  [files |-> acc.files \cup {File(acc.next + i - 1, ms[i]) : i \in DOMAIN ms},
   next  |-> acc.next + Len(ms)]

\* Mutant: the numbers of the logs themselves are not marked as used.
RecoverWithoutMark(acc, n) == WithTables(acc, MemTablesOf(logs[n].records))

\* The tables written from a log, and the next file number (MarkFileNumberUsed).
RecoverLogFile(acc, n) ==
  LET written == WithTables(acc, MemTablesOf(logs[n].records))
  IN  [written EXCEPT !.next = IF @ <= n THEN n + 1 ELSE @]

RecoverUpTo(acc, n) == IF n \in DOMAIN logs /\ n >= manifest.log THEN RecoverLogFile(acc, n) ELSE acc

Max2(S) == CHOOSE x \in S : \A y \in S : y <= x

LastLog == Max2({0} \cup DOMAIN logs)

\* All logs from the one the MANIFEST names on, in the order of their numbers.
Recovered ==
  LET After[n \in 0..LastLog] ==
        RecoverUpTo(IF n = 0 THEN [files |-> {}, next |-> manifest.next + 1] ELSE After[n - 1], n)
  IN  After[LastLog]

\* DBImpl::Recover and the new log file of DB::Open, up to LogAndApply.
Recover ==
  /\ up = "closed" /\ manifest.state \in {"whole", "torn", "unsynced"}
  /\ LevelsAreSorted(manifest.version)
  /\ FilesOf(manifest.version) \subseteq tables
  /\ up' = "recovering"
  /\ current' = manifest.version /\ logNumber' = manifest.log
  /\ tables' = Written(tables, Recovered.files)
  /\ lastSequence' = Max2({manifest.last} \cup {e.seq : e \in EntriesOf(Recovered.files)})
  /\ logfileNumber' = Recovered.next
  /\ nextFileNumber' = Recovered.next + 1
  /\ logs' = WithLog(Recovered.next)
  /\ edit' = [deleted |-> {}, added |-> {<<0, f>> : f \in Recovered.files}, log |-> Recovered.next,
              next |-> Recovered.next + 1, last |-> lastSequence']
  /\ UNCHANGED <<writeVars, mem, imm, readVars, worn, bgError, scheduled, manual, flush, compact,
                 durable, pendingOutputs, manifest, history, used>>

\* The rest of DB::Open.
OpenInstalled ==
  /\ up = "recovering" /\ edit # None /\ durable
  /\ up' = "open"
  /\ InstallVersion
  /\ UNCHANGED <<memVars, bgError, manual, compact, pendingOutputs>>
  /\ DeleteObsoleteFiles
  /\ MaybeScheduleCompaction
  /\ history' = [i \in DOMAIN history |-> [history[i] EXCEPT !.promise = "machine"]]
  /\ UNCHANGED <<writeVars, readVars, countVars, flush, manifest, used>>

\* DB::Open fails: a table or the new MANIFEST could not be written.
OpenFails ==
  /\ up = "recovering" /\ ~durable
  /\ Spend("fault")
  /\ ProcessDies("process")
  /\ UNCHANGED manifest

-----------------------------------------------------------------------------
\* The operations that give a version its contents, for a database found on disk.
OpsFor(db) ==
  SetToSeq({[key |-> k, val |-> ReadAt({}, None, db.version, k, db.last)] : k \in Keys})

Init ==
  /\ writers = <<>> /\ status = [w \in Writers |-> "idle"] /\ group = None
  /\ mem = {} /\ imm = None /\ logfileNumber = 0
  /\ snapshots = {} /\ reader = None
  /\ current = EmptyVersion /\ worn = {} /\ logNumber = 0
  /\ nextFileNumber = 0 /\ lastSequence = 0
  /\ bgError = FALSE /\ scheduled = FALSE /\ manual = None
  /\ flush = None /\ compact = None /\ edit = None /\ durable = FALSE
  /\ pendingOutputs = {}
  /\ up = "closed" /\ logs = <<>>
  /\ used = [what \in Events |-> 0]
  /\ \/ manifest = NoManifest /\ tables = {} /\ history = <<>>
     \/ \E db \in InitialDatabases :
          /\ manifest = [state |-> "whole", version |-> db.version, log |-> 0,
                         next |-> db.next, last |-> db.last]
          /\ tables = FilesOf(db.version)
          /\ history = <<[id |-> 0, ops |-> OpsFor(db), sync |-> TRUE, promise |-> "machine"]>>

Write == \/ \E w \in Writers : Enqueue(w) \/ BeginWrite(w) \/ ForceSwitch(w) \/ RefuseWrite(w)
         \/ AddRecord \/ SyncLog \/ ApplyWrite \/ AddRecordFails \/ SyncFails

Background == \/ StartFlush \/ FlushBuilt \/ BuildTableFails
              \/ StartTrivialMove \/ StartCompaction \/ BackgroundCallIdle
              \/ WriteOutput \/ FinishCompaction \/ OutputFails
              \/ EditWritten \/ EditFails
              \/ InstallFlush \/ InstallMove \/ InstallCompaction

Read == \/ StartRead \/ EndRead \/ GetSnapshot \/ ReleaseSnapshot
        \/ \E l \in Levels : RequestCompactRange(l)

Open == NewDB \/ Recover \/ OpenInstalled \/ OpenFails

Next == Write \/ Background \/ Read \/ Open \/ Abort \/ \E kind \in {"process", "machine"} : Crash(kind)

Spec == Init /\ [][Next]_vars

-----------------------------------------------------------------------------
\* Properties

AreEntries(E) == \A e \in E : e.key \in Keys /\ e.seq \in Nat

IsTable(f) == f.number \in Nat /\ f.entries # {} /\ AreEntries(f.entries)

IsVersion(v) == DOMAIN v = Levels /\ \A f \in FilesOf(v) : IsTable(f)

\* The variables have their types.
TypeOK ==
  /\ writers \in Seq(Writers)
  /\ status \in [Writers -> {"idle", "queued", "ok", "failed", "gone"}]
  /\ group = None \/ (group.size \in 1..Len(writers) /\ group.phase \in {"logging", "syncing", "applying"})
  /\ AreEntries(mem) /\ (imm = None \/ AreEntries(imm))
  /\ {logfileNumber, logNumber, nextFileNumber, lastSequence} \subseteq Nat
  /\ \A s \in snapshots : s.seq \in 0..lastSequence
  /\ reader = None \/ (reader.seq \in 0..lastSequence /\ IsVersion(reader.version))
  /\ IsVersion(current) /\ IsVersion(manifest.version)
  /\ worn \subseteq {<<l, f>> : l \in Levels, f \in FilesOf(current)}
  /\ {bgError, scheduled, durable} \subseteq BOOLEAN
  /\ manual = None \/ manual \in Levels
  /\ flush = None \/ flush \in Nat
  /\ compact = None \/ (AreEntries(compact.todo) /\ \A f \in compact.outputs : IsTable(f))
  /\ pendingOutputs \subseteq Nat
  /\ up \in {"closed", "recovering", "open"}
  /\ \A n \in DOMAIN logs : logs[n].synced \in 0..Len(logs[n].records)
  /\ \A f \in tables : IsTable(f)
  /\ manifest.state \in {"none", "unsynced", "whole", "torn", "corrupt"}
  /\ used \in [Events -> Nat]

\* Files are deleted while readers and a compaction use them and while crashes
\* may come: every file of a version in use, every output of the compaction under
\* way and every file the MANIFEST names is on disk.
LiveFilesExist ==
  /\ LiveFiles(current, reader, compact) \subseteq tables
  /\ compact # None => compact.outputs \subseteq tables
  /\ FilesOf(manifest.version) \subseteq tables

\* version_set.cc:338 says "entries never hop across levels", so a Get may stop at
\* the first place that has an entry for the key: places are newest first, the
\* memtable, the one being flushed, then the files. The code does not keep it after
\* an error: see NewerEntriesAbove.
EntriesNeverHop ==
  LET flushing == IF imm = None THEN {} ELSE imm
  IN  /\ AllNewer(mem, flushing \cup EntriesOf(FilesOf(current)))
      /\ AllNewer(flushing, EntriesOf(FilesOf(current)))
      /\ NewestFirst(current)

\* Whatever is flushed, compacted, moved and recovered, entries do not hop before
\* a process has failed to write the MANIFEST and has ended. Then they may: a
\* compaction goes on after the failed edit of the flush inside it, and the edit
\* it writes names the old log (version_set.cc:806); when the failed record is in
\* the MANIFEST all the same, a recovery replays the log above its own table, and
\* what a machine crash has left of an unsynced log may be the older entries.
NewerEntriesAbove == (used.fault = 0 \/ used.crash = 0) => EntriesNeverHop

\* db_impl.cc:957 says that a deletion marker with nothing below it may be dropped,
\* since older entries of its key "will be dropped in the next few iterations": so
\* nothing the background thread does changes what a Get finds. The code does not
\* keep it. SetupOtherInputs looks for boundary files in the level it compacts, not
\* in the next (version_set.cc:1410), and an older entry there outlives the marker.
CompactionsKeepContents ==
  [][Background => ContentsAt(lastSequence)' = ContentsAt(lastSequence)]_vars

\* A marker is in one file of a level and an older entry of its key in another, as
\* the outputs of a compaction leave them that a snapshot has kept from dropping it.
MarkerIsCutOff(v) ==
  \E l \in Levels \ {0} : \E f, g \in v[l] :
     f # g /\ \E d \in f.entries, e \in g.entries :
                 d.val = Deleted /\ d.key = e.key /\ d.seq > e.seq

\* Otherwise no flush, move or compaction changes what a Get or a snapshot finds,
\* whatever is written, released and flushed while it runs (and before a process
\* that has failed to write something has ended, see NewerEntriesAbove).
BackgroundKeepsReads ==
  [][~UNCHANGED <<mem, imm, current>> /\ Background
      /\ (used.fault = 0 \/ used.crash = 0) /\ ~MarkerIsCutOff(current)
       => \A s \in {lastSequence} \cup {t.seq : t \in snapshots} : ContentsAt(s)' = ContentsAt(s)]_vars

\* SaveTo aborts the process when files of a level overlap. A flush, a move and a
\* compaction the engine chooses never bring it there; a manual compaction can,
\* since a memtable may be flushed into a gap between its inputs while it runs.
OnlyManualCompactionsOverlap ==
  \A e \in EditsDue : LevelsAreSorted(ApplyEdit(current, e)) \/ (compact # None /\ compact.manual)

\* A number handed out belongs to no live file, log or output, after a recovery
\* either, which knows only the numbers the MANIFEST recorded.
FreshFileNumbers ==
  up = "open" => \A n \in Numbers(LiveFiles(current, reader, compact)) \cup pendingOutputs
                              \cup {m \in DOMAIN logs : m >= logNumber} : n < nextFileNumber

\* No wakeup is lost: while there is work for the background thread, it has been
\* scheduled, or an error has stopped it for good.
WorkIsScheduled ==
  up = "open" /\ ~bgError /\ NeedsWork(imm, manual, current, worn) => scheduled

\* A writer that MakeRoomForWrite keeps waiting waits for a thread that runs.
StalledWriterIsServed ==
  \A w \in Writers :
     AtHead(w) /\ ~bgError /\ (imm # None \/ Cardinality(current[0]) >= L0StopWritesTrigger)
       => scheduled

Openable == /\ manifest.state # "corrupt"
            /\ LevelsAreSorted(manifest.version)
            /\ FilesOf(manifest.version) \subseteq tables

\* A database stops being one that DB::Open can open in two ways only: the crash
\* of the machine before its first MANIFEST was synced, when it holds nothing;
\* and a memtable flushed within a compaction after an error of the MANIFEST.
ManifestBreaksOnlyAfterAnError ==
  [][Openable /\ ~Openable' => \/ bgError /\ compact # None
                               \/ manifest.state = "unsynced" /\ history = <<>>]_vars

\* What the engine promises its clients: see CrashSafeStore. A snapshot, and a
\* Get or iterator under way, is a view.
Store ==
  INSTANCE CrashSafeStore WITH
    NotFound <- Deleted,
    up       <- up = "open",
    log      <- history,
    view     <- IF up = "open" THEN ContentsAt(lastSequence) ELSE [k \in Keys |-> Deleted],
    views    <- {[id |-> s.id, contents |-> ContentsAt(s.seq)] : s \in snapshots} \cup
                (IF reader = None THEN {}
                 ELSE {[id |-> None,
                        contents |-> [k \in Keys |-> ReadAt(reader.mem, reader.imm, reader.version,
                                                            k, reader.seq)]]}),
    damaged  <- up = "open" /\ Torn(logs[logfileNumber]) # {}

\* Every behaviour of the engine, with its flushes, compactions, faults and
\* crashes, is one of the abstract store.
\* It is so of the behaviours without the two faults of the code above: see
\* NewerEntriesAbove and CompactionsKeepContents.
ImplementsStore == Store!Spec
=============================================================================
