# treena in TLA+

treena is an iOS diary: the user writes one diary a day, an outside service
names the emotion in it, a picture and a few words answer it, and a tree on the
home screen grows with the number of diaries. Diaries are stored in Firebase's
Realtime Database under `diary/<uid>/<yyyyMMdd>`. The app's own code is small
(about 1,300 lines of Swift under `src/treena/treena`), has no tests, and does
everything asynchronously; the promises it relies on - writes that survive a
lost connection, reads that see them - are kept by the database SDK that is
vendored with it (`src/treena/Pods/FirebaseDatabase`).

This directory models the parts of the app with state worth worrying about, the
part of the SDK the app depends on, the app as a whole over both, and the
storage engine that is linked into the app with the SDK. Source paths below are
relative to `src/treena/treena/` for the app, to
`src/treena/Pods/FirebaseDatabase/FirebaseDatabase/Sources/` for the SDK and to
`src/treena/Pods/leveldb-library/` for the engine.

## Inventory

| component | state | operations | how it interacts |
|---|---|---|---|
| database client: `Core/FPersistentConnection.m`, `Core/FRepo.m` and what `getData` passes through | connection state, token, queues of puts and gets, offline timers, the request callbacks of a connection | `setValue`, `getData`, connecting, authenticating, replaying, token refresh, disconnection, kill | one serial dispatch queue; completions go to the main queue; one socket to the server |
| calendar diary screen: `CalendarDiary.swift` | date, text, colour of the text, focus | before, after, save, temporary save, begin and end editing, completion of the read | main queue; calls the client, is called back by it |
| writing screen: `Plus.swift` | text, colour | save, temporary save, post to the emotion service | main queue, client, HTTP |
| emotion result screen: `EmotionImage.swift`, `EmotionResult.swift` | emotion, type, count, level | parse, choose a ment, count, choose a picture | client, picture loads on the main queue |
| home screen and tree service: `ViewController.swift`, `ObservableViewModel.swift`, `Observable.swift`, `Services/FirebaseDatabase.swift` | a static count and level, a picture | appear, count, load a picture | client, background queue, main queue |
| calendar: `Calendar.swift` | dates with a diary | load, pick a day, home | client, FSCalendar |
| accounts: `Login.swift`, `Register.swift`, `MyPage.swift` | current user, the User object of a screen | log in, register, log out, reset, delete | FirebaseAuth (its queue, then the main queue), client |
| LevelDB storage engine: `db/db_impl.cc`, `db/version_set.cc` and below | queue of writers, two memtables, versions of the levels, snapshots, file numbers, background error; log, table and MANIFEST files | write, get, iterate, snapshot, compact a range, open; flush and compact in the background | one mutex released around I/O, one background thread, the file system |

What makes each one correct, and hard:

- **Database client.** A write is acknowledged only if it is stored; writes keep
  their order through any number of reconnections; a read sees the writes made
  before it; every call ends. Hard: three queues, a replay, timers, an
  authentication handshake, and tokens that change underneath.
- **Calendar diary screen.** The text belongs to the date shown, what is saved
  belongs to the key it is saved under, words the user wrote are not erased.
  Hard: the read's completion arrives after any number of moves, edits and
  saves and does not look at the date; the date itself is computed on digits.
- **Home screen and tree service.** The picture shows the level of the current
  account's count. Hard: the count is shared by screens and accounts, pictures
  race, and nothing redraws the tree.
- **Writing and emotion result screens.** One save, one analysis, one result,
  with the picture of a count that includes it. Hard: double taps, a ten-second
  timeout, a screen left before the answer, midnight, a blank address.
- **Accounts.** A screen acts for the account that opened it, and an account has
  a record in `Users`. Hard: screens of the old account stay on the navigation
  stack with their uid; calls end late or not at all; a token fetched before a
  sign-out may arrive after it.
- **Storage engine.** A map with snapshots that survives crashes as far as it
  promised. Hard: the mutex is released around every read and write of a file;
  the flush may run inside a compaction; file numbers, logs and the MANIFEST
  must agree after a crash at any point; compactions drop entries while
  snapshots exist.

`PROJECT.json` lists the hazards one by one, each at its line.

## Modules

| module | models | extended by |
|---|---|---|
| `RealtimeClient` | the database client and the server it talks to | `RealtimeClientProofs` (theorems), and it `RealtimePromiseProofs` |
| `DiaryDates` | `checkCalendarDateException` and the two buttons as functions on dates, and the Gregorian calendar as reference | `DiaryWalk`, `CalendarDiary` |
| `DiaryWalk` | a reader pressing the two buttons | `DiaryWalkProofs` |
| `CalendarDiary` | the calendar diary screen over the client as the app sees it | `CalendarDiaryProofs` |
| `TreeLevel` | `setTreeLevel` as a function | `HomeTree` |
| `HomeTree` | the home screen, its view model and the tree service | `HomeTreeProofs` |
| `Session` | the app as a whole: screens, accounts, saves, analysis, and the client with whose token it carries | `MCSession` (two users, budgets, symmetry), `SessionProofs` |
| `InternalKey` | entries of the engine, and the rule by which a compaction drops them | `VersionSet` |
| `VersionSet` | levels of files, reads through them, inputs of compactions, version edits | `DBImpl` |
| `DBImpl` | the engine: writers, background thread, readers, files, crashes, recovery | `MCDBImpl` (three instances: writes and databases), `DBImplProofs` (files and levels), and it `EntryOrderProofs` (order of entries) |
| `CrashSafeStore` | what the engine promises, in seven actions; instantiated by `DBImpl` | |

### RealtimeClient

A handler of the dispatch queue is one step, because the queue is serial. The
variables are the fields of `FPersistentConnection` (named as there) plus the
connection itself: `wire` holds its requests in order, each with the reply once
the server has given it, and the first `served` are answered. `AuthAccepted`,
`PutAnswered` and `GetAnswered` are the callbacks run by `onDataMessage`;
`OnDisconnect` clears `wire`, as `cancelSentTransactions` and a fresh request
table do, keeps the queues and schedules a retry unless `interrupted`. A read
reaches `GetDataLocally` when a queued write covers exactly its path
(`getServerValue` and the shadowing write of `FWriteTree`), otherwise
`GetDataAtPath`, with the three cases of the code: sent, queued with the offline
timer, queued without one while the connection authenticates.

A put is the number `putInternal` gives it and a date holds the number of the
put last stored, so "newer" is "greater". The app has no listener, no
transaction, no onDisconnect operation and no disk persistence; those branches
are absent. One path of a put is a date; the app's other writes
(`Users/<uid>`) behave the same and need no path of their own.

### DiaryDates and DiaryWalk

The code moves a date by `Int(date) - 1` or `+ 1` and repairs the result by its
digits: the year is the first four, the month the next two, the day whatever is
left. Numbers model this exactly: eight digits while the day has two, seven
once the code has joined a day below ten without a zero. `Trap` is the
out-of-range index. The walk is finite because it cannot leave December: month
13, then the trap.

### CalendarDiary

One screen on the main queue. `requests` is the client's view of its connection:
reads and saves in order, the first `served` dealt with by the server;
`callbacks` is the main queue. It keeps from `RealtimeClient` what the app can
notice: order, local answers for a date with a pending save, saves sent again
and reads lost with a connection (`ConnectionLost`), failed reads (`ReadFails`)
and refused saves. An entry carries the date it was written for (`about`), a
history variable by which misfiled diaries are recognised.

Three more history variables say when the code cannot be blamed less: `hurried`
(a move or save while a read is outstanding), `overtaken` (the last move was
answered locally in front of an older read), `failed` (a fault that may still
bear on the screen). `touched` marks edits.

### TreeLevel and HomeTree

`HomeTree` has the newest home screen, the service's static `data`, and the
accounts. A new home screen asks twice and loads three times (`viewDidLoad`,
`bind`, `viewWillAppear`), a reappearing one asks and loads once; answers only
touch `data`. The `Observable` of the view model is not a variable: `fetchData`
replaces it after it was bound and nothing assigns its value, so its listener
runs once, inside `bind`, and never again. Pictures are a sequence of levels of
which any element may arrive next.

### Session

The navigation controller's `stack` is a sequence of screens, each with the uid
it found when it loaded, as `viewDidLoad` keeps it in a field. Screens are never
reused: every button pushes a new view controller, and only the back button
removes one. A call of FirebaseAuth is in `calls` until it ends; its success
changes `currentUser` on FirebaseAuth's queue and sends two blocks to `main`,
first the announcement (which reaches `refreshAuthToken`), then the completion
the app gave. Both the announcement and the blocks of the database client go
through the main queue to the client's serial queue, so one FIFO is enough. A
completion whose screen has been popped finds `navigationController` nil and
pushes nothing, but its other effects take place.

The client is `RealtimeClient` seen from further away (a FIFO of requests, the
server serving and answering in one step), with what that module abstracts
from: `authToken` has an owner, the server takes a connection for a user
(`cred`) and applies rules by which users reach their own data only. The rules
of the real database are not in the repository; with open rules no write is
refused and only `RefusalsAreExplained` and `RecordsFollowAccounts` lose their
point.

A runtime error is a state of its own (`up = "trapped"`) with its `cause`: a uid
that is unwrapped and nil, a level that is nil, an index, an answer without an
emotion, or the address of the service. That address is blank in the committed
`Plus.swift:102`; it is a constant of each behaviour here, blank or filled in.

History variables say what a user has done to be exposed: `strayed` (went back
from the login screen, or left a screen while its call was under way),
`hurried` (made two calls of FirebaseAuth at once), `overtaken` (a token fetched
for an older session was stored over a newer one), `gone` (whose write of `Users`
was refused, died with the process, or was never made because nobody was logged in).

What the home screen draws is `HomeTree`'s, what the calendar diary screen
shows `CalendarDiary`'s; here they are screens that have a uid and may save.
Sending a reset mail changes nothing. A keychain that cannot be written, double
taps within a transition and what FSCalendar draws when are left out.

### InternalKey, VersionSet, DBImpl

A step of `DBImpl` runs from one point where `DBImpl::mutex_` is released to the
next, so all interleavings of writers, the background thread and readers are
those of the code. `BeginWrite` is `Write` and `MakeRoomForWrite` up to the
unlock before the log; `AddRecord`, `SyncLog` and `ApplyWrite` are the three
parts outside it. `StartFlush` and `FlushBuilt` are the two halves of
`WriteLevel0Table`; `WriteOutput` is one output file of a compaction; `edit` is
the version edit between the first and the second half of `LogAndApply`
(`EditWritten`, or `EditFails`), after which `Install...` runs the caller's rest.
A flush within a compaction (`db_impl.cc:908`) is `StartFlush` with `compact` set.

A table file is its number and its set of entries; its size is their number.
A log file is its records and how many are synced. `Crash("process")` keeps what
was written, `Crash("machine")` what was synced and any part of the rest;
`Torn` marks a record cut short by a failed write, behind which a reader loses
up to the next block. The MANIFEST is what its records add up to and whether it
is whole, torn at its end, or corrupt (a record behind a torn one).
`Recover` and `OpenInstalled` are `DB::Open` around the write of the new MANIFEST.

Choices the code makes by state that only tunes it are free here: which file of
a full level is compacted (the compact pointer), whether a read uses up the last
seek of a file, where an output ends early. The asserts of the library and the
`abort()` of `SaveTo` are active, since no build configuration defines `NDEBUG`
(`Abort`). The app leaves disk persistence off, so nothing opens the engine in
it; it is modelled as the library it is, with every client allowed.

### CrashSafeStore, and how DBImpl implements it

The abstract store is a history (`log`) of groups of writes, each with the
promise made when it was answered: to survive a crash of the machine (sync), of
the process (no sync), or neither (the log file was already damaged). `view` is
the current contents, `views` what snapshots and readers see. The mapping is at
the end of `DBImpl`: `log` is the history variable `history`, `view` what a read
at `lastSequence` would return through memtables and levels, `views` the same
at each snapshot and for the references a reader holds, `damaged` whether the
current log has a torn record. So a flush, a compaction, a move or the deletion
of files must be a stutter, a group of writes must take effect at once, a
snapshot must not move, and a crash may lose only what was not promised.

`durable` is TRUE from the moment the record of an edit is in the MANIFEST to
the moment its version is installed. Recovery is written with recursive functions
(`AtPlaces`, `LastLog`, `Recovered`) in place of `SelectSeq` and folds, which
the provers cannot take apart.

## Runs

| run | cfg | distinct states | shows |
|---|---|---|---|
| `client` | 1 date, 2 puts, 1 get, 2 faults, 1 token change, fairness | 0.2 M | order and promises of the client; writes settle, waiting reads move on |
| `client_lost_get` (violation) | 1 get, 1 fault | small | a read sent on a lost connection never completes |
| `walk_buttons` | every day of 2020 and 2021 | 1,900 | where the dates are right, and the trap |
| `walk_days` (violation) | every day of 2020 | small | the buttons at the ends of months |
| `editor` | 3 keys around a month's end, 3 reads, 2 saves, 1 fault | 3.2 M | when the screen is right, who is safe |
| `editor_other_date` (violation) | 2 keys, 3 reads, 1 save, no fault | 22 k | one date's diary on another's screen |
| `home_service` | 2 accounts, 4 counts, 3 visits, 2 diaries, 1 fault | 1.8 M | the shared count and level |
| `home_tree` (violation) | 1 account with 14 diaries, 2 visits, 1 diary, no fault | small | the tree one visit behind |
| `engine` | a put, a sync deletion of the same key, a forced flush; 2 of 6 kinds of events; no database, or one of two on disk | 0.2 M | files, levels, wakeups; the engine implements the store |
| `engine_hop` (violation) | 3 unsynced puts of one key, 1 fault, 1 crash, a database with too much in level 1 | 0.1 M | an old log replayed above its table |
| `engine_resurrect` (violation) | a deletion, a put, a forced flush, 1 snapshot, no fault and no crash | 5 k | a deleted value found again |
| `app` | 2 users, 2 days, 5 events (at most 3 calls, 4 pushes, 2 backs, 2 saves, 1 midnight, 2 faults, 1 death), the tree holding 1 diary where the code's holds 56 | 1.2 M | whose screens, tokens, reads, writes and records they are |

**Bounds.** Two puts and a get of the one date of `client` meet in every order (the
theorems are for any dates, puts and gets, and what is of other dates only makes the
queues longer); two faults allow a connection lost during a
replay, or a refused token followed by a lost connection, and one get is enough
because gets do not act on each other. Three reads on the editor are a read, a
move away and a move back, the shortest history in which a local answer
overtakes; two saves can be of one date or of two. The counts 0, 2, 14 and 55
with two more diaries cross a level's bound and the last bound. `DiaryWalk`
needs no bound but the years, at least 1001 (the code takes four characters for
the year): a leap year and the year after it contain every case of the code.

The `engine` run has limits so small that everything happens: a memtable holds
one entry, level 0 is full at one file and stalls at two, an output holds two
entries. Its databases put a file on each side of a gap in level 1, and two
entries of one key into neighbouring files with an older key below: the two
shapes in which a flush into a gap and a compaction without its boundary file go
wrong. Two events allow a fault and then a crash, or a snapshot and then a
manual compaction. Five events of the `app` run are the longest story told
above: write, save, leave, open my page, log out, with the diary still queued.
Symmetry over the two users is sound: nothing distinguishes them, and the run
has no liveness property.

Deadlock checking is off in every cfg: the counters that bound a behaviour stop
it, and a trap stops the walk.

**Properties that hold.**
`ReconnectIsScheduled` collects the `NSAssert`s of `tryScheduleReconnect`;
`AuthenticatesBeforeData` those of `sendPut`, `sendGet`, `restoreState`.
`EveryPutIsOnTheWire` and `PutsSettleInOrder` are the reason for
`AcknowledgedPutStands`: the replay of writes, some of which the server has
already stored, never brings an older diary back for good. `ReadYourWrites`
covers both ways of answering a read. `GetAnsweredOnce` is the race of the
offline timer. `SettledScreenShowsItsDate` says that the last move wins in spite
of completions that do not look at the date, because the client answers in
order, and names the one case in which it does not. `PatientWriterKeepsDates`
says who is safe from misfiling. `BeforeShowsThePreviousDay` and
`ButtonsKeepTheirDirection` say how far the date arithmetic can be trusted; the
first leaves out the 1st of March of a leap year, where the Before button skips a
day (see `walk_days` and theorem `LeapDayIsSkipped`).
`LastCountWins`, `TreeNeverShrinks` and `HomeShowsAKnownCount` say the same
of the tree: the count is right, and so is the picture of a visit that began with the
right count. Otherwise it is not (`home_tree`): it is drawn before the count arrives
and not drawn again, so it is one visit behind, after a login it is that of the
account before, and on the first visit of a process the hard-coded one.

`ImplementsStore`, `LiveFilesExist`, `NewerEntriesAbove`, `FreshFileNumbers`,
`WorkIsScheduled` (from which `StalledWriterIsServed` follows, see Proofs) are what the engine's locking and
numbering are for. Two more name the only ways in which it does go wrong:
`OnlyManualCompactionsOverlap` (the inputs of a manual compaction may leave a
gap; a memtable flushed into it meanwhile makes `SaveTo` abort) and
`ManifestBreaksOnlyAfterAnError` (the flush inside a compaction does not look at
the background error and writes behind a torn record; and `NewDB` does not sync
its MANIFEST).

`NewerEntriesAbove` is limited to behaviours without a fault or without a crash,
because beyond them it is false, and so is `ImplementsStore`. The `engine` run
cannot show it: in its instance the put and the sync deletion never leave an
unsynced log with two entries of a key. `engine_hop` has an instance that does.
A memtable is flushed inside a compaction, and the write of the MANIFEST fails
although its record has reached the file; `CompactMemTable` records the error, the
compaction goes on, and `LogAndApply` gives its edit the log number in memory,
which is still the old one. The machine crashes and keeps the first of two
unsynced records of that log. Recovery finds in the MANIFEST both the flushed
table, which has the two entries, and the old log, which it replays into level 0:
the older entry is now above the newer one, and a `Get` returns it.
`ImplementsStore` is refuted by the same history (checked on that instance, where
it takes longer than a run should).

`CompactionsKeepContents` is false without any failure: see `engine_resurrect`. The
level 1 file of keys 1 and 2 meets the deletion of key 2 while a snapshot needs its
value; the outputs hold two entries each, so that the marker ends the first file and the
value starts the second. The snapshot is released, and a write of key 1 alone
is compacted into level 1: its inputs there are the first file, not its boundary file
(`SetupOtherInputs`, `version_set.cc:1410`), the marker is dropped as obsolete, and
the value behind it is found again. `BackgroundKeepsReads` is what is left when
no marker of the current version is cut off from older entries of its key
(`MarkerIsCutOff`): no step of the background thread changes what a Get or a snapshot finds,
though snapshots come and go and memtables are flushed while it works.

So what the passing run shows of the refinement `ImplementsStore` is: one write, one
sync deletion, a forced flush and any two events, in which neither history fits.

In `app`, `ScreensActForTheirUser` and `TrapsAreExplained` say what a user must do
to meet a screen of another account or the trap of a nil uid;
`RefusalsAreExplained` which writes can be refused: one made while its user was
signed in and the client had been told only if that session ended before it was sent (a diary saved offline
before a logout is refused and nobody is told), if an old token overtook a newer
one, or after two calls at once. `TokenIsOfTheUser` names the one race by which
a connection is authenticated for the wrong user. `PicturesCountTheirDiary`,
`MarksMissOnlyLaterDiaries` and `DiariesLeaveTheQueueStored` carry the client's
order of writes before reads up to the screens; `ResultsAnswerTheirSave` is about
late analyses and repeated saves; `RecordsFollowAccounts` lists how an account
and its record in `Users` part: the record of a deleted account stays, because
its removal is sent when the credential is gone.

**Fairness** (`client`, `client_lost_get`). Weak fairness of timers,
retries, the token service, the ready callback, the server and the delivery of
answers: a block put on a dispatch queue or a timer runs, and a reachable server
answers. Nothing is assumed of failures; their number is bounded, which is
"connections stop being lost". No fairness is assumed of the app.

## Findings

Each is a run that TLC refutes; the line it contradicts is quoted in
`PROJECT.json`.

1. A read sent on a connection that is lost never completes
   (`FPersistentConnection.m:766`): `sent` stays set, `restoreState` skips it.
2. The After button leaves the calendar at the end of a month: `2021021` for the
   1st of February, the 29th of February every year, month 13 after December,
   and an index out of range ten presses later (`CalendarDiary.swift:189`). The
   Before button skips a 29th of February (`CalendarDiary.swift:143`). One run,
   `walk_days`, refutes both; it stops at the first, TLC's `-continue` lists both.
3. Without any failure, a diary can stay on the screen of another date, where
   Save would store it (`CalendarDiary.swift:68`).
4. The tree of the home screen is not the user's: it is drawn before the count
   arrives and not drawn again (`ViewController.swift:81`).
5. After a failed write of the MANIFEST and a crash the engine may return an older
   value than it has stored: entries hop across levels, which
   `version_set.cc:338` says they never do (`version_set.cc:806`, see Runs).
6. A deleted value may come back without any failure, after a snapshot has kept it
   beside its deletion marker: the marker is dropped, against `db_impl.cc:955`, because a
   compaction reads no boundary files of the next level (`version_set.cc:1410`, see Runs).

## Proofs

TLAPS proves the following for every value of the constants that the assumptions
admit; every leaf is checked.

**RealtimeClientProofs** assumes `BoundsAssumption` (the bounds are naturals) and
`WholeDiaryAssumption` (the path of the whole diary is not a date). `TypeCorrect`,
`NeverStuck` and `DataAfterAuth` say that `TypeOK`, `ReconnectIsScheduled` and
`AuthenticatesBeforeData` hold of `Spec` for any number of dates, writes, reads,
failures and token changes. None of the three is inductive alone, so they are
proved from

    TypeInv == TypeOK /\ WireIds /\ AuthPhase /\ OtherPhases
                      /\ RepliesInOrder /\ ReconnectIsScheduled

- `WireIds`: a request on the wire has the number of a put or get the client
  made. Without it an answer could add a number outside the type of the results.
- `RepliesInOrder`: exactly the first `served` requests have a reply. An answer
  is taken from the front of the wire and is one the server gave.
- `AuthPhase` and `OtherPhases`: while the connection authenticates the wire
  holds the authentication first and no data; in the phases before it, nothing.
  This is what makes the callback of an authentication find the client in the
  phase its `NSAssert` expects, and a refused one leave nothing behind.
- `ReconnectIsScheduled` is part of the induction because a timer is set only
  if none is pending: that it exists is a fact about earlier steps.

Each way of touching the wire has a lemma (a request appended, the reply of the
server, the answer consumed, the replay of the queues after authenticating,
the loss of the connection), each action a lemma that cites them, and the
theorems combine these.

**DiaryWalkProofs** assumes `YearsAssumption`: the days are picked in years 1001
to 9999, because the code takes the first four characters for the year and may
step back one. `WalkInv` says that a key is `Trap`, or eight digits of a day
whose month can have it, or seven digits of one of the first nine days of a
month after January, and that a thirteenth month or a trap is behind a press on a
31 December. Two lemmas take the keys apart (`EightDigitFields`,
`SevenDigitFields`), four say what each button does to each form, and
`BeforeKeeps` and `AfterKeeps` put them together. From the invariant follow
all four properties of `walk_buttons`: `KeysOfAWalk`, `OnlyThirteenthMonthTraps`,
`DirectionIsKept`, `PreviousDayIsShown`; and `LeapDayIsSkipped`, what the Before button
does in the case the last one leaves out. The run checks two years, the theorems
all of them.

**RealtimePromiseProofs** adds the promises about writes and reads: every invariant
`client` checks is now a theorem. The steps of the client are first read
as what they do to the wire (`Sent`, `Dealt`, `Shifted`, `Replayed`, `Dropped`)
and to the queues (`PutMade`, `PutApplied`, `GetSettled`, ...); lemma
`StepForms` proves that each action is one of them, and the invariants are kept step by step.

- `ReplayIsExact` and `WritesSettleInOrder`: `EveryPutIsOnTheWire` and
  `PutsSettleInOrder` are inductive together, as `WritesInv`. The replay sends the
  queued writes in the order of their numbers, and an answer settles the oldest.
- `AcknowledgedWriteStands` needs `ServedPutsStand`: a write the server has
  applied, answered or not, has left its date as new as itself. The write
  applied next is the newest of all served or settled (`AppliedIsNewest`), so
  a replayed write that was stored before is followed by those behind it.
- `CompletionRunsOnce` needs that a read with an answer has left the queue,
  which is what the check of the offline timer's block relies on.
- `ReadsContainWrites` needs `GetsFollowTheirWrites` (on the wire a read is behind
  the writes made before it) and `ServedGetsReadTheirWrites`.

**HomeTreeProofs** assumes `CountsAssumption` (initial counts are naturals)
and `NoUserAssumption` (no account is `NoUser`). `TypeCorrect`, `TheLastCountWins`,
`AKnownCountIsShown` and the action property `TheTreeOnlyGrows` follow from

    HomeInv == TypeOK /\ CountWins /\ CountFits /\ PicturesFit

`CountWins` speaks of the last request outstanding where `LastCountWins` speaks
of none: it asks for the account logged in, so its answer settles the count.
`CountFits` says that the service's level is that of its count, and the count one the account
has had; `PicturesFit` that every picture shown or under way is of the level known
before the visit. `MoreDiariesTallerTree`
(`setTreeLevel` is monotone up to its last bound of 56 diaries, whatever level
was there before) is the arithmetic behind `TheTreeOnlyGrows`.

**CalendarDiaryProofs** assumes `KeysAssumption` and `NoDiaryAssumption`.
`TheScreenSettles` and `PatienceKeepsDates` prove the two properties of the
editor for any dates, moves, saves and failures, from four invariants:

- `ServedSavesAreStored`: the last save of a date the server has dealt with is
  what it stores.
- `LastMoveWins`: while a read is outstanding the last request is a read of the
  date shown, with no save of that date outstanding; else, while a callback
  waits, the last callback answers the date shown with what the client holds for
  it; else that is on the screen. It is what makes the completion right although
  it does not look at the date.
- `DatesAreKept`: of a user who waits, all texts stored, on their way, read or
  waiting in a callback belong to the date they are under.

**DBImplProofs** holds `CompactionKeepsReads`, for any set of entries with
distinct sequence numbers per key. Whatever `Kept` drops, a read at the smallest
snapshot or later that looks into the outputs and then below finds what it found
in the inputs, or finds nothing where it found a deletion marker. `NewestIsKept`
(the newest entry a reader may see is never hidden) and `KeptIsNewest` (none
becomes newest that was not) are the two halves. The run has one snapshot at most, the
theorem any. It also shows where `engine_resurrect` goes wrong: keys of `IsBase` must
be in no file left aside, and the boundary file is one.

**DBImplProofs** assumes `DBImplAssumption`, `VersionSetAssumption` and
`InitialDatabasesAssumption` (a database found on disk has finitely many files,
numbered below its next number; they are tables with entries of known keys, whose
sequence numbers are at most its last one) and `BatchAssumption` (a batch is a
sequence of operations on keys).

`WorkIsAlwaysScheduled` proves `WorkIsScheduled` of `Spec` from

    SchedInv == WorkIsScheduled /\ CompactionIsScheduled

The second part (a compaction under way has the background call scheduled) is
needed because the flush inside a compaction installs a
version and leaves `scheduled` alone: it must still be set from the outer call.
`MaybeSchedules` and `EndSchedules` say that the two places which recompute the
flag establish the invariant whatever else changed, `Untouched` that a step
which leaves the seven variables alone keeps it; each action is one of the three.
`StalledWritersAreServed` follows, since a stalled writer's reason to wait is
work: it needs `L0StopWritesTrigger > L0CompactionTrigger`, which the code's
constants satisfy, and that level 0 has a number of files (`TablesAreFinite`).

`FilesAreKept` and `NumbersAreFresh` are about who owns which file number, through
flushes inside compactions, failed edits, crashes and recoveries. They are proved
together, from `FileInv`:

- `CountsAreAhead` with `ManifestCounts` and `EditCounts`: the next number is above
  every file and log that counts, in memory, in the edit under way and in the
  MANIFEST, which is where a recovery will take it from.
- `OutputsPending`: outputs of a compaction are in `pending_outputs_`, so the
  deletion of obsolete files, which may run in the flush inside it, passes over them.
- `FlushIsNew`: the number of a flush is in no version and no output until its
  edit is made, so building or dropping its file damages nobody.
- `HeldFilesExist`: what the versions, the reader, the compaction, the edit and the
  MANIFEST hold is on disk. `LiveFilesExist` alone is not inductive: it does not
  speak of the edit that is about to be installed, nor of the MANIFEST's version,
  which becomes the current one after a crash.
- `ManifestIsCurrent`: the MANIFEST's version is the current one, or an edit is
  between its record and its installation (`durable`), or there was an error.
- `WornIsCurrent`, `Quiet`, `LogsTyped`, `LogsBounded`: a file that has used up its seeks is in the
  current version, nothing is under way outside an open database, logs are
  sequences and their numbers bounded.

`TheManifestBreaksOnlyAfterAnError` is an action property and follows from
`SoundInv`, which adds that the edit about to be written keeps the levels sorted
and that a MANIFEST not synced yet belongs to an empty database.

`TypesAreCorrect` needs more than `TypeOK`, since recovery turns records of logs back
into entries and a compaction turns entries into files. `TypeInv` has a part for each
group of variables; `LogsHoldRecords` (sequences of records with bounded sequence
numbers), `TablesAreGood` (metadata are those of the entries, and no file is empty, or
its smallest and largest entry would not exist) and `CountsTyped` (snapshots and
readers are at most at the last sequence number) feed one another.

`OnlyManualCompactionsBringOverlaps` is about the `abort()` in `SaveTo`
(`version_set.cc:733`): files of a level above 0 must not overlap. It is proved from
`CurrentIsSorted` (of the current version, and of it with the edit to be written)
and `CompactInv`, of a compaction under way that the engine chose:

- Its inputs are *linked* (`Linked`): no key lies behind some of them and in front of
  the others without being in one of them. A manual compaction does not have
  this, and a memtable flushed into the gap is what makes it abort. `InputsAreLinked`
  shows it from the way `SetupOtherInputs` grows the inputs, whichever of its
  sets it takes.
- A flush goes to a level above 0 only if it overlaps nothing there (`FlushedBelow`);
  against linked inputs it lies on one side of all of them, and so of all outputs
  (`FlushStaysApart`).
- Files of the next level that are no inputs lie apart from all entries of the inputs
  (`OthersAreApart`, by `OverlappingStayAside` and `BoundaryStaysAside`: what
  `GetOverlappingInputs` and `AddBoundaryInputs` leave out may be left out).
- Outputs follow one another in front of what is still to be merged
  (`OutputsInOrder`).

The recursive functions of the recovery (`MemTables`, `LastLog`, `Recovered`,
`AtPlaces`) are shown to exist and to be what their equations say
(`MemTablesExist`, `RecoveredExists`), and facts about each of their values are
proved by least counterexample (`UpTo`, from the well-foundedness of `<` on the
naturals): where an induction can be phrased with a set of naturals, the prover
can do it.

**EntryOrderProofs** proves `EntriesStayInOrder`, that is `NewerEntriesAbove`, which every
Get relies on: it stops at the first place that has an entry for its key. The
databases found on disk are assumed in that order (`NewestFirst`), and no group of writes is
`None`. The invariant speaks of everything that will once be read:

    OrderInv == NoErrorThenCrash => MemAbove /\ EditAbove /\ LogsFollow /\ ManifestAbove /\ InputsNewest

- `MemAbove`: entries of the memtable have higher numbers than those being flushed, and these
  than those of the files, which are `NewestFirst`. Numbers, not only entries of one
  key: a flush does not look at keys.
- `EditAbove`: the version that the edit under way will make is `NewestFirst`, and the
  logs its record leaves to be replayed are newer. In an open database without a flush,
  the edit brings no new entries.
- `LogsFollow`: the records of the current logs are in order, newer than the files, and no
  newer than the sequence numbers handed out (`Reserved`, which a group uses up before
  it is applied).
- `ManifestAbove`: the same of the version and the logs the MANIFEST names, which may be
  older or, after a write that failed, newer than the current ones. Crashes may remove
  any records (`Fewer`) and order stays; a recovery makes tables of what is left
  (`RecoveredVersion`).
- `InputsNewest`: a compaction leaves in its level no file with an older entry of a key it
  moves down. It is what `AddBoundaryInputs` is for (`SetupLeavesNewer`); the mutant without it
  breaks `NewerEntriesAbove`.

It rests on `CountInv`, which needs no condition (`CountInvAlways`): the numbers of logs
and files (`LogIsLast`, `LastCounts`), that the edit of a flush adds exactly the memtable
at the level `PickLevelForMemTableOutput` picks (`FlushForm`), with the newest number
(`FlushIsNewest`), and `CopiesOnly`, for the flush that is tried again after its edit has
failed but reached the MANIFEST: what the MANIFEST has beyond the current version are
copies of the memtable, and the second copy goes beside or above them. Without the condition
`NoErrorThenCrash` the invariant breaks in `ManifestAbove`, where `engine_hop` breaks it.

**SessionProofs** assumes `SessionAssumption`, `FetchAssumption` and
`CauseAssumption` (days and bounds are naturals, and the values that stand for
"none" are not users, numbers or causes). It proves all ten properties of `app`, for any
number of users, days, calls, saves and failures, and any bounds on them. The
invariants, each kept by every action of `Next`:

- `TypeCorrect` from `TypeInv`, which adds to `TypeOK` the types of every record,
  that each connection phase has the requests it should (`WireFits`), that
  identifiers are fresh (`IdsBounded`), and that screens which need a user have
  one when they loaded (`LoadedHaveUsers`). `OneToken` says that a token block on the
  main queue is the only one and belongs to the fetch under way.
- `TokenIsTheUsers` from `TokenInv` and `TokenSent`. Sessions number the changes of
  the user; `NotesFit` says that announcements wait in the order of their sessions,
  the last of them being of the present one, `TokenIsNew` that with nothing to announce
  the client's token is of the session unless overtaken, `TokenSent` that the last
  auth request on the wire carried that token (`CredAt` is what the server will
  have made of the requests before a place of the wire).
- `ScreensAreTheUsers` from `Honest`: as long as the user has neither strayed nor
  hurried, the state is `Orderly`. One call or completion at a time (`OneCall`); who
  asked for it is still in front (`CallsFit`, `DoneFit`); the screens since the last
  login screen are of the current user (`OfUser`), but between the success of
  a deletion and its completion (`Settles`). None of these holds alone: that a
  completion finds the right screens depends on the call having found them, and
  that on nothing else being under way.
- `RefusalsHaveReasons` from `Owned` (a write marked as its user's own was made when
  the client knew of the session), `OwnTaken` (on a connection that is not
  overtaken the server will take it for that user: `CredAt` at its place on the
  wire) and `Others` (what is not the user's own needs a reason).
- `TrapsHaveReasons`: the first step that stops the app (`WhoStops`) is taken in an
  `Orderly` state or with a reason; a count beyond the last bound never goes
  back (`UsageGrows`), and an address that is filled in stays so.
- `DiariesAreNotDropped` is an action property: only an answer, a refusal and the
  end of the process take a write out of the queue.
- `ResultsAnswerTheirSaves` from `ResultsFit`: posts outstanding are of different
  saves, a result is of a save posted no longer, and lies above a writing screen.
- `PicturesHaveCounted` and `MarksMissLaterDiaries` from `QueueInv` and `MarksFit`. On
  the wire a read is behind the diaries saved before it (`Ordered`), while connected all
  diaries of the queue have been sent (`Sending`), reads are sent once (`GetsFit`), so when
  a read is served those diaries have left the queue (`Seen`) and are in
  the database the calendar reads (`MarksFit`). `RestoreState` sends writes first and
  reads after; that is where the order would be lost.
- `RecordsAreFollowed` from `RecordsInv`: as long as no two calls are under way at once, a
  user whose writes of `Users` all went through has the account exactly if the last such
  write in the queue says so, or, with none there, exactly if the database has the
  record (`Decided`), or the completion that will write is still to come (`Coming`).
  It needs that the server meets the writes in the order of the queue (`InStep`)
  and that a completion finds the account it is about as its call has left it
  (`Completed`).

Two properties of the run turned out to be false beyond its bounds when their
proofs were planned, and were corrected: a write made after a change of user of which
the client has not been told is not the user's own, and a record of `Users` can be
missing because nobody was logged in when the registration completed.

**Left to TLC.** Liveness under fairness (`client`, `client_lost_get`),
which the prover cannot do, and two properties of the engine, `BackgroundKeepsReads` and the
refinement `ImplementsStore`. The refinement does not hold for all constants, as
`engine_hop` and `engine_resurrect` show, and the abstract store has no action
for what the code does there.

## Not modelled

`PROJECT.json` gives each component its status and reason. In short:

- Delegates, storyboards and assets have no behaviour of their own. Which of
  several texts and pictures an emotion gets is random, and left out.
- Alamofire, FSCalendar, GTMSessionFetcher, nanopb, GoogleUtilities and the
  other Pods are third-party code met only through the app's calls; most of the
  lines of C and C++ headers in the repository are theirs or declarations.
  FirebaseAuth appears as the current user, its announcements and its tokens.
- Of the database SDK, listeners, transactions, onDisconnect operations,
  persistence, stats and app check are left out because the app does not use
  them; the idle and background disconnections are lost connections here.
- Of the engine, what lies below a table or a record (blocks, checksums,
  filters, compression, caches, the skip list's memory order), `~DBImpl` and
  `shutting_down_`, `reuse_logs`, `DestroyDB`, repair, and a manual compaction of
  part of the keys. The requester of a manual compaction is not modelled as waiting, so it
  does not withdraw it after a background error either (`db_impl.cc:618`). Iterators
  do not sample what they read (`version_set.cc:436`); a file may be up for a seek
  compaction after any read. A process that ends is a crash.
- Words typed after a "no data" answer are grey and are erased by the next tap
  (`CalendarDiary.swift:88`): `CalendarDiary` has the steps, no property is about it.
- Two devices of one account: a replayed write can overwrite a newer one of the
  other device, which `AcknowledgedPutStands` does not exclude.

## Plan

Done, in this order: the client (everything else relies on it) with its first
theorems; the dates; the calendar diary screen; the tree; the storage engine
with its abstract store; the app as a whole; the theorems about the promises of
the client, the editor, the home screen and the files of the engine and of the app; the types of the engine, the order
of its levels and of its entries.

What is left is the refinement `ImplementsStore` on the behaviours without the two
faults above: beside the order of entries it needs the abstract store's prefix of durable
writes as a function of the logs, the MANIFEST and the tables.
