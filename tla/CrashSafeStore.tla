--------------------------- MODULE CrashSafeStore ---------------------------
(***************************************************************************)
(* What the LevelDB storage engine promises its clients                     *)
(* (include/leveldb/db.h, options.h): a map from keys to values; groups of   *)
(* writes that take effect at once and in order; snapshots that do not move; *)
(* and after a crash the writes its WriteOptions say survive.  log is the    *)
(* history of the groups of writes: an entry has its operations and a        *)
(* promise, "issued" until the store has answered, then what survives:       *)
(*   "machine"  a crash of the machine (sync = true),                        *)
(*   "process"  a crash of the process only (sync = false),                  *)
(*   "none"     neither: the log file was damaged by an earlier failed write.*)
(***************************************************************************)
EXTENDS Sequences, SequencesExt

CONSTANTS Keys, NotFound

VARIABLES up, log, view, views, damaged

vars == <<up, log, view, views, damaged>>

Overlay(c, op) == [c EXCEPT ![op.key] = op.val]
ApplyOps(c, ops) == FoldLeft(Overlay, c, ops)

Empty == [k \in Keys |-> NotFound]

Contents(l) ==
  FoldLeft(ApplyOps, Empty,
           [i \in DOMAIN l |-> IF l[i].promise = "issued" THEN <<>> ELSE l[i].ops])

Init ==
  /\ ~up /\ view = Empty /\ views = {} /\ ~damaged
  /\ \A i \in DOMAIN log : log[i].promise = "machine"

\* DB::Open: what is left of the history is all there, for good.
Open ==
  /\ ~up /\ up'
  /\ log' = [i \in DOMAIN log |-> [log[i] EXCEPT !.promise = "machine"]]
  /\ view' = Contents(log')
  /\ UNCHANGED <<views, damaged>>

Issue ==
  /\ up
  /\ Len(log') = Len(log) + 1
  /\ LET entry == log'[Len(log')]
     IN  entry.promise = "issued" /\ log' = Append(log, entry)
  /\ UNCHANGED <<up, view, views, damaged>>

\* A group of writes takes effect and its writers are told so.
Commit ==
  /\ up /\ log # <<>>
  /\ LET last == log[Len(log)]
     IN  /\ last.promise = "issued"
         /\ log' = [log EXCEPT ![Len(log)].promise =
                      IF damaged THEN "none" ELSE IF last.sync THEN "machine" ELSE "process"]
         /\ view' = ApplyOps(view, last.ops)
  /\ UNCHANGED <<up, views, damaged>>

\* A write fails and leaves the log file damaged; the next log file is whole.
Damage == up /\ damaged' /\ UNCHANGED <<up, log, view, views>>
Repair == up /\ ~damaged' /\ UNCHANGED <<up, log, view, views>>

\* A snapshot, or a reader, keeps what it saw first.
Take(id) ==
  /\ up
  /\ \E c \in {view} \cup {w.contents : w \in views} :
        views' = views \cup {[id |-> id, contents |-> c]}
  /\ UNCHANGED <<up, log, view, damaged>>

Release(id) ==
  /\ up
  /\ views' = {w \in views : w.id # id}
  /\ UNCHANGED <<up, log, view, damaged>>

\* Some writes are lost, none that was promised to survive, and the order of
\* the others stays.
Crash(survives) ==
  /\ ~up' /\ view' = Empty /\ views' = {} /\ ~damaged'
  /\ \E lost \in SUBSET {log[i].id : i \in {j \in DOMAIN log : log[j].promise \notin survives}} :
        log' = SelectSeq(log, LAMBDA entry : entry.id \notin lost)

Next ==
  \/ Open \/ Issue \/ Commit \/ Damage \/ Repair
  \/ \E id \in {w.id : w \in views \cup views'} : Take(id) \/ Release(id)
  \/ Crash({"process", "machine"}) \/ Crash({"machine"})

Spec == Init /\ [][Next]_vars
=============================================================================
