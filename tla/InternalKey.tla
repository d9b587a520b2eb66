---------------------------- MODULE InternalKey ----------------------------
(***************************************************************************)
(* Entries of the LevelDB storage engine (db/dbformat.cc, db/memtable.cc)   *)
(* and the rule by which a compaction drops some of them                   *)
(* (DBImpl::DoCompactionWork).  An entry is a user key, the sequence number *)
(* of the write that made it, and a value or the deletion marker.           *)
(***************************************************************************)
EXTENDS Integers

CONSTANT Deleted      \* kTypeDeletion: the value of a deletion marker

\* InternalKeyComparator: user keys ascending, then the newest entry first.
Before(d, e) == \/ d.key < e.key
                \/ d.key = e.key /\ d.seq > e.seq

AtOrBefore(d, e) == ~Before(e, d)

\* What a seek to <<k, s>> in a memtable or a table finds for k: the newest of
\* the entries no newer than s, or nothing.
Newest(E, k, s) ==
  {e \in E : /\ e.key = k /\ e.seq <= s
             /\ \A d \in E : d.key = k /\ d.seq <= s => d.seq <= e.seq}

\* Rule (A): every reader that may see e sees a newer entry of its key instead.
Hidden(E, e, smallestSnapshot) ==
  \E d \in E : d.key = e.key /\ e.seq < d.seq /\ d.seq <= smallestSnapshot

\* A deletion marker every reader sees, with nothing of its key below it.
ObsoleteMarker(e, smallestSnapshot, IsBase) ==
  e.val = Deleted /\ e.seq <= smallestSnapshot /\ e.key \in IsBase

\* The entries of E a compaction writes again; IsBase holds the user keys with
\* no file in the levels below its output.
Kept(E, smallestSnapshot, IsBase) ==
  {e \in E : /\ ~Hidden(E, e, smallestSnapshot)
             /\ ~ObsoleteMarker(e, smallestSnapshot, IsBase)}
=============================================================================
