------------------------------ MODULE MCDBImpl ------------------------------
(* A bounded instance of DBImpl: the writes, and the databases found on disk. *)
EXTENDS DBImpl

CONSTANTS w1, w2, w3

Put(k, v) == [key |-> k, val |-> v]
Delete(k) == [key |-> k, val |-> Deleted]

Batches == [w \in Writers |-> CASE w = w1 -> <<Put(2, "a")>> [] w = w2 -> <<Delete(2)>>
                                 [] w = w3 -> <<>>]
Syncs == [w \in Writers |-> w = w2]

Entry(k, s, v) == [key |-> k, seq |-> s, val |-> v]

\* Level 1 has files on both sides of key 2.
Gap == [version |-> [EmptyVersion EXCEPT ![1] = {File(2, {Entry(1, 1, "x")}),
                                                 File(3, {Entry(3, 2, "y")})}],
        next |-> 4, last |-> 2]

\* Level 1 has two entries of key 3 in two files, as a snapshot may have left
\* them; the first file covers key 2, which is in level 2.
Split == [version |-> [EmptyVersion EXCEPT ![1] = {File(3, {Entry(1, 2, "x"), Entry(3, 4, "z")}),
                                                   File(4, {Entry(3, 3, "y")})},
                                           ![2] = {File(2, {Entry(2, 1, "v")})}],
          next |-> 5, last |-> 4]

OneOfEach == [what \in Events |-> 1]

Databases == {Gap, Split}

\* Two writes of one key and a third that fills the memtable, none synced, while
\* level 1 has more than it should: one fault and one crash.
Overwrites == [w \in Writers |-> CASE w = w1 -> <<Put(2, "a")>> [] w = w2 -> <<Put(2, "b")>>
                                    [] w = w3 -> <<Put(2, "c")>>]
Unsynced == [w \in Writers |-> FALSE]

Crowded == [version |-> [EmptyVersion EXCEPT ![1] = {File(2, {Entry(1, 2, "x")})},
                                             ![2] = {File(3, {Entry(1, 1, "y")})}],
            next |-> 4, last |-> 2]

ErrorAndCrash == [what \in Events |-> IF what \in {"crash", "fault"} THEN 1 ELSE 0]

CrowdedDatabases == {Crowded}

\* A key is deleted while a snapshot holds its value, then another is written and
\* the memtable emptied: neither a fault nor a crash.
Deletion == [w \in Writers |-> CASE w = w1 -> <<Delete(2)>> [] w = w2 -> <<Put(1, "a")>>
                                  [] w = w3 -> <<>>]

Pair == [version |-> [EmptyVersion EXCEPT ![1] = {File(2, {Entry(1, 1, "x"), Entry(2, 2, "v")})}],
         next |-> 3, last |-> 2]

SnapshotAndFlush == [what \in Events |-> IF what \in {"snapshot", "flush"} THEN 1 ELSE 0]

PairDatabases == {Pair}
=============================================================================
