------------------------------ MODULE TreeLevel -----------------------------
(* How the number of diaries selects one of the nine pictures of the tree. *)
EXTENDS Integers

Levels == 0..8

\* The largest number of diaries of each level, as the chain of ifs lists it.
UpTo == [l \in Levels |-> IF l = 0 THEN 2 ELSE 7 * l]
MostDiaries == 56

InLevel(usage, l) == usage <= UpTo[l] /\ (l > 0 => usage > UpTo[l - 1])

LevelOf(usage) == CHOOSE l \in Levels : InLevel(usage, l)

\* Mutant: the bounds are strict on both sides.
StrictTreeLevel(usage, level) ==
    IF \E l \in Levels : InLevel(usage, l) /\ usage < UpTo[l]
    THEN LevelOf(usage) ELSE level

\* Mutant: the levels are numbered from one.
TreeLevelFromOne(usage, level) ==
    IF usage <= MostDiaries THEN LevelOf(usage) + 1 ELSE level

\* Mutant: beyond the last bound the tree is planted again.
TreeLevelStartsOver(usage, level) ==
    IF usage <= MostDiaries THEN LevelOf(usage) ELSE 0

\* setTreeLevel: beyond the last bound no branch is taken and the level stays.
SetTreeLevel(usage, level) ==
    IF usage <= MostDiaries THEN LevelOf(usage) ELSE level

=============================================================================
