-------------------------- MODULE MCComputeSession --------------------------
(* ComputeSession for TLC: a page is two words, csAllocMem gives at most   *)
(* two pages, and an int counts eight words.                               *)
EXTENDS ComputeSession, Functions, TLC

\* Files of one and two pages, the last one not full.
SmallFiles == {<<2, 2>>, <<1, 2, 2>>}
\* One more than csAllocMem gives, and one that is negative as an int.
LargeFiles == {<<1, 2, 2>>, <<1, 1, 1, 1, 1>>, <<1, 1, 1, 1, 1, 1, 1>>}
\* The sum of the words, modulo 2^32.
SumOfWords(words) == SumFunction(words) % WORD_MOD

Checksums  == {"checksum"}
Demos      == {"checksum", "sleep"}
Twice      == {1, 2}
Once       == {1}
Counts     == {-1, 1}
DriveFaults == {"device", "timeout", "map"}
HostFaults == {"map", "io"}
AllFaults  == {"device", "timeout", "map", "io", "edit"}
Symmetry   == Permutations(Proc)
=============================================================================
