------------------------------ MODULE MCCsApi ------------------------------
(* CsApi for TLC, with the sizes that the code has.  The placeholder of a  *)
(* CSE is 1 for 43: a process that has opened 44 files has both.           *)
EXTENDS CsApi, TLC

\* Too short for a device's name, for a CSE's, for several CSEs; the demos'.
Buffers   == {5, 14, 108, 4096}
\* The last number whose properties a command holds, and the next one.
CSECounts == {0, 2, 80, 81}
\* No argument, and the last number of them that a command holds.
Counts    == {0, 204}
AllFaults == {"open", "io", "map"}
NoFaults  == {}
Symmetry  == Permutations(Thread) \cup Permutations(Page)
=============================================================================
