--------------------------- MODULE MCLatencyDump ---------------------------
(* LatencyDump for TLC: two commands of two words, a default size of one   *)
(* record and a half, reads that end inside a record.                      *)
EXTENDS LatencyDump

Sizes     == {-1, 0, COMMANDS * RECORD}
AllFaults == {"io"}
=============================================================================
