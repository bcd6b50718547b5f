------------------------ MODULE MCSelfEncryptingDisk ------------------------
(* SelfEncryptingDisk for TLC: two host threads and two workers, so that   *)
(* commands on the same sector overtake each other, and two host threads   *)
(* with commands of one and of two sectors on one worker, so that a short  *)
(* one leaves the end of another's buffer_out.                             *)
EXTENDS SelfEncryptingDisk, TLC

OneLba == {0}
TwoLba == 0..1
MCVal  == {"a", "z"}
DiskOps  == {"read", "write", "write_zeroes"}
BlockOps == {"read", "write", "other"}
AllFaults == {"aes", "reply", "eof"}
AesFaults == {"aes"}
Symmetry  == Permutations(Host)
=============================================================================
