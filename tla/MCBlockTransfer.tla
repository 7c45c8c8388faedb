-------------------------- MODULE MCBlockTransfer --------------------------
(* Instances of BlockTransfer for TLC.                                     *)
EXTENDS BlockTransfer

(* For blocks of two bytes: empty, shorter than a block, one block, one    *)
(* block and a bit, two blocks, and up to four with a partial last one.    *)
MCSizes == {0, 1, 2, 3, 4, 5, 7}

(* A count before the file, at its start, inside it and past its end.      *)
MCGarbage == {-1, 0, 1, 4}

=============================================================================
