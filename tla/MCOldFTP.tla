------------------------------ MODULE MCOldFTP ------------------------------
EXTENDS OldFTP, TLC

CONSTANTS long, empty, missing

(* Two buffers, the second one not full, and no byte at all.               *)
MCSize == long :> 3 @@ empty :> 0

=============================================================================
