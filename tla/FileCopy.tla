------------------------------ MODULE FileCopy ------------------------------
(***************************************************************************)
(* What a GET and its resumptions promise, seen from the file the client   *)
(* is building and from nothing else: bytes only ever arrive where they    *)
(* belong, a byte that has arrived stays until the copy is started over,   *)
(* and a copy counts as complete only when every byte is there.            *)
(*                                                                         *)
(* A byte of the served file is identified with its offset in that file,   *)
(* so the copy is right at offset o exactly when dst[o] = o.               *)
(***************************************************************************)
EXTENDS Integers

CONSTANT Sizes            \* the sizes the served file may have

VARIABLES
  filesize,               \* the size of the served file, fixed once chosen
  dst,                    \* the client's file: offset -> byte it holds
  status                  \* what the client is doing with that file

vars == <<filesize, dst, status>>

Hole == -1                \* nothing of the source was ever written there

NoBytes == [o \in 0 .. filesize - 1 |-> Hole]

Full(file) == \A o \in 0 .. filesize - 1 : file[o] = o

TypeOK ==
  /\ filesize \in Sizes
  /\ dst \in [0 .. filesize - 1 -> {Hole} \cup (0 .. filesize - 1)]
  /\ status \in {"copying", "complete", "stopped"}

Init ==
  /\ filesize \in Sizes
  /\ dst = NoBytes
  /\ status = "copying"

(* A run of consecutive bytes is written; the copy goes on or ends.        *)
Write ==
  /\ status = "copying"
  /\ \E from, to \in 0 .. filesize :
       /\ from <= to
       /\ dst' = [o \in 0 .. filesize - 1 |->
                    IF from <= o /\ o < to THEN o ELSE dst[o]]
  /\ status' \in {"copying", "stopped", "complete"}
  /\ status' = "complete" => Full(dst')
  /\ UNCHANGED filesize

(* The copy is interrupted, or ends short, or is given up once complete.   *)
Stop ==
  /\ status # "stopped"
  /\ status' = "stopped"
  /\ UNCHANGED <<filesize, dst>>

(* An interrupted copy is taken up again with the bytes it already has.    *)
Resume ==
  /\ status = "stopped"
  /\ status' = "copying"
  /\ UNCHANGED <<filesize, dst>>

(* The file is requested again from its first byte.                        *)
StartOver ==
  /\ status # "copying"
  /\ status' = "copying"
  /\ dst' = NoBytes
  /\ UNCHANGED filesize

Next == Write \/ Stop \/ Resume \/ StartOver

Spec == Init /\ [][Next]_vars

=============================================================================
