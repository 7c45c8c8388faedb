------------------------------- MODULE MCFTP -------------------------------
(* Instances of FTP for TLC.                                               *)
EXTENDS FTP, TLC

CONSTANTS c1, c2, e1, e2    \* two clients, two executants

(* A file of two blocks, so that a transfer can be cut between them, one   *)
(* of a single block, which is over with the read after the loop, and one  *)
(* of none.                                                                *)
MCBlocks == [big |-> 2, small |-> 1, empty |-> 0]

OneFile == [big |-> 2]

Get(f) == [cmd |-> "get", file |-> f]

Plain(cmd) == [cmd |-> cmd, file |-> NoFile]

(* Every kind of command, "gone" being a file the server does not have.    *)
AllCommands ==
  {Get("big"), Get("small"), Get("empty"), Get("gone"), [cmd |-> "put", file |-> "big"],
   Plain("unknown"), Plain("bye")}

GetAndBye == {Get("big"), Plain("bye")}

(* ... and "get .".                                                        *)
GetAndDirectory == GetAndBye \cup {Get("dir")}

(* Something less than nothing is what is left of a long in an int.        *)
MCDirSizes == {-1, 1}

(* Clients do not differ, nor do executants: for the runs of invariants.   *)
Symmetric == Permutations({c1, c2}) \cup Permutations({e1, e2})

=============================================================================
