----------------------------- MODULE LineReader -----------------------------
(***************************************************************************)
(* What the readers of csapp.c promise to their callers, however the       *)
(* system cuts the stream: a call takes the next bytes, all at once.       *)
(*                                                                         *)
(* A byte is identified with its place in the stream, from 0 on.           *)
(***************************************************************************)
EXTENDS Naturals

CONSTANTS
  Streams,   \* the streams: sets of [length, newlines]
  Asks,      \* what may be asked for: n, or maxlen for a line
  Nothing    \* no call is in progress

VARIABLES
  stream,    \* the one at hand
  asked,     \* the call in progress: [op, n]
  taken,     \* how many bytes the calls have returned
  result     \* what the last one returned: [value, bytes]

vars == <<stream, asked, taken, result>>

Left == stream.length - taken

(* k bytes are what a call gets.                                           *)
Whole(k) == k <= asked.n /\ k \in {asked.n, Left}

IsNewline(b) == b \in stream.newlines

Line(k) ==
  /\ k < asked.n
  /\ \A j \in taken .. taken + k - 1 : IsNewline(j) => j = taken + k - 1
  /\ \/ k = asked.n - 1
     \/ k = Left
     \/ k > 0 /\ IsNewline(taken + k - 1)

Init ==
  /\ stream \in Streams
  /\ asked = Nothing
  /\ taken = 0
  /\ result = Nothing

Ask ==
  /\ asked = Nothing
  /\ asked' \in [op : {"readn", "readnb", "line"}, n : Asks]
  /\ result' = Nothing
  /\ UNCHANGED <<stream, taken>>

(* The value is the number of bytes, but for a line that is cut short or   *)
(* that the end of the stream cuts: then it counts the NUL after it too.   *)
Return ==
  /\ asked # Nothing
  /\ \E k \in 0 .. Left :
       /\ IF asked.op = "line" THEN Line(k) ELSE Whole(k)
       /\ taken' = taken + k
       /\ result' =
            [bytes |-> [j \in 1 .. k |-> taken + j - 1],
             value |-> IF \/ asked.op # "line"
                          \/ k > 0 /\ IsNewline(taken + k - 1)
                          \/ asked.n > 1 /\ k = 0
                       THEN k ELSE k + 1]
  /\ asked' = Nothing
  /\ UNCHANGED stream

Next == Ask \/ Return

Spec == Init /\ [][Next]_vars

=============================================================================
