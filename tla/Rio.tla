-------------------------------- MODULE Rio --------------------------------
(***************************************************************************)
(* The robust I/O package of csapp.c: readers and a writer over read() and *)
(* write(), which move any part of what is asked, are interrupted by       *)
(* signals, fail, or meet the end of the stream; and echo() of old/echo.c, *)
(* the only user of the line reader.                                       *)
(*                                                                         *)
(* A byte is identified with its place in the stream, from 0 on.  A        *)
(* descriptor is read either through its rio_t or directly, never both.    *)
(* All calls are those of the wrappers Rio_*: an error ends the process.   *)
(***************************************************************************)
EXTENDS Integers, Sequences

CONSTANTS
  RIO_BUFSIZE,  \* the internal buffer, #define'd to 8192
  MAXLINE,      \* the buffer of echo, #define'd to 8192
  Streams,      \* the streams: a set of [length, newlines]
  Asks,         \* what callers ask for: n, or maxlen for a line
  Nothing       \* no call is in progress

Ops == {"readn", "readnb", "line"}

OpsOf(program) == IF program = "direct" THEN {"readn"} ELSE {"readnb", "line"}

ASSUME RioAssumption ==
  /\ RIO_BUFSIZE \in Nat \ {0} /\ MAXLINE \in Nat \ {0, 1}
  /\ \A s \in Streams : s.length \in Nat /\ s.newlines \subseteq Nat
  /\ Asks \subseteq Nat
  /\ Nothing \notin [op : Ops, n : Nat]

VARIABLES
  stream,       \* what the other end sends before it closes
  user,         \* the program: direct calls, buffered ones, or echo()
  read,         \* how many bytes read() has given
  rio_buf,      \* the bytes the last read() put there
  rio_bufptr,   \* how many of them have been taken
  rio_cnt,      \* how many are unread, or -1 after a failed read()
  asked,        \* the call in progress: [op, n]
  usrbuf,       \* what it has stored for its caller
  taken,        \* how many bytes finished calls have returned
  result,       \* what the last one returned: [value, bytes]
  unwritten,    \* what rio_writen has still to write
  out,          \* what echo has written
  pc            \* "runs", "exit" on an error, "returned" from echo

rio  == <<rio_buf, rio_bufptr, rio_cnt>>
call == <<asked, usrbuf, taken, result, unwritten>>
vars == <<stream, user, read, rio, call, out, pc>>

NUL == -1

Min2(a, b) == IF a <= b THEN a ELSE b

TypeOK ==
  /\ stream \in Streams
  /\ user \in {"direct", "buffered", "echo"}
  /\ read \in 0 .. stream.length
  /\ rio_buf \in Seq(Nat) /\ rio_bufptr \in 0 .. Len(rio_buf)
  /\ rio_cnt \in -1 .. Len(rio_buf) - rio_bufptr
  /\ asked = Nothing \/ asked \in [op : OpsOf(user), n : Nat]
  /\ usrbuf \in Seq(Nat) /\ taken \in Nat
  /\ unwritten \in Seq(Nat \cup {NUL}) /\ out \in Seq(Nat \cup {NUL})
  /\ pc \in {"runs", "exit", "returned"}

rio_readinitb == rio_buf = <<>> /\ rio_bufptr = 0 /\ rio_cnt = 0

Init ==
  /\ stream \in Streams
  /\ user \in {"direct", "buffered", "echo"}
  /\ read = 0 /\ rio_readinitb
  /\ asked = Nothing /\ usrbuf = <<>> /\ taken = 0 /\ result = Nothing
  /\ unwritten = <<>> /\ out = <<>>
  /\ pc = "runs"

-----------------------------------------------------------------------------
(* Calls and their returns.                                                *)

(* The calls a program makes; echo only ever reads lines.                  *)
Calls ==
  IF user = "echo" THEN {[op |-> "line", n |-> MAXLINE]}
  ELSE [op : OpsOf(user), n : Asks]

(* echo calls again when it has written the line, as long as it got one.   *)
Ask ==
  /\ pc = "runs" /\ asked = Nothing /\ unwritten = <<>>
  /\ user = "echo" /\ result # Nothing => result.value # 0
  /\ asked' \in Calls
  /\ asked'.op = "line" => asked'.n > 0
  /\ result' = Nothing
  /\ UNCHANGED <<stream, user, read, rio, usrbuf, taken, unwritten, out, pc>>

IsNewline(b) == b \in stream.newlines

EndsLine == usrbuf # <<>> /\ IsNewline(usrbuf[Len(usrbuf)])

(* A mistake: what one read() gives is enough.                             *)
EnoughAtOnce == IF asked.op = "line" THEN EndsLine \/ Len(usrbuf) + 1 >= asked.n
                ELSE usrbuf # <<>> \/ asked.n = 0

(* The head of the loops: nleft > 0; n < maxlen, and the newline's break.  *)
Enough ==
  IF asked.op = "line" THEN EndsLine \/ Len(usrbuf) + 1 >= asked.n
  ELSE Len(usrbuf) = asked.n

(* A mistake: the NUL is always counted.                                   *)
LineValueWithNUL == Len(usrbuf) + 1

(* The n of rio_readlineb starts at 1 and is not the number of characters  *)
(* but after a newline's break: any other line counts its NUL.             *)
LineValue == IF EndsLine THEN Len(usrbuf) ELSE Len(usrbuf) + 1

Value == IF asked.op = "line" THEN LineValue ELSE Len(usrbuf)

(* What echo then gives to Rio_writen: as many bytes of its buffer.        *)
Returns(value) ==
  /\ asked' = Nothing /\ usrbuf' = <<>>
  /\ taken' = taken + Len(usrbuf)
  /\ result' = [value |-> value, bytes |-> usrbuf]
  /\ unwritten' =
       IF user # "echo" THEN <<>> ELSE SubSeq(Append(usrbuf, NUL), 1, value)
  /\ UNCHANGED <<stream, user, read, rio_buf, rio_bufptr, out, pc>>

Return ==
  /\ pc = "runs" /\ asked # Nothing /\ Enough
  /\ Returns(Value) /\ UNCHANGED rio_cnt

-----------------------------------------------------------------------------
(* read().                                                                 *)

(* A call that goes on.                                                    *)
Going == pc = "runs" /\ asked # Nothing /\ ~ Enough

Buffered == asked.op # "readn"

(* Mistakes: rio_read refills while rio_cnt == 0, or while rio_cnt < n.    *)
ReadingWhenZero == Going /\ (Buffered => rio_cnt = 0)

ReadingTooSoon == Going /\ (Buffered => rio_cnt < asked.n)

(* It has to call read().                                                  *)
Reading == Going /\ (Buffered => rio_cnt <= 0)

Given(k) == [j \in 1 .. k |-> read + j - 1]

(* rio_readn: straight into the caller's buffer.                           *)
ReadDirect ==
  /\ Reading /\ ~ Buffered
  /\ \E k \in 1 .. Min2(asked.n - Len(usrbuf), stream.length - read) :
       usrbuf' = usrbuf \o Given(k) /\ read' = read + k
  /\ UNCHANGED <<stream, user, rio, asked, taken, result, unwritten, out, pc>>

(* A mistake: the buffer pointer is not reset.                             *)
RefillWithoutReset ==
  /\ Reading /\ Buffered
  /\ \E k \in 1 .. Min2(RIO_BUFSIZE, stream.length - read) :
       rio_buf' = Given(k) /\ rio_cnt' = k /\ read' = read + k
  /\ UNCHANGED <<stream, user, rio_bufptr, call, out, pc>>

(* rio_read refills its empty buffer.                                      *)
Refill ==
  /\ Reading /\ Buffered
  /\ \E k \in 1 .. Min2(RIO_BUFSIZE, stream.length - read) :
       /\ rio_buf' = Given(k) /\ rio_bufptr' = 0 /\ rio_cnt' = k
       /\ read' = read + k
  /\ UNCHANGED <<stream, user, call, out, pc>>

(* What read() returns to rio_read stays in rio_cnt.                       *)
Gets(cnt) ==
  /\ Reading
  /\ rio_cnt' = IF Buffered THEN cnt ELSE rio_cnt

(* EINTR: the loop calls read() again.                                     *)
Interrupted ==
  Gets(-1) /\ UNCHANGED <<stream, user, read, rio_buf, rio_bufptr, call, out, pc>>

(* The end of the stream: what there is, or 0.                             *)
EndOfStream ==
  /\ read = stream.length
  /\ Gets(0) /\ Returns(IF usrbuf = <<>> THEN 0 ELSE Value)

(* Any other error: -1, and the wrapper ends the process.                  *)
ReadFails ==
  /\ Gets(-1) /\ pc' = "exit"
  /\ UNCHANGED <<stream, user, read, rio_buf, rio_bufptr, call, out>>

(* A mistake: all the buffer holds.                                        *)
CountWithoutMin == IF asked.op = "line" THEN 1 ELSE rio_cnt

(* min(n, rio_cnt); n is 1 for a line.                                     *)
Count == IF asked.op = "line" THEN 1 ELSE Min2(asked.n - Len(usrbuf), rio_cnt)

(* The end of rio_read.                                                    *)
Copy ==
  /\ Going /\ Buffered /\ rio_cnt > 0
  /\ usrbuf' = usrbuf \o SubSeq(rio_buf, rio_bufptr + 1, rio_bufptr + Count)
  /\ rio_bufptr' = rio_bufptr + Count /\ rio_cnt' = rio_cnt - Count
  /\ UNCHANGED <<stream, user, read, rio_buf, asked, taken, result, unwritten, out, pc>>

-----------------------------------------------------------------------------
(* rio_writen, as echo calls it: as many write() as it takes.              *)
Write ==
  /\ pc = "runs"
  /\ \E k \in 1 .. Len(unwritten) :
       /\ out' = out \o SubSeq(unwritten, 1, k)
       /\ unwritten' = SubSeq(unwritten, k + 1, Len(unwritten))
  /\ UNCHANGED <<stream, user, read, rio, asked, usrbuf, taken, result, pc>>

WriteFails ==
  /\ pc = "runs" /\ unwritten # <<>>
  /\ pc' = "exit"
  /\ UNCHANGED <<stream, user, read, rio, call, out>>

EchoReturns ==
  /\ pc = "runs" /\ user = "echo" /\ result # Nothing /\ result.value = 0
  /\ pc' = "returned"
  /\ UNCHANGED <<stream, user, read, rio, call, out>>

Progress ==
  \/ Return \/ ReadDirect \/ Refill \/ EndOfStream \/ Copy
  \/ Write \/ EchoReturns

Next == Ask \/ Progress \/ Interrupted \/ ReadFails \/ WriteFails

Spec == Init /\ [][Next]_vars

(* A read() or a write() that is tried again and again gets through.       *)
FairSpec == Spec /\ WF_vars(Progress) /\ WF_vars(user = "echo" /\ Ask)

-----------------------------------------------------------------------------
(* Properties.                                                             *)

(* No byte is lost, doubled or moved by the interruptions and the cuts:    *)
(* what was returned, what the call has stored and what rio_buf holds are, *)
(* in this order, the bytes read() has given, and nobody reads around a    *)
(* buffer that holds some.                                                 *)
NothingLost ==
  /\ user = "direct" => rio_cnt = 0
  /\ \A j \in 1 .. Len(usrbuf) : usrbuf[j] = taken + j - 1
  /\ \A j \in 1 .. rio_cnt :
       rio_buf[rio_bufptr + j] = taken + Len(usrbuf) + j - 1
  /\ taken + Len(usrbuf) + (IF rio_cnt > 0 THEN rio_cnt ELSE 0) = read

(* A call never stores more than its caller has room for, the NUL of a     *)
(* line included, and nothing after a newline.                             *)
WithinAsked ==
  IF asked = Nothing THEN usrbuf = <<>>
  ELSE IF asked.op = "line"
  THEN /\ Len(usrbuf) < asked.n
       /\ \A j \in 1 .. Len(usrbuf) - 1 : ~ IsNewline(usrbuf[j])
  ELSE Len(usrbuf) <= asked.n

(* Each call returns what one atomic call would: all that was asked for,   *)
(* or what comes before the end; one line and nothing after its newline.   *)
Reader == INSTANCE LineReader WITH Asks <- Nat

ImplementsReader == Reader!Spec

(* The byte that is due after the first k of s, where a NUL counts for     *)
(* nothing.                                                                *)
Due(s, k) ==
  IF k = 0 THEN 0 ELSE IF s[k] = NUL THEN s[k - 1] + 1 ELSE s[k] + 1

(* A NUL belongs after the last byte of a line that has no newline,        *)
(* because the stream ended or because it did not fit.                     *)
MayBeNUL(s, j) ==
  /\ j > 1 /\ s[j - 1] \notin {NUL} \cup stream.newlines
  /\ \/ s[j - 1] = stream.length - 1
     \/ j >= MAXLINE
        /\ \A b \in 1 .. MAXLINE - 1 : s[j - b] \notin {NUL} \cup stream.newlines

Echoed(s) ==
  \A j \in DOMAIN s : IF s[j] = NUL THEN MayBeNUL(s, j) ELSE s[j] = Due(s, j - 1)

(* "read and echo text lines until client closes connection": what echo    *)
(* has sent is the stream, in order and whole when it returns, but for a   *)
(* NUL after a line that has no newline.                                   *)
EchoIsStream ==
  /\ Echoed(out)
  /\ pc = "returned" => Due(out, Len(out)) = stream.length

(* A call returns, or its process ends; echo returns at the end.           *)
CallReturns ==
  /\ asked # Nothing ~> asked = Nothing \/ pc = "exit"
  /\ user = "echo" ~> pc # "runs"

=============================================================================
