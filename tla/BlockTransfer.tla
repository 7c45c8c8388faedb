--------------------------- MODULE BlockTransfer ---------------------------
(***************************************************************************)
(* One GET of one file, block by block, and every resumption of it:        *)
(* server2client (traitement.c) on one side of a TCP connection and        *)
(* client2server (clientFTP.c, the client's receiving loop in spite of its *)
(* name) on the other, the SIGINT handler of the client that saves the     *)
(* resume point in .log, and the restart of both loops from that file.     *)
(*                                                                         *)
(* A byte of the served file is identified with its offset.  The exchange  *)
(* that precedes the bytes (request, FOUND, SENDING) is over when the      *)
(* module starts; both ends know filesize.  At most one client process and *)
(* one executant are alive at a time here, and both read the same .log     *)
(* when a transfer is resumed.                                             *)
(***************************************************************************)
EXTENDS Integers, Sequences

CONSTANTS
  BUFFER_SIZE,  \* the block size, #define'd to 4096 on both sides
  SockSize,     \* how many bytes the connection holds before write() blocks
  Sizes,        \* the sizes the served file may have
  Garbage       \* what the count of packets may be when it was never set

ASSUME BlockAssumption ==
  /\ BUFFER_SIZE \in Nat \ {0}
  /\ SockSize \in Nat \ {0}
  /\ Sizes \subseteq Nat
  /\ Garbage \subseteq Int

VARIABLES
  filesize,     \* catchsize() of the served file, sent in the SENDING response
  (* the executant, in server2client *)
  spc,          \* where it is
  sremaining,   \* remaining
  spos,         \* offset of the descriptor of the served file
  sbuf,         \* buffer, up to the n bytes the last read put there
  sleft,        \* nleft of the rio_writen in progress
  (* the connection, server to client *)
  sock,         \* bytes sent and not yet read
  (* the client, in client2server *)
  cpc,          \* where it is
  cremaining,   \* remaining
  cpaquets,     \* paquets
  cpos,         \* offset of the descriptor of the client's file
  cbuf,         \* buffer, up to what rio_readn has put there so far
  clog,         \* log, the parameter of client2server
  global_log,   \* global_log, what the SIGINT handler writes
  resumed,      \* the transfer was started from .log: res.status is still 0
  (* on disk *)
  dst,          \* the client's file: offset -> byte it holds
  logexists,    \* existslog()
  logfile,      \* the contents of .log
  (* history *)
  exact,        \* every count recorded so far stands for that many full blocks
  overtaken     \* .log counts packets of a copy that was truncated since

servervars == <<spc, sremaining, spos, sbuf, sleft>>
clientvars == <<cpc, cremaining, cpaquets, cpos, cbuf, clog, global_log, resumed>>
diskvars   == <<dst, logexists, logfile>>
history    == <<exact, overtaken>>
vars == <<filesize, servervars, sock, clientvars, diskvars, history>>

Hole == -1

Min2(a, b) == IF a <= b THEN a ELSE b

NoBytes == [o \in 0 .. filesize - 1 |-> Hole]

(***************************************************************************)
(* log_t.  "named": filename holds the name of the file (global_log starts *)
(* as all zeroes, and an empty name does not survive the round trip        *)
(* through .log).  "counted": paquets_recus was assigned.  filesize is the *)
(* size of the file in every named log.                                    *)
(***************************************************************************)
LogType == [named : BOOLEAN, counted : BOOLEAN, paquets_recus : Int]

ZeroLog == [named |-> FALSE, counted |-> TRUE, paquets_recus |-> 0]

(* fill_log sets the request, the name and the size, not paquets_recus.    *)
FillLog == [named |-> TRUE, counted |-> FALSE, paquets_recus |-> 0]

(* A mistake: the packets are recorded before the new one is counted.     *)
CountLogBehind(n) ==
  [named |-> TRUE, counted |-> TRUE, paquets_recus |-> n - 1]

CountLog(n) == [named |-> TRUE, counted |-> TRUE, paquets_recus |-> n]

ServerPC == {"head", "write", "tailwrite", "rmlog", "done", "gone"}
ClientPC == {"head", "read", "tailread", "rmlog", "done",
             "saving", "closing", "dead", "exited"}

(* The client's end is closed: after the handler, or otherwise.            *)
Closed == cpc \in {"dead", "exited"}

TypeOK ==
  /\ filesize \in Sizes
  /\ spc \in ServerPC
  /\ sremaining \in Int
  /\ spos \in Nat
  /\ sbuf \in Seq(Nat)
  /\ sleft \in 0 .. Len(sbuf)
  /\ sock \in Seq(Nat)
  /\ Len(sock) <= SockSize
  /\ cpc \in ClientPC
  /\ cremaining \in Int
  /\ cpaquets \in Int
  /\ cpos \in Nat
  /\ cbuf \in Seq(Nat)
  /\ clog \in LogType
  /\ global_log \in LogType
  /\ resumed \in BOOLEAN
  /\ dst \in [0 .. filesize - 1 -> Int]
  /\ logexists \in BOOLEAN
  /\ logfile \in LogType
  /\ exact \in BOOLEAN
  /\ overtaken \in BOOLEAN

-----------------------------------------------------------------------------
(***************************************************************************)
(* A fresh GET: the client has opened its file with O_TRUNC and has the    *)
(* SENDING response; both loops start at the first byte.                   *)
(***************************************************************************)
Init ==
  /\ filesize \in Sizes
  /\ spc = "head"
  /\ sremaining = filesize
  /\ spos = 0
  /\ sbuf = << >>
  /\ sleft = 0
  /\ sock = << >>
  /\ cpc = "head"
  /\ cremaining = filesize
  /\ cpaquets = 0
  /\ cpos = 0
  /\ cbuf = << >>
  /\ clog = FillLog
  /\ global_log = ZeroLog
  /\ resumed = FALSE
  /\ dst = NoBytes
  /\ logexists = FALSE
  /\ logfile = ZeroLog
  /\ exact = TRUE
  /\ overtaken = FALSE

-----------------------------------------------------------------------------
(* The executant: server2client.                                           *)

(* A mistake in it: looping while anything remains.                        *)
WhileSomeRemains(remaining) == remaining > 0

(* "while (BUFFER_SIZE-remaining < 0)", the condition of both loops.       *)
MoreThanABlock(remaining) == BUFFER_SIZE - remaining < 0

(* How many bytes Rio_readn gets from a file of filesize bytes.            *)
Readable(pos, want) ==
  IF pos < filesize /\ want > 0 THEN Min2(want, filesize - pos) ELSE 0

(* A mistake: every block is read at the same offset.                      *)
FillSameBlock(n, at) ==
  /\ sbuf' = [i \in 1 .. n |-> spos + i - 1]
  /\ sleft' = n
  /\ spos' = spos
  /\ spc' = at

(* Rio_readn(fd, buffer, .) has put n > 0 bytes in the buffer.             *)
Fill(n, at) ==
  /\ sbuf' = [i \in 1 .. n |-> spos + i - 1]
  /\ sleft' = n
  /\ spos' = spos + n
  /\ spc' = at

AfterSend == IF resumed THEN "rmlog" ELSE "done"

(* When the file ends before remaining says so, n is 0 and the loop spins. *)
ServerReadBlock ==
  /\ spc = "head"
  /\ MoreThanABlock(sremaining)
  /\ Readable(spos, BUFFER_SIZE) > 0
  /\ Fill(Readable(spos, BUFFER_SIZE), "write")
  /\ UNCHANGED <<filesize, sremaining, sock, clientvars, diskvars, history>>

(* The read that follows the loop, for the last remaining bytes.           *)
ServerReadTail ==
  /\ spc = "head"
  /\ ~ MoreThanABlock(sremaining)
  /\ sremaining >= 0
  /\ \/ /\ Readable(spos, sremaining) > 0
        /\ Fill(Readable(spos, sremaining), "tailwrite")
     \/ /\ Readable(spos, sremaining) = 0
        /\ spc' = AfterSend
        /\ UNCHANGED <<spos, sbuf, sleft>>
  /\ UNCHANGED <<filesize, sremaining, sock, clientvars, diskvars, history>>

(* A negative remaining becomes a huge size_t, which read() refuses:       *)
(* Rio_readn ends the executant.                                           *)
ServerReadFails ==
  /\ spc = "head"
  /\ sremaining < 0
  /\ spc' = "gone"
  /\ UNCHANGED <<filesize, sremaining, spos, sbuf, sleft, sock, clientvars,
                 diskvars, history>>

(* rio_writen has handed the kernel k more bytes of the buffer.            *)
Written(k) ==
  /\ sleft' = sleft - k
  /\ \/ /\ sleft = k
        /\ sremaining' = sremaining - Len(sbuf)
        /\ spc' = IF spc = "write" THEN "head" ELSE AfterSend
     \/ /\ sleft # k
        /\ UNCHANGED <<sremaining, spc>>
  /\ UNCHANGED <<spos, sbuf>>

(* A mistake: rio_writen starts over at the head of the buffer after a     *)
(* short write (bufp is not advanced).                                     *)
ServerWriteFromStart ==
  /\ spc \in {"write", "tailwrite"}
  /\ ~ Closed
  /\ \E k \in 1 .. Min2(sleft, SockSize - Len(sock)) :
       /\ sock' = sock \o SubSeq(sbuf, 1, k)
       /\ Written(k)
  /\ UNCHANGED <<filesize, clientvars, diskvars, history>>

ServerWrite ==
  /\ spc \in {"write", "tailwrite"}
  /\ ~ Closed
  /\ \E k \in 1 .. Min2(sleft, SockSize - Len(sock)) :
       /\ sock' = sock \o [i \in 1 .. k |-> sbuf[Len(sbuf) - sleft + i]]
       /\ Written(k)
  /\ UNCHANGED <<filesize, clientvars, diskvars, history>>

(* The client's end is closed: until the reset comes back the kernel takes *)
(* the bytes and drops them; then the write fails and the executant ends   *)
(* (SIGPIPE, or unix_error in Rio_writen).                                 *)
ServerWriteToClosed ==
  /\ spc \in {"write", "tailwrite"}
  /\ Closed
  /\ \/ \E k \in 1 .. sleft : Written(k)
     \/ spc' = "gone" /\ UNCHANGED <<sremaining, spos, sbuf, sleft>>
  /\ UNCHANGED <<filesize, sock, clientvars, diskvars, history>>

(* remove("./.log") once a resumed transfer is sent.                       *)
ServerRemoveLog ==
  /\ spc = "rmlog"
  /\ spc' = "done"
  /\ logexists' = FALSE
  /\ UNCHANGED <<filesize, sremaining, spos, sbuf, sleft, sock, clientvars,
                 dst, logfile, history>>

(* The server is stopped, or its executant dies, at any moment.            *)
ServerStop ==
  /\ spc # "gone"
  /\ spc' = "gone"
  /\ UNCHANGED <<filesize, sremaining, spos, sbuf, sleft, sock, clientvars,
                 diskvars, history>>

-----------------------------------------------------------------------------
(* The client: client2server.                                              *)

AfterReceive == IF resumed THEN "rmlog" ELSE "done"

(* A mistake: the block about to be received is recorded as received.      *)
ClientCountsAhead ==
  /\ cpc = "head"
  /\ MoreThanABlock(cremaining)
  /\ global_log' = CountLog(cpaquets + 1)
  /\ cpc' = "read"
  /\ UNCHANGED <<filesize, servervars, sock, cremaining, cpaquets, cpos, cbuf,
                 clog, resumed, diskvars, history>>

(* The head of the loop: global_log = log, then Rio_readn of a block.      *)
ClientNextBlock ==
  /\ cpc = "head"
  /\ MoreThanABlock(cremaining)
  /\ global_log' = clog
  /\ cpc' = "read"
  /\ UNCHANGED <<filesize, servervars, sock, cremaining, cpaquets, cpos, cbuf,
                 clog, resumed, diskvars, history>>

ClientLeaveLoop ==
  /\ cpc = "head"
  /\ ~ MoreThanABlock(cremaining)
  /\ cpc' = "tailread"
  /\ UNCHANGED <<filesize, servervars, sock, cremaining, cpaquets, cpos, cbuf,
                 clog, global_log, resumed, diskvars, history>>

(* How many bytes the Rio_readn in progress still wants.                   *)
Wanted == (IF cpc = "read" THEN BUFFER_SIZE ELSE cremaining) - Len(cbuf)

(* One read() of the Rio_readn in progress: it may be short.               *)
ClientRead ==
  /\ cpc \in {"read", "tailread"}
  /\ \E k \in 1 .. Min2(Wanted, Len(sock)) :
       /\ cbuf' = cbuf \o SubSeq(sock, 1, k)
       /\ sock' = SubSeq(sock, k + 1, Len(sock))
  /\ UNCHANGED <<filesize, servervars, cpc, cremaining, cpaquets, cpos, clog,
                 global_log, resumed, diskvars, history>>

(* As the executant's: Rio_readn ends the process, without its handler.    *)
ClientReadFails ==
  /\ cpc = "tailread"
  /\ cremaining < 0
  /\ cpc' = "exited"
  /\ sock' = << >>
  /\ UNCHANGED <<filesize, servervars, cremaining, cpaquets, cpos, cbuf, clog,
                 global_log, resumed, diskvars, history>>

(* Rio_readn returns: it has everything, or end of file came first.        *)
ReadReturns == Wanted = 0 \/ (Wanted > 0 /\ sock = << >> /\ spc = "gone")

(* "if n > 0": Rio_writen to the file and the accounting that follows it.  *)
StoreBuffer ==
  /\ dst' = [o \in 0 .. filesize - 1 |->
               IF cpos <= o /\ o < cpos + Len(cbuf)
               THEN cbuf[o - cpos + 1] ELSE dst[o]]
  /\ cpos' = cpos + Len(cbuf)
  /\ cremaining' = cremaining - Len(cbuf)
  /\ cpaquets' = cpaquets + 1
  /\ cbuf' = << >>

(* The body of the loop after its read; usleep() is spent at the head.     *)
ClientStoreBlock ==
  /\ cpc = "read"
  /\ ReadReturns
  /\ cpc' = "head"
  /\ \/ /\ cbuf # << >>
        /\ StoreBuffer
        /\ clog' = CountLog(cpaquets + 1)
        /\ exact' = (exact /\ Len(cbuf) = BUFFER_SIZE)
     \/ /\ cbuf = << >>
        /\ UNCHANGED <<dst, cpos, cremaining, cpaquets, cbuf, clog, exact>>
  /\ UNCHANGED <<filesize, servervars, sock, global_log, resumed,
                 logexists, logfile, overtaken>>

(* What follows the read after the loop; then client2server returns.       *)
ClientStoreTail ==
  /\ cpc = "tailread"
  /\ ReadReturns
  /\ cpc' = AfterReceive
  /\ \/ cbuf # << >> /\ StoreBuffer
     \/ cbuf = << >> /\ UNCHANGED <<dst, cpos, cremaining, cpaquets, cbuf>>
  /\ UNCHANGED <<filesize, servervars, sock, clog, global_log, resumed,
                 logexists, logfile, history>>

ClientRemoveLog ==
  /\ cpc = "rmlog"
  /\ cpc' = "done"
  /\ logexists' = FALSE
  /\ UNCHANGED <<filesize, servervars, sock, cremaining, cpaquets, cpos, cbuf,
                 clog, global_log, resumed, dst, logfile, history>>

-----------------------------------------------------------------------------
(* handler_iencli.                                                         *)

(* SIGINT: with res.status == 0 (nothing was requested by this process)    *)
(* and no .log there is nothing to save and the process ends at once.      *)
Interrupt ==
  /\ cpc \in {"head", "read", "tailread", "rmlog", "done"}
  /\ \/ /\ ~ resumed \/ logexists
        /\ cpc' = "saving"
        /\ UNCHANGED sock
     \/ /\ resumed /\ ~ logexists
        /\ cpc' = "dead"
        /\ sock' = << >>
  /\ UNCHANGED <<filesize, servervars, cremaining, cpaquets, cpos, cbuf, clog,
                 global_log, resumed, diskvars, history>>

(* A log that can be resumed from; and a global_log that is of an earlier  *)
(* GET of this process, as long as the present one has not copied its own. *)
Usable(log) == log.named /\ log.counted

Stale == Usable(global_log) /\ ~ clog.counted

SaveLog ==
  /\ cpc = "saving"
  /\ cpc' = "closing"
  /\ logexists' = TRUE
  /\ logfile' = global_log
  /\ overtaken' = (overtaken \/ Stale)
  /\ UNCHANGED <<filesize, servervars, sock, cremaining, cpaquets, cpos, cbuf,
                 clog, global_log, resumed, dst, exact>>

(* After sleep(1), which leaves the executant time to go on.               *)
CloseSocket ==
  /\ cpc = "closing"
  /\ cpc' = "dead"
  /\ sock' = << >>
  /\ UNCHANGED <<filesize, servervars, cremaining, cpaquets, cpos, cbuf, clog,
                 global_log, resumed, diskvars, history>>

-----------------------------------------------------------------------------
(* What comes after a transfer.                                            *)

(* The user says bye; or types a request that nobody is there to answer,   *)
(* and handler_pipe, or the read error, ends the client.                   *)
Leave ==
  /\ cpc = "done"
  /\ cpc' = "exited"
  /\ sock' = << >>
  /\ UNCHANGED <<filesize, servervars, cremaining, cpaquets, cpos, cbuf, clog,
                 global_log, resumed, diskvars, history>>

StartFrom(p, deja_rempli, sstart, cstart) ==
  /\ sremaining' = filesize - deja_rempli
  /\ cremaining' = filesize - deja_rempli
  /\ spos' = sstart
  /\ cpos' = cstart
  /\ cpaquets' = p
  /\ clog' = CountLog(p)

(* Mistakes: the client's lseek() is missing; the failure of both lseek()s *)
(* is not seen; the block after the one recorded is taken for the next.    *)
StartWithoutSeek(p) ==
  StartFrom(p, BUFFER_SIZE * p,
            IF p < 0 THEN 0 ELSE BUFFER_SIZE * p, 0)

StartAnywhere(p) ==
  StartFrom(p, BUFFER_SIZE * p, BUFFER_SIZE * p, BUFFER_SIZE * p)

StartOneLater(p) ==
  LET next == IF p < 0 THEN 0 ELSE BUFFER_SIZE * (p + 1)
  IN  StartFrom(p + 1, BUFFER_SIZE * (p + 1), next, next)

(* Both loops start from .log.  lseek() to a negative offset fails and     *)
(* leaves the descriptor at 0.  The int product BUFFER_SIZE*p wraps for a  *)
(* large p, to a multiple of the block size all the same (4096 divides     *)
(* 2^32): it is then the product of another member of Garbage.             *)
StartAt(p) ==
  LET start == IF p < 0 THEN 0 ELSE BUFFER_SIZE * p
  IN  StartFrom(p, BUFFER_SIZE * p, start, start)

Restart ==
  /\ spc' = "head"
  /\ sbuf' = << >>
  /\ sleft' = 0
  /\ sock' = << >>
  /\ cpc' = "head"
  /\ cbuf' = << >>

(* The next client process, connected to an executant that is free.        *)
NewProcesses ==
  /\ Closed
  /\ spc \in {"done", "gone"}
  /\ Restart
  /\ global_log' = ZeroLog

(* The next request of the same client to the same executant; global_log   *)
(* is what the last transfer left.                                         *)
SameProcesses ==
  /\ cpc = "done"
  /\ spc = "done"
  /\ sock = << >>
  /\ Restart
  /\ UNCHANGED global_log

Resume ==
  /\ NewProcesses
  /\ logexists
  /\ logfile.named
  /\ \E p \in IF logfile.counted THEN {logfile.paquets_recus} ELSE Garbage :
       StartAt(p)
  /\ resumed' = TRUE
  /\ exact' = (exact /\ logfile.counted)
  /\ UNCHANGED <<filesize, diskvars, overtaken>>

(* Without .log the user asks for the file again; open() truncates it.  A  *)
(* count in global_log that was not of full blocks is still none.          *)
GetAgain ==
  /\ NewProcesses \/ SameProcesses
  /\ ~ logexists
  /\ sremaining' = filesize
  /\ cremaining' = filesize
  /\ spos' = 0
  /\ cpos' = 0
  /\ cpaquets' = 0
  /\ clog' = FillLog
  /\ resumed' = FALSE
  /\ dst' = NoBytes
  /\ exact' = (exact \/ ~ Usable(global_log'))
  /\ overtaken' = FALSE
  /\ UNCHANGED <<filesize, logexists, logfile>>

-----------------------------------------------------------------------------
Server ==
  \/ ServerReadBlock \/ ServerReadTail \/ ServerReadFails
  \/ ServerWrite \/ ServerWriteToClosed \/ ServerRemoveLog

Client ==
  \/ ClientNextBlock \/ ClientLeaveLoop \/ ClientRead \/ ClientReadFails
  \/ ClientStoreBlock \/ ClientStoreTail \/ ClientRemoveLog \/ SaveLog \/ CloseSocket

Next ==
  \/ Server \/ Client
  \/ ServerStop \/ Interrupt \/ Leave \/ Resume \/ GetAgain

Spec == Init /\ [][Next]_vars

(* Both processes are scheduled; nobody has to press ctrl-C or come back.  *)
FairSpec == Spec /\ WF_vars(Server) /\ WF_vars(Client)

-----------------------------------------------------------------------------
(* Properties.                                                             *)

Copied(n) == \A o \in 0 .. filesize - 1 : o < n => dst[o] = o

(* Whatever the interruptions, the short reads and even an uninitialized   *)
(* resume point, a byte of the served file is never stored anywhere but at *)
(* its own offset: the lseek()s of the two loops and the bytes in flight   *)
(* stay in step.                                                           *)
NoMisplacedByte == \A o \in 0 .. filesize - 1 : dst[o] \in {Hole, o}

(* The resume point in .log is ahead of what the client's file holds, so   *)
(* that resuming from it leaves a hole, in two cases only: a recorded      *)
(* count did not stand for full blocks; or ctrl-C came when Open() had     *)
(* truncated the file for another GET of the same process, and the loop of *)
(* client2server had not replaced the log of the one before.               *)
LogHonest ==
  logexists /\ Usable(logfile) /\ exact
  /\ ~ Copied(BUFFER_SIZE * logfile.paquets_recus)
    => overtaken

(* global_log is copied at the head of the loop, before the block it is    *)
(* about to receive is counted, and never after the last block: the log an *)
(* interrupted process leaves lags behind its file, by two blocks at most. *)
ReworkBounded ==
  cpc \in {"closing", "dead"} /\ logexists /\ Usable(logfile) /\ exact
    => \A o \in 0 .. filesize - 1 :
         o >= BUFFER_SIZE * (logfile.paquets_recus + 2) => dst[o] = Hole

(* When client2server returns with nothing remaining, after any number of  *)
(* interruptions and of GETs in one process, the client's file is the      *)
(* served file, unless the resume point was one of the two above.          *)
Finished == cpc \in {"rmlog", "done"} /\ cremaining = 0 /\ exact

CompleteCopy == Finished /\ ~ Copied(filesize) => overtaken

(* What the client has and what is on its way to it, in order.             *)
Received == cpos + Len(cbuf)

(* The connection neither loses nor reorders: between two live processes   *)
(* the bytes sent and not yet read are exactly the ones between the two    *)
(* positions.                                                              *)
StreamInStep ==
  ~ Closed =>
    /\ \A i \in 1 .. Len(cbuf) : cbuf[i] = cpos + i - 1
    /\ \A i \in 1 .. Len(sock) : sock[i] = Received + i - 1
    /\ spc # "gone" => Received + Len(sock) = spos - sleft

-----------------------------------------------------------------------------
(* The inductive invariant that the proofs rest on.                        *)

(* What the executant still has to write of its buffer ends at its place   *)
(* in the file, and it reads again only when nothing is left.              *)
ServerInStep ==
  /\ \A i \in 1 .. Len(sbuf) : sbuf[i] = spos - Len(sbuf) + i - 1
  /\ spc = "head" => sleft = 0

StreamInv == ServerInStep /\ StreamInStep /\ NoMisplacedByte

Receiving == cpc \in {"head", "read", "tailread"}

(* The Rio_readn in progress never holds more than it was asked for.       *)
BufferBounded ==
  /\ cpc = "head" => cbuf = << >>
  /\ cpc = "read" => Len(cbuf) <= BUFFER_SIZE /\ MoreThanABlock(cremaining)
  /\ cpc = "tailread" =>
       /\ cremaining <= BUFFER_SIZE
       /\ cbuf # << >> => Len(cbuf) <= cremaining

(* The three counts of the client tell the same story: what remains, how   *)
(* many packets, and where it stands in its file.                          *)
CountsAgree ==
  exact =>
    /\ cremaining = filesize - cpos
    /\ cremaining >= 0
    /\ ~ overtaken => Copied(cpos)
    /\ Receiving =>
         /\ cpaquets \in Nat
         /\ cpos = BUFFER_SIZE * cpaquets
         /\ clog.counted => clog.paquets_recus = cpaquets
         /\ \A o \in 0 .. filesize - 1 :
              o >= BUFFER_SIZE * (cpaquets + 2) => dst[o] = Hole

(* A resume point is within the file, and within what the copy holds of it *)
(* when it is of this copy; it is at most two blocks behind it.            *)
PointsInto(log) ==
  Usable(log) =>
    /\ log.paquets_recus \in Nat
    /\ BUFFER_SIZE * log.paquets_recus <= filesize

Backed(log) == Usable(log) => Copied(BUFFER_SIZE * log.paquets_recus)

LagsByTwo(log) ==
  Usable(log) =>
    \A o \in 0 .. filesize - 1 :
      o >= BUFFER_SIZE * (log.paquets_recus + 2) => dst[o] = Hole

LogsAgree ==
  exact =>
    /\ PointsInto(global_log) /\ LagsByTwo(global_log)
    /\ ~ overtaken /\ ~ Stale => Backed(global_log)
    /\ logexists => PointsInto(logfile)
    /\ logexists /\ ~ overtaken => Backed(logfile)
    /\ logexists /\ (cpc = "closing" \/ Closed) => LagsByTwo(logfile)
    /\ cpc = "read" => global_log = clog
    /\ Receiving /\ Usable(global_log)
         => global_log.paquets_recus >= cpaquets - 1

(* A client that was not started from .log has not found one, and one that *)
(* was removes it before it prompts.                                       *)
LogAway ==
  /\ logexists => resumed \/ cpc = "closing" \/ Closed
  /\ cpc = "rmlog" => resumed
  /\ cpc = "done" => ~ logexists

(* The invariant of the whole module: the bytes, and the resume point.     *)
CopyInv == StreamInv /\ BufferBounded /\ CountsAgree /\ LogsAgree /\ LogAway

-----------------------------------------------------------------------------
(* The file and what the client is doing with it, for FileCopy.            *)
CopyStatus ==
  IF cpc \in {"head", "read", "tailread"} THEN "copying"
  ELSE IF Finished /\ ~ overtaken THEN "complete"
  ELSE "stopped"

Copy == INSTANCE FileCopy WITH status <- CopyStatus

(* The block protocol with its interruptions implements FileCopy.          *)
ImplementsFileCopy == Copy!Spec

(* A transfer between two processes that are scheduled ends, unless the    *)
(* executant dies under it or its resume point was never set.              *)
Ended == cpc \in {"done", "dead", "exited"}

TransferEnds == []<>(Ended \/ spc = "gone" \/ ~ exact)

(* What the code does not guarantee.                                       *)

(* "reprise du transfert": a client that was interrupted before its copy   *)
(* was complete leaves a .log that names the file to resume.               *)
InterruptedIsResumable ==
  cpc = "dead" /\ ~ Copied(filesize) => logexists /\ logfile.named

(* When the server goes away the client's transfer ends too.               *)
ServerStopEndsTransfer == (spc = "gone") ~> Ended

=============================================================================
