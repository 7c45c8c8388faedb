-------------------------------- MODULE FTP --------------------------------
(***************************************************************************)
(* The conversation between clients (main of clientFTP.c) and executants   *)
(* (child_work and traitement), through one TCP connection per client and  *)
(* through one file, .log, that all of them share: clients and server run  *)
(* in the same directory, and every turn of either loop starts by looking  *)
(* for it.                                                                 *)
(*                                                                         *)
(* A file is a number of blocks and a block is sent, received and counted  *)
(* in one step: what happens inside a block is BlockTransfer's.  Memory    *)
(* does not run out, nor do file descriptors, which are ResumeLog's;       *)
(* connections hold what is written to them, and the server itself is not  *)
(* stopped.                                                                *)
(***************************************************************************)
EXTENDS Naturals, Integers, Sequences, FiniteSets

CONSTANTS
  Clients,      \* client processes; each is launched at most once
  Executants,   \* the NPROC children of the server
  Blocks,       \* the files of ./Server: name -> its size in blocks
  Directories,  \* names that open() opens there and read() refuses
  DirSizes,     \* what catchsize may make of them, in blocks too
  Commands,     \* what users type: a set of [cmd, file]
  Garbage,      \* what a count of packets may be when it was never set
  MaxInFlight   \* bound: a user types no get while more units are unread

Files == DOMAIN Blocks

NoFile == "no file"

(* The name readlog() returns when .log is empty: it was never set.        *)
Unset == "unset"

NoOne == "no one"

ASSUME FTPAssumption ==
  /\ \A f \in Files : Blocks[f] \in Nat
  /\ Commands \subseteq
       [cmd : {"get", "put", "ls", "bye", "unknown", "nameless"}, file : STRING]
  /\ Garbage \subseteq Nat
  /\ DirSizes \subseteq Int
  /\ {NoFile, Unset} \cap (Files \cup Directories) = {} /\ Files \cap Directories = {}
  /\ NoOne \notin Clients

VARIABLES
  (* the clients *)
  cpc,          \* where each client is
  creq,         \* req, the request of this turn
  status,       \* res.status
  rest,         \* remaining of client2server, in blocks
  paquets,      \* paquets of client2server, and its place in the file
  log,          \* log, as client2server holds it
  global_log,   \* global_log
  resuming,     \* client2server was entered from .log
  (* the executants *)
  epc,          \* where each executant is
  on,           \* the client at the other end of connfd
  left,         \* remaining of server2client, in blocks
  sending,      \* the file server2client sends, and its place in it
  again,        \* server2client was entered from .log
  (* the connections *)
  backlog,      \* connections the system has completed, not yet accepted
  conn,         \* the server's end of a client's connection
  up, down,     \* what was sent and not yet read, to and from the server
  reset,        \* an end was closed with something unread
  (* the shared file *)
  dotlog,       \* .log
  linked,       \* clients in their handler whose open .log is still there
  (* history *)
  misfiled,     \* the clients that stored a block where it does not belong
  rough         \* the connections on which something out of the ordinary
                \* happened: ctrl-C at the client, a .log that one of the
                \* ends found, a get of a directory, an accept that failed

clientvars == <<cpc, creq, status, rest, paquets, log, global_log, resuming>>
execvars   == <<epc, on, left, sending, again>>
netvars    == <<backlog, conn, up, down, reset>>
logvars    == <<dotlog, linked>>
history    == <<misfiled, rough>>
vars == <<clientvars, execvars, netvars, logvars, history>>

-----------------------------------------------------------------------------
(* A log_t: the file, its size, how many packets.  NoFile stands for every *)
(* name that opens nothing: a zeroed log_t comes back from .log with the   *)
(* name "0", what fscanf finds on the line after its empty one.            *)
ZeroLog == [file |-> NoFile, size |-> 0, at |-> 0]

Names == Files \cup Directories \cup {r.file : r \in Commands} \cup {NoFile, Unset}

LogType == [file : Names, size : Int, at : Nat]

Absent == [there |-> FALSE, log |-> ZeroLog]

(* fopen(".log", "w") leaves it empty until fclose().                      *)
Emptied == [there |-> TRUE, log |-> [ZeroLog EXCEPT !.file = Unset]]

Saved(l) == [there |-> TRUE, log |-> l]

existslog == dotlog.there

(* Units of a connection: a request, the bare word of a bye, a response,   *)
(* one word (the bare status of a 404), a block of a file.                 *)
Request(r)     == [kind |-> "request", req |-> r]
ByeWord        == [kind |-> "bye"]
Response(s, n) == [kind |-> "response", status |-> s, filesize |-> n]
Word(s)        == [kind |-> "word", status |-> s]
Block(f, i)    == [kind |-> "data", file |-> f, index |-> i]

ClientGone == {"bye", "killed", "exited"}
Alive == {c \in Clients : cpc[c] \notin ClientGone \cup {"off"}}

ClientPC == {"off", "top", "readlog", "prompt", "response", "size", "head",
             "block", "rmlog", "saving", "closing"} \cup ClientGone

ExecPC == {"accept", "top", "readlog", "readreq", "send", "rmlog", "dead"}

Requests == Commands \cup {[cmd |-> "none", file |-> NoFile]}

TypeOK ==
  /\ cpc \in [Clients -> ClientPC]
  /\ creq \in [Clients -> Requests]
  /\ status \in [Clients -> {"0", "FOUND", "SENDING", "NOT_FOUND", "other"}]
  /\ rest \in [Clients -> Int]
  /\ paquets \in [Clients -> Nat]
  /\ log \in [Clients -> LogType]
  /\ global_log \in [Clients -> LogType]
  /\ resuming \in [Clients -> BOOLEAN]
  /\ epc \in [Executants -> ExecPC]
  /\ on \in [Executants -> Clients \cup {NoOne}]
  /\ left \in [Executants -> Int]
  /\ sending \in [Executants -> [file : Files \cup Directories \cup {NoFile}, index : Nat]]
  /\ again \in [Executants -> BOOLEAN]
  /\ backlog \in Seq(Clients)
  /\ conn \in [Clients -> {"none", "queued", "open", "closed"}]
  /\ reset \in [Clients -> BOOLEAN]
  /\ dotlog \in [there : BOOLEAN, log : LogType]
  /\ linked \subseteq Clients
  /\ misfiled \subseteq Clients /\ rough \subseteq Clients

Init ==
  /\ cpc = [c \in Clients |-> "off"]
  /\ creq = [c \in Clients |-> [cmd |-> "none", file |-> NoFile]]
  /\ status = [c \in Clients |-> "0"]
  /\ rest = [c \in Clients |-> 0]
  /\ paquets = [c \in Clients |-> 0]
  /\ log = [c \in Clients |-> ZeroLog]
  /\ global_log = [c \in Clients |-> ZeroLog]
  /\ resuming = [c \in Clients |-> FALSE]
  /\ epc = [e \in Executants |-> "accept"]
  /\ on = [e \in Executants |-> NoOne]
  /\ left = [e \in Executants |-> 0]
  /\ sending = [e \in Executants |-> [file |-> NoFile, index |-> 0]]
  /\ again = [e \in Executants |-> FALSE]
  /\ backlog = << >>
  /\ conn = [c \in Clients |-> "none"]
  /\ up = [c \in Clients |-> << >>]
  /\ down = [c \in Clients |-> << >>]
  /\ reset = [c \in Clients |-> FALSE]
  /\ dotlog = Absent
  /\ linked = {}
  /\ misfiled = {} /\ rough = {}

-----------------------------------------------------------------------------
(* What both sides do to a connection and to .log.                         *)

Goes(c, at) == cpc' = [cpc EXCEPT ![c] = at]

(* An end of a connection that is closed with something unread resets it:  *)
(* the other end reads what it already has, then an error instead of the   *)
(* end of file.                                                            *)
ClientCloses(c) ==
  /\ reset' = [reset EXCEPT ![c] = @ \/ down[c] # << >>]
  /\ down' = [down EXCEPT ![c] = << >>]
  /\ UNCHANGED <<backlog, conn>>

ServerCloses(c) ==
  /\ conn' = [conn EXCEPT ![c] = "closed"]
  /\ reset' = [reset EXCEPT ![c] = @ \/ up[c] # << >>]
  /\ up' = [up EXCEPT ![c] = << >>]
  /\ UNCHANGED <<backlog, down>>

ClientExits(c) ==
  /\ Goes(c, "exited")
  /\ ClientCloses(c)
  /\ UNCHANGED <<creq, status, rest, paquets, log, global_log, resuming, up>>

RemoveLog == dotlog' = Absent /\ linked' = {}

(* Something happens on the connection of c that does not in a quiet one.  *)
Roughens(c) == rough' = rough \cup {c} /\ UNCHANGED misfiled

LooksForLog(c) == IF existslog THEN Roughens(c) ELSE UNCHANGED history

-----------------------------------------------------------------------------
(* The client.                                                             *)

(* Open_clientfd: the system completes the connection by itself.           *)
Launch(c) ==
  /\ cpc[c] = "off"
  /\ Goes(c, "top")
  /\ backlog' = Append(backlog, c)
  /\ conn' = [conn EXCEPT ![c] = "queued"]
  /\ UNCHANGED <<creq, status, rest, paquets, log, global_log, resuming,
                 execvars, up, down, reset, logvars, history>>

(* The head of while(1): existslog().                                      *)
ClientTurn(c) ==
  /\ cpc[c] = "top"
  /\ Goes(c, IF existslog THEN "readlog" ELSE "prompt")
  /\ LooksForLog(c)
  /\ UNCHANGED <<creq, status, rest, paquets, log, global_log, resuming,
                 execvars, netvars, logvars>>

(* readlog() exits when .log has gone meanwhile; a log that names a file   *)
(* of ./Client is resumed (its file was created by the GET it comes from), *)
(* any other one is left there and the loop turns.  What is a directory of *)
(* ./Server may be a file of ./Client, or a directory.                     *)
ClientReadLog(c) ==
  /\ cpc[c] = "readlog"
  /\ \/ ~ existslog /\ ClientExits(c)
     \/ /\ existslog
        /\ \/ /\ dotlog.log.file \in {NoFile, Unset} \cup Directories
              /\ Goes(c, "top")
              /\ UNCHANGED <<rest, paquets, log, resuming>>
           \/ /\ dotlog.log.file \notin {NoFile, Unset}
              /\ Goes(c, "head")
              /\ rest' = [rest EXCEPT ![c] = dotlog.log.size - dotlog.log.at]
              /\ paquets' = [paquets EXCEPT ![c] = dotlog.log.at]
              /\ log' = [log EXCEPT ![c] = dotlog.log]
              /\ resuming' = [resuming EXCEPT ![c] = TRUE]
        /\ UNCHANGED <<creq, status, global_log, netvars>>
  /\ UNCHANGED <<execvars, logvars, history>>

(* The lines whose first word type_request takes for one of types; what it *)
(* does not know is "unknown", and a line without a file name "nameless".  *)
Typed(types) == {r \in Commands : r.cmd \in types}

(* A command that never reaches the server: an unknown one, one without a  *)
(* file name, and what an end of file on the standard input looks like.    *)
TypeIgnored(c) ==
  /\ cpc[c] = "prompt"
  /\ \E r \in Typed({"unknown", "nameless"}) : creq' = [creq EXCEPT ![c] = r]
  /\ Goes(c, "top")
  /\ UNCHANGED <<status, rest, paquets, log, global_log, resuming, execvars,
                 netvars, logvars, history>>

OfDirectory(r) == r.cmd = "get" /\ r.file \in Directories

(* A get, a put or an ls is sent.  If the server's end is closed the write *)
(* may raise SIGPIPE, and handler_pipe ends the client.                    *)
Sends(c, r) ==
  \/ /\ Goes(c, "response")
     /\ creq' = [creq EXCEPT ![c] = r]
     /\ up' = IF conn[c] = "closed" THEN up
              ELSE [up EXCEPT ![c] = Append(@, Request(r))]
     /\ UNCHANGED <<status, rest, paquets, log, global_log, resuming,
                    backlog, conn, down, reset>>
  \/ conn[c] = "closed" /\ ClientExits(c)

MayType(c) == cpc[c] = "prompt" /\ Len(up[c]) + Len(down[c]) < MaxInFlight

TypeRequest(c) ==
  /\ MayType(c)
  /\ \E r \in Typed({"get", "put", "ls"}) : ~ OfDirectory(r) /\ Sends(c, r)
  /\ UNCHANGED <<execvars, logvars, history>>

(* "get ." is a request like any other.                                    *)
AskDirectory(c) ==
  /\ MayType(c)
  /\ \E r \in Typed({"get"}) : OfDirectory(r) /\ Sends(c, r)
  /\ Roughens(c)
  /\ UNCHANGED <<execvars, logvars>>

(* isbyecli: four bytes, then the connection is closed.                    *)
TypeBye(c) ==
  /\ cpc[c] = "prompt"
  /\ \E r \in Typed({"bye"}) : creq' = [creq EXCEPT ![c] = r]
  /\ Goes(c, "bye")
  /\ up' = IF conn[c] = "closed" THEN up
           ELSE [up EXCEPT ![c] = Append(@, ByeWord)]
  /\ ClientCloses(c)
  /\ UNCHANGED <<status, rest, paquets, log, global_log, resuming, execvars,
                 logvars, history>>

(* Rio_readn(clientfd, &res, 8): what it makes of the units at the head of *)
(* the connection, and what it leaves.  A block is longer than 8 bytes: it *)
(* may be used up or not.                                                  *)
EightBytes(d) ==
  IF d = << >> THEN {}
  ELSE LET u == Head(d) IN
    CASE u.kind = "response" ->
           {[status |-> u.status, filesize |-> u.filesize, unread |-> Tail(d)]}
      [] u.kind = "data" ->
           {[status |-> "other", filesize |-> 0, unread |-> t] :
              t \in {d, Tail(d)}}
      [] u.kind = "word" ->
           IF Len(d) = 1 THEN {}
           ELSE LET after  == SubSeq(d, 3, Len(d))
                IN  {[status |-> u.status, filesize |-> 0, unread |-> t] :
                       t \in CASE d[2].kind = "data" -> {Tail(d), after}
                              [] d[2].kind = "word" -> {after}
                              [] OTHER -> {<<Word("other")>> \o after}}

(* The status manager.  Any status but FOUND ends the turn; NOT_FOUND is   *)
(* said to the user.                                                       *)
ReadResponse(c) ==
  /\ cpc[c] = "response"
  /\ \E r \in EightBytes(down[c]) :
       /\ status' = [status EXCEPT ![c] = r.status]
       /\ down' = [down EXCEPT ![c] = r.unread]
       /\ Goes(c, IF r.status = "FOUND" THEN "size" ELSE "top")
  /\ UNCHANGED <<creq, rest, paquets, log, global_log, resuming, execvars,
                 backlog, conn, up, reset, logvars, history>>

(* The second response carries the size: fill_log, then client2server.     *)
ReadSize(c) ==
  /\ cpc[c] = "size"
  /\ \E r \in EightBytes(down[c]) :
       /\ status' = [status EXCEPT ![c] = r.status]
       /\ down' = [down EXCEPT ![c] = r.unread]
       /\ rest' = [rest EXCEPT ![c] = r.filesize]
       /\ \E g \in Garbage :
            log' = [log EXCEPT ![c] =
                      [file |-> creq[c].file, size |-> r.filesize, at |-> g]]
       /\ Goes(c, IF r.status = "SENDING" THEN "head" ELSE "top")
  /\ paquets' = [paquets EXCEPT ![c] = 0]
  /\ resuming' = [resuming EXCEPT ![c] = FALSE]
  /\ UNCHANGED <<creq, global_log, execvars, backlog, conn, up, reset,
                 logvars, history>>

(* Between the two, Open exits if the name is a directory here too.        *)
OpenExits(c) ==
  /\ cpc[c] = "size" /\ creq[c].file \in Directories
  /\ ClientExits(c)
  /\ UNCHANGED <<execvars, logvars, history>>

(* "read error": nothing came before the end of the connection, or it was  *)
(* reset.  One word and then the end is taken for a response.              *)
ResponseFails(c) ==
  /\ cpc[c] \in {"response", "size"}
  /\ conn[c] = "closed"
  /\ EightBytes(down[c]) = {}
  /\ \/ (down[c] = << >> \/ reset[c]) /\ ClientExits(c)
     \/ /\ down[c] # << >> /\ ~ reset[c]
        /\ status' = [status EXCEPT ![c] = Head(down[c]).status]
        /\ down' = [down EXCEPT ![c] = << >>]
        /\ Goes(c, "top")
        /\ UNCHANGED <<creq, rest, paquets, log, global_log, resuming,
                       backlog, conn, up, reset>>
  /\ UNCHANGED <<execvars, logvars, history>>

-----------------------------------------------------------------------------
(* client2server.                                                          *)

Returned(c) == Goes(c, IF resuming[c] THEN "rmlog" ELSE "top")

(* A mistake: the read that follows the loop is missing.                   *)
ClientHeadWithoutTail(c) ==
  /\ cpc[c] = "head"
  /\ \/ rest[c] > 1 /\ Goes(c, "block")
     \/ rest[c] <= 1 /\ Returned(c)
  /\ UNCHANGED <<creq, status, rest, paquets, log, global_log, resuming,
                 execvars, netvars, logvars, history>>

(* The head of the loop; when a block or less remains, no copy is made.    *)
ClientHead(c) ==
  /\ cpc[c] = "head"
  /\ Goes(c, "block")
  /\ global_log' = IF rest[c] > 1 THEN [global_log EXCEPT ![c] = log[c]]
                   ELSE global_log
  /\ UNCHANGED <<creq, status, rest, paquets, log, resuming, execvars, netvars,
                 logvars, history>>

(* Mistakes: paquets-- for paquets++; remaining is not counted down.       *)
ClientBlockCountsDown(c) ==
  /\ cpc[c] = "block" /\ rest[c] > 0
  /\ down[c] # << >> /\ Head(down[c]).kind = "data"
  /\ rest' = [rest EXCEPT ![c] = @ - 1]
  /\ paquets' = [paquets EXCEPT ![c] = @ - 1]
  /\ down' = [down EXCEPT ![c] = Tail(@)]
  /\ Goes(c, "head")
  /\ UNCHANGED <<creq, status, log, global_log, resuming, execvars, backlog,
                 conn, up, reset, logvars, history>>

ClientBlockKeepsRemaining(c) ==
  /\ cpc[c] = "block" /\ rest[c] > 0
  /\ down[c] # << >> /\ Head(down[c]).kind = "data"
  /\ paquets' = [paquets EXCEPT ![c] = @ + 1]
  /\ down' = [down EXCEPT ![c] = Tail(@)]
  /\ Goes(c, "head")
  /\ UNCHANGED <<creq, status, rest, log, global_log, resuming, execvars,
                 backlog, conn, up, reset, logvars, history>>

(* A block is read and stored where the client stands in its file.  In the *)
(* loop it is counted in log, after it in paquets only.                    *)
ClientBlock(c) ==
  /\ cpc[c] = "block"
  /\ rest[c] > 0
  /\ down[c] # << >> /\ Head(down[c]).kind = "data"
  /\ misfiled' = IF Head(down[c]) = Block(log[c].file, paquets[c]) THEN misfiled
                 ELSE misfiled \cup {c}
  /\ rest' = [rest EXCEPT ![c] = @ - 1]
  /\ paquets' = [paquets EXCEPT ![c] = @ + 1]
  /\ down' = [down EXCEPT ![c] = Tail(@)]
  /\ \/ /\ rest[c] > 1
        /\ log' = [log EXCEPT ![c].at = paquets[c] + 1]
        /\ Goes(c, "head")
     \/ rest[c] = 1 /\ Returned(c) /\ UNCHANGED log
  /\ UNCHANGED <<creq, status, global_log, resuming, execvars, backlog, conn,
                 up, reset, logvars, rough>>

(* What is not a block of a file is stored like the bytes of one, and the  *)
(* read goes on.                                                           *)
ClientStrayWord(c) ==
  /\ cpc[c] = "block"
  /\ rest[c] > 0
  /\ down[c] # << >> /\ Head(down[c]).kind # "data"
  /\ misfiled' = misfiled \cup {c}
  /\ down' = [down EXCEPT ![c] = Tail(@)]
  /\ UNCHANGED <<clientvars, execvars, backlog, conn, up, reset, logvars, rough>>

(* Nothing is left to read, or the connection has ended: the read after    *)
(* the loop returns, the loop itself goes on for ever.  A reset ends the   *)
(* client (Rio_readn).                                                     *)
ClientBlockEnds(c) ==
  /\ cpc[c] = "block"
  /\ \/ /\ \/ rest[c] = 0
           \/ /\ down[c] = << >> /\ conn[c] = "closed"
              /\ ~ reset[c] /\ rest[c] = 1
        /\ Returned(c)
        /\ UNCHANGED <<creq, status, rest, paquets, log, global_log, resuming,
                       netvars>>
     \/ /\ rest[c] > 0 /\ down[c] = << >> /\ conn[c] = "closed" /\ reset[c]
        /\ ClientExits(c)
  /\ UNCHANGED <<execvars, logvars, history>>

(* A negative remaining is a huge number of bytes to read(), which refuses *)
(* it: Rio_readn exits.                                                    *)
ClientReadFails(c) ==
  /\ cpc[c] = "block" /\ rest[c] < 0
  /\ ClientExits(c)
  /\ UNCHANGED <<execvars, logvars, history>>

ClientRemoveLog(c) ==
  /\ cpc[c] = "rmlog"
  /\ RemoveLog
  /\ Goes(c, "top")
  /\ UNCHANGED <<creq, status, rest, paquets, log, global_log, resuming,
                 execvars, netvars, history>>

-----------------------------------------------------------------------------
(* handler_iencli.                                                         *)

(* ctrl-C: with no request answered yet and no .log there is nothing to    *)
(* save; otherwise fopen(".log", "w") empties it or creates it.            *)
Interrupt(c) ==
  /\ c \in Alive /\ cpc[c] \notin {"saving", "closing"}
  /\ Roughens(c)
  /\ \/ /\ status[c] = "0" /\ ~ existslog
        /\ Goes(c, "killed")
        /\ ClientCloses(c)
        /\ UNCHANGED logvars
     \/ /\ status[c] # "0" \/ existslog
        /\ Goes(c, "saving")
        /\ dotlog' = Emptied
        /\ linked' = linked \cup {c}
        /\ UNCHANGED <<backlog, conn, down, reset>>
  /\ UNCHANGED <<creq, status, rest, paquets, log, global_log, resuming,
                 execvars, up>>

(* fclose() writes the four lines to the file it opened, even if that one  *)
(* has been removed meanwhile.                                             *)
SaveLog(c) ==
  /\ cpc[c] = "saving"
  /\ Goes(c, "closing")
  /\ dotlog' = IF c \in linked THEN Saved(global_log[c]) ELSE dotlog
  /\ linked' = linked \ {c}
  /\ UNCHANGED <<creq, status, rest, paquets, log, global_log, resuming,
                 execvars, netvars, history>>

(* After sleep(1).                                                         *)
CloseSocket(c) ==
  /\ cpc[c] = "closing"
  /\ Goes(c, "killed")
  /\ ClientCloses(c)
  /\ UNCHANGED <<creq, status, rest, paquets, log, global_log, resuming, up,
                 execvars, logvars, history>>

-----------------------------------------------------------------------------
(* The executant.                                                          *)

Moves(e, at) == epc' = [epc EXCEPT ![e] = at]

Dies(e) ==
  /\ Moves(e, "dead")
  /\ ServerCloses(on[e])
  /\ UNCHANGED <<on, left, sending, again>>

(* Rio_writen to the client.  If its end is closed the units are taken and *)
(* dropped, until the reset is back and the write kills the executant.     *)
Writes(e, units) ==
  /\ down' = IF on[e] \in Alive THEN [down EXCEPT ![on[e]] = @ \o units]
             ELSE down
  /\ UNCHANGED <<backlog, conn, up, reset>>

DiesWriting(e) == on[e] \notin Alive /\ Dies(e)

(* Accept: the oldest connection of the backlog.                           *)
AcceptClient(e) ==
  /\ epc[e] = "accept"
  /\ backlog # << >>
  /\ Moves(e, "top")
  /\ on' = [on EXCEPT ![e] = Head(backlog)]
  /\ conn' = [conn EXCEPT ![Head(backlog)] = "open"]
  /\ backlog' = Tail(backlog)
  /\ UNCHANGED <<clientvars, left, sending, again, up, down, reset, logvars,
                 history>>

(* Accept exits on an error, Getnameinfo and Inet_ntop do when it has just *)
(* taken a connection: the executant is lost, and that connection closed.  *)
AcceptFails(e) ==
  /\ epc[e] = "accept"
  /\ Moves(e, "dead")
  /\ \/ UNCHANGED <<on, netvars, history>>
     \/ /\ backlog # << >>
        /\ on' = [on EXCEPT ![e] = Head(backlog)]
        /\ conn' = [conn EXCEPT ![Head(backlog)] = "closed"]
        /\ reset' = [reset EXCEPT ![Head(backlog)] = @ \/ up[Head(backlog)] # << >>]
        /\ up' = [up EXCEPT ![Head(backlog)] = << >>]
        /\ backlog' = Tail(backlog)
        /\ UNCHANGED down
        /\ Roughens(Head(backlog))
  /\ UNCHANGED <<clientvars, left, sending, again, logvars>>

(* The head of while(1) in traitement: existslog().                        *)
ExecTurn(e) ==
  /\ epc[e] = "top"
  /\ Moves(e, IF existslog THEN "readlog" ELSE "readreq")
  /\ LooksForLog(on[e])
  /\ UNCHANGED <<clientvars, on, left, sending, again, netvars, logvars>>

(* As the client: exit, turn, or resume the transfer on this connection,   *)
(* whoever is at its other end.  A name that was never set opens nothing,  *)
(* or, when it happens to be the empty one, the directory ./Server/, which *)
(* read() refuses: Rio_readn ends the executant.                           *)
ExecReadLog(e) ==
  /\ epc[e] = "readlog"
  /\ \/ /\ ~ existslog \/ dotlog.log.file = Unset
        /\ Dies(e)
     \/ /\ existslog
        /\ \/ /\ dotlog.log.file \notin Files \cup Directories
              /\ Moves(e, "top")
              /\ UNCHANGED <<left, sending, again>>
           \/ /\ dotlog.log.file \in Files \cup Directories
              /\ Moves(e, "send")
              /\ left' = [left EXCEPT ![e] = dotlog.log.size - dotlog.log.at]
              /\ sending' = [sending EXCEPT ![e] =
                   [file |-> dotlog.log.file, index |-> dotlog.log.at]]
              /\ again' = [again EXCEPT ![e] = TRUE]
        /\ UNCHANGED <<on, netvars>>
  /\ UNCHANGED <<clientvars, logvars, history>>

Waiting(e) == epc[e] = "readreq"

(* What catchsize may make of a name that open() opens.                    *)
SizesOf(f) == IF f \in Directories THEN DirSizes ELSE {Blocks[f]}

(* A GET of a name that opens: FOUND, SENDING with the size, then the      *)
(* file; of one that does not: the status word alone.  PUT and LS get no   *)
(* answer.                                                                 *)
ServeRequest(e) ==
  LET c == on[e] IN
  /\ Waiting(e)
  /\ up[c] # << >> /\ Head(up[c]).kind = "request"
  /\ LET r == Head(up[c]).req IN
     \/ /\ r.cmd = "get" /\ r.file \in Files \cup Directories
        /\ \/ \E n \in SizesOf(r.file) :
              /\ Moves(e, "send")
              /\ down' = IF c \notin Alive THEN down
                         ELSE [down EXCEPT ![c] = @ \o
                                 <<Response("FOUND", 0), Response("SENDING", n)>>]
              /\ up' = [up EXCEPT ![c] = Tail(@)]
              /\ left' = [left EXCEPT ![e] = n]
              /\ sending' = [sending EXCEPT ![e] =
                               [file |-> r.file, index |-> 0]]
              /\ again' = [again EXCEPT ![e] = FALSE]
              /\ UNCHANGED <<on, backlog, conn, reset>>
           \/ DiesWriting(e)
     \/ /\ r.cmd = "get" /\ r.file \notin Files \cup Directories
        /\ \/ /\ Moves(e, "top")
              /\ down' = IF c \notin Alive THEN down
                         ELSE [down EXCEPT ![c] = Append(@, Word("NOT_FOUND"))]
              /\ up' = [up EXCEPT ![c] = Tail(@)]
              /\ UNCHANGED <<on, left, sending, again, backlog, conn, reset>>
           \/ DiesWriting(e)
     \/ /\ r.cmd \in {"put", "ls"}
        /\ Moves(e, "top")
        /\ up' = [up EXCEPT ![c] = Tail(@)]
        /\ UNCHANGED <<on, left, sending, again, backlog, conn, down, reset>>
  /\ UNCHANGED <<clientvars, logvars, history>>

(* A mistake: exit() after a bye, as in the two lines that isbyeserv keeps *)
(* commented out.                                                          *)
ReadByeExits(e) ==
  /\ Waiting(e)
  /\ on[e] \notin Alive /\ ~ reset[on[e]]
  /\ up[on[e]] = <<ByeWord>>
  /\ Dies(e)
  /\ UNCHANGED <<clientvars, logvars, history>>

(* Rio_readn waits for a whole request, or for the end of the connection:  *)
(* four bytes and the end are a bye, and the executant accepts again.      *)
ReadBye(e) ==
  /\ Waiting(e)
  /\ on[e] \notin Alive /\ ~ reset[on[e]]
  /\ up[on[e]] = <<ByeWord>>
  /\ Moves(e, "accept")
  /\ on' = [on EXCEPT ![e] = NoOne]
  /\ conn' = [conn EXCEPT ![on[e]] = "closed"]
  /\ up' = [up EXCEPT ![on[e]] = << >>]
  /\ UNCHANGED <<clientvars, left, sending, again, backlog, down, reset,
                 logvars, history>>

(* The end alone is a request of zeroes, a GET of the directory ./Server/  *)
(* itself: FOUND and SENDING are written to a closed connection and the    *)
(* directory cannot be read; a reset fails the read.  The executant ends   *)
(* (of its writes, should a directory be of size 0 and not be read).       *)
ReadEnd(e) ==
  /\ Waiting(e)
  /\ on[e] \notin Alive
  /\ up[on[e]] = << >> \/ (up[on[e]] = <<ByeWord>> /\ reset[on[e]])
  /\ Dies(e)
  /\ UNCHANGED <<clientvars, logvars, history>>

(* Mistakes: every block is the same one; the last block is not sent.      *)
SendSameBlock(e) ==
  /\ epc[e] = "send" /\ left[e] > 0
  /\ Writes(e, <<Block(sending[e].file, sending[e].index)>>)
  /\ left' = [left EXCEPT ![e] = @ - 1]
  /\ UNCHANGED <<epc, on, sending, again, clientvars, logvars, history>>

SendEndsEarly(e) ==
  /\ epc[e] = "send" /\ left[e] <= 1
  /\ Moves(e, IF again[e] THEN "rmlog" ELSE "top")
  /\ left' = [left EXCEPT ![e] = 0]
  /\ UNCHANGED <<clientvars, on, sending, again, netvars, logvars, history>>

(* server2client, block by block; a file shorter than the log says makes   *)
(* it spin.                                                                *)
SendBlock(e) ==
  /\ epc[e] = "send" /\ left[e] > 0 /\ sending[e].file \in Files
  /\ \/ /\ sending[e].index < Blocks[sending[e].file]
        /\ Writes(e, <<Block(sending[e].file, sending[e].index)>>)
        /\ left' = [left EXCEPT ![e] = @ - 1]
        /\ sending' = [sending EXCEPT ![e].index = @ + 1]
        /\ UNCHANGED <<epc, on, again>>
     \/ DiesWriting(e)
  /\ UNCHANGED <<clientvars, logvars, history>>

(* read() refuses a directory, and the huge number of bytes that a         *)
(* negative remaining is: Rio_readn ends the executant.                    *)
SendFails(e) ==
  /\ epc[e] = "send"
  /\ left[e] < 0 \/ (left[e] > 0 /\ sending[e].file \in Directories)
  /\ Dies(e)
  /\ UNCHANGED <<clientvars, logvars, history>>

SendEnds(e) ==
  /\ epc[e] = "send" /\ left[e] = 0
  /\ Moves(e, IF again[e] THEN "rmlog" ELSE "top")
  /\ UNCHANGED <<clientvars, on, left, sending, again, netvars, logvars,
                 history>>

ExecRemoveLog(e) ==
  /\ epc[e] = "rmlog"
  /\ RemoveLog
  /\ Moves(e, "top")
  /\ UNCHANGED <<clientvars, on, left, sending, again, netvars, history>>

-----------------------------------------------------------------------------
(* What a client does by itself, and what its user does.                   *)
ClientStep(c) ==
  \/ ClientTurn(c) \/ ClientReadLog(c) \/ ReadResponse(c) \/ ReadSize(c)
  \/ OpenExits(c) \/ ResponseFails(c) \/ ClientHead(c) \/ ClientBlock(c)
  \/ ClientStrayWord(c) \/ ClientBlockEnds(c) \/ ClientReadFails(c)
  \/ ClientRemoveLog(c) \/ SaveLog(c) \/ CloseSocket(c)

UserStep(c) == Launch(c) \/ TypeIgnored(c) \/ TypeRequest(c) \/ TypeBye(c)

ExecStep(e) ==
  \/ AcceptClient(e) \/ ExecTurn(e) \/ ExecReadLog(e) \/ ServeRequest(e)
  \/ ReadBye(e) \/ ReadEnd(e) \/ SendBlock(e) \/ SendFails(e) \/ SendEnds(e)
  \/ ExecRemoveLog(e)

(* Nobody presses ctrl-C or asks for a directory, and accept() works.      *)
CalmNext ==
  \/ \E c \in Clients : ClientStep(c) \/ UserStep(c)
  \/ \E e \in Executants : ExecStep(e)

Next ==
  \/ CalmNext
  \/ \E c \in Clients : Interrupt(c) \/ AskDirectory(c)
  \/ \E e \in Executants : AcceptFails(e)

Spec == Init /\ [][Next]_vars

(* Nothing happens to the calm but ctrl-C.                                 *)
CtrlCSpec == Init /\ [][CalmNext \/ \E c \in Clients : Interrupt(c)]_vars

(* The processes are scheduled; users type when they like.                 *)
Scheduled ==
  /\ \A c \in Clients : WF_vars(ClientStep(c))
  /\ \A e \in Executants : WF_vars(ExecStep(e))

CalmSpec == Init /\ [][CalmNext]_vars /\ Scheduled

-----------------------------------------------------------------------------
(* Properties.                                                             *)

Serving(e, c) == on[e] = c /\ epc[e] \notin {"accept", "dead"}

(* A connection on which nobody pressed ctrl-C, found a .log, asked for a  *)
(* directory or failed to accept is a quiet one, whatever happens on the   *)
(* others.                                                                 *)
Quiet == Clients \ rough

(* When the client prompts, the two ends agree on where the conversation   *)
(* is: nothing is on its way and the executant is done with the last turn. *)
PromptInSync ==
  \A c \in Quiet : cpc[c] = "prompt" =>
    /\ up[c] = << >> /\ down[c] = << >>
    /\ \A e \in Executants : Serving(e, c) =>
         \/ epc[e] \in {"top", "readreq"}
         \/ epc[e] = "send" /\ left[e] = 0

(* Every block ends up in the file and at the place it was read from, with *)
(* several clients and several requests on one connection: what is stored  *)
(* elsewhere is on a connection that is not quiet, and stays there.        *)
NothingMisfiled == misfiled \subseteq rough

(* The client waits for its executant and its executant waits for it.      *)
Starved(c) ==
  /\ conn[c] = "open"
  /\ \/ cpc[c] \in {"response", "size"} /\ EightBytes(down[c]) = {}
     \/ cpc[c] = "block" /\ rest[c] > 0 /\ down[c] = << >>

MutualWait(c) ==
  Starved(c) /\ up[c] = << >> /\ \E e \in Executants : on[e] = c /\ Waiting(e)

(* On a quiet connection only the requests that get no whole answer block  *)
(* both ends: PUT, LS, and the GET of a file that is not there.            *)
OnlyUnansweredBlock ==
  \A c \in Quiet : MutualWait(c) =>
    creq[c].cmd \in {"put", "ls"} \/ creq[c].file \notin Files

(* A GET of a file that is there ends with a prompt for every client that  *)
(* has an executant.                                                       *)
GetEnds ==
  \A c \in Clients :
    conn[c] = "open" /\ cpc[c] = "response"
      /\ creq[c].cmd = "get" /\ creq[c].file \in Files
    ~> cpc[c] = "prompt"

(* bye gives the executant back to the pool.                               *)
ByeFreesExecutant ==
  \A e \in Executants, c \in Clients :
    Serving(e, c) /\ cpc[c] = "bye" ~> epc[e] = "accept"

(* An executant is lost on a connection that is not quiet, or without one: *)
(* never for what another client does, and never by a bye, a put, an ls or *)
(* a get of anything but a directory.                                      *)
PoolLostToAbruptEnds ==
  \A e \in Executants : epc[e] = "dead" => on[e] \in rough \cup {NoOne}

(* Where the user of a client takes it to be.                              *)
Place(c) ==
  CASE cpc[c] = "off" -> "away"
    [] cpc[c] \in {"top", "prompt"} -> "prompt"
    [] cpc[c] \in ClientGone -> "gone"
    [] OTHER -> "waits"

(* What a client does between its prompts, and an executant between its    *)
(* clients, is one service; a user sees neither packets nor turns.         *)
Service == INSTANCE FileService WITH
  Nothing <- [cmd |-> "none", file |-> NoFile],
  at <- [c \in Clients |-> Place(c)],
  asked <- creq,
  stored <- [c \in Clients |-> IF cpc[c] \in {"response", "size"} THEN 0 ELSE paquets[c]],
  queue <- backlog,
  serves <- on

(* Without ctrl-C, clients get what FileService promises: a prompt after a *)
(* get means the whole file, whatever is on its way and whoever serves.    *)
ImplementsService == Service!Spec

(* What the code does not guarantee.                                       *)

(* The user is told that the file does not exist.                          *)
NotFoundIsAnswered ==
  \A c \in Clients :
    MutualWait(c) => creq[c].cmd # "get"

(* An executant goes back to the pool when its client has left.            *)
PoolIsKept == \A e \in Executants : epc[e] # "dead"

=============================================================================
