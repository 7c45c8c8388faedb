------------------------------- MODULE OldFTP -------------------------------
(***************************************************************************)
(* Etape I, the version kept in old/: a connection carries one GET, the    *)
(* file is as long as the connection, and main, on a SIGINT, stops its     *)
(* executants one by one and waits for each before it leaves.              *)
(*                                                                         *)
(* A byte is a pair of a file and an offset.  The connection of a client   *)
(* is up, what it wrote and the server has not read, down, what the server *)
(* wrote and it has not read, and end, the server's end of it.  It has     *)
(* room for all that is ever written.                                      *)
(***************************************************************************)
EXTENDS Naturals, Sequences

CONSTANTS
  NPROC,        \* how many executants main forks, #define'd to 3
  Clients,      \* users of the client, each in a directory of its own
  Names,        \* what a user may ask for
  Size,         \* the sizes of the files among Names that exist
  BUF,          \* the client's buffer, 1024 bytes
  None

ASSUME OldAssumption ==
  /\ NPROC \in Nat /\ BUF \in Nat \ {0}
  /\ DOMAIN Size \subseteq Names /\ Size \in [DOMAIN Size -> Nat]
  /\ None \notin Clients \cup Names

VARIABLES
  mpc, i,       \* main, and the i of its two loops
  failed,       \* the i for which lesFils[i] is -1
  exec,         \* executants: place, client, file, bytes of it written
  pending,      \* processes with a SIGINT to handle; 0 is main
  backlog,      \* clients whose connection waits for accept
  client,       \* clients: place, file asked for
  conn,         \* connections
  import,       \* the client's import.txt
  cut           \* history: the clients whose connection went with a process

mainvars == <<mpc, i, failed>>
server == <<mainvars, exec, pending, backlog, cut>>
vars == <<server, client, conn, import>>

Slots == 1 .. NPROC

File(f) == [k \in 1 .. Size[f] |-> <<f, k - 1>>]

(* A request_t is sent in two parts; only GET is ever asked for.           *)
Parts == {"GET"} \cup Names

(* Its types; an LS goes the way of a PUT.                                 *)
RequestTypes == {"GET", "PUT"}

Bytes == {b \in (DOMAIN Size) \X Nat : b[2] < Size[b[1]]}

Found == <<"FOUND">>

Left(c) == client[c].pc \in {"shell", "done"}

Pool == {e \in Slots : exec[e].pc \notin {"none", "zombie", "reaped"}}

Alive == Pool \cup (IF mpc \in {"killed", "left"} THEN {} ELSE {0})

Processing(p) == p \in Alive \ pending

(* The processes with a descriptor of the listening socket.                *)
Holders == IF mpc = "listen" THEN {} ELSE Alive

TypeOK ==
  /\ mpc \in {"listen", "fork", "signal", "pause", "kill", "wait", "killed", "left"}
  /\ i \in 1 .. NPROC + 1 /\ failed \subseteq Slots
  /\ exec \in [Slots -> [pc : {"none", "accept", "greeting", "type", "name", "skip",
                               "open", "send", "zombie", "reaped"},
                         serves : Clients \cup {None},
                         file : Names \cup {None}, sent : Nat]]
  /\ \A e \in Slots : exec[e].pc = "send" =>
       exec[e].file \in DOMAIN Size /\ exec[e].sent <= Size[exec[e].file]
  /\ pending \subseteq {0} \cup Slots /\ backlog \in Seq(Clients)
  /\ client \in [Clients -> [pc : {"shell", "type", "name", "status", "receive", "done"},
                             file : Names \cup {None}]]
  /\ conn \in [Clients -> [end : {"none", "queued", "open", "closed", "reset"},
                           up : Seq(Parts), down : Seq({Found} \cup Bytes)]]
  /\ import \in [Clients -> Seq(Bytes)] /\ cut \subseteq Clients

With(pc, c, f) == [pc |-> pc, serves |-> c, file |-> f, sent |-> 0]

At(pc) == With(pc, None, None)

Shell == [pc |-> "shell", file |-> None]

Link(end) == [end |-> end, up |-> <<>>, down |-> <<>>]

Init ==
  /\ mpc = "listen" /\ i = 1 /\ failed = {}
  /\ exec = [e \in Slots |-> At("none")]
  /\ pending = {} /\ backlog = <<>> /\ cut = {}
  /\ client = [c \in Clients |-> Shell]
  /\ conn = [c \in Clients |-> Link("none")]
  /\ import = [c \in Clients |-> <<>>]

-----------------------------------------------------------------------------
(* The end of processes and of connections.                                *)

(* The server's end of a connection is closed: the client reads the end of *)
(* it after what is left, or a reset if it wrote what nobody has read.     *)
Shut(c) ==
  IF Left(c) THEN Link("none")
  ELSE [end |-> IF conn[c].end = "open" /\ conn[c].up = <<>> THEN "closed" ELSE "reset",
        up |-> <<>>, down |-> conn[c].down]

(* What goes with process p: the connection it serves and, if it was the   *)
(* last to hold the listening socket, the connections of the backlog.      *)
Release(p) ==
  LET served == {exec[e].serves : e \in {p} \cap Slots} \ {None}
      last == Holders \subseteq {p}
      shut == served \cup IF last THEN {backlog[k] : k \in DOMAIN backlog} ELSE {}
  IN  /\ conn' = [c \in Clients |-> IF c \in shut THEN Shut(c) ELSE conn[c]]
      /\ backlog' = IF last THEN <<>> ELSE backlog
      /\ cut' = cut \cup shut
      /\ pending' = pending \ {p}

ExecutantEnds(e) ==
  Release(e) /\ exec' = [exec EXCEPT ![e] = At("zombie")] /\ UNCHANGED mainvars

MainEnds(how) == Release(0) /\ mpc' = how /\ UNCHANGED <<i, failed, exec>>

-----------------------------------------------------------------------------
(* main and the signals.                                                   *)

MainGoes(pc, next) == mpc' = pc /\ i' = next

Listen ==
  /\ Processing(0) /\ mpc = "listen"
  /\ MainGoes("fork", 1)
  /\ UNCHANGED <<failed, exec, pending, backlog, cut, client, conn, import>>

(* Another program listens on the port: Open_listenfd exits.               *)
ListenExits ==
  /\ Processing(0) /\ mpc = "listen"
  /\ MainEnds("killed")
  /\ UNCHANGED <<client, import>>

(* A mistake: i <= NPROC.                                                  *)
ForkOneMore ==
  /\ Processing(0) /\ mpc = "fork" /\ i <= NPROC + 1
  /\ MainGoes("fork", i + 1)
  /\ exec' = [e \in Slots \cup {i} |-> IF e = i THEN At("accept") ELSE exec[e]]
  /\ UNCHANGED <<failed, pending, backlog, cut, client, conn, import>>

(* fork() may fail, which nobody looks at: its -1 stays in lesFils.        *)
Fork ==
  /\ Processing(0) /\ mpc = "fork" /\ i <= NPROC
  /\ MainGoes("fork", i + 1)
  /\ \/ exec' = [exec EXCEPT ![i] = At("accept")] /\ UNCHANGED failed
     \/ failed' = failed \cup {i} /\ UNCHANGED exec
  /\ UNCHANGED <<pending, backlog, cut, client, conn, import>>

(* Signal(SIGINT, handlerPapa), then pause() for ever.                     *)
SetHandler ==
  /\ Processing(0)
  /\ \/ mpc = "fork" /\ i > NPROC /\ MainGoes("signal", 1)
     \/ mpc = "signal" /\ MainGoes("pause", 1)
  /\ UNCHANGED <<failed, exec, pending, backlog, cut, client, conn, import>>

(* SIGINT ends an executant, before it has set handlerFils and after, and  *)
(* main before it has set handlerPapa.                                     *)
DieOfSignal(p) ==
  /\ p \in pending
  /\ \/ p = 0 /\ mpc \in {"listen", "fork", "signal"} /\ MainEnds("killed")
     \/ p # 0 /\ ExecutantEnds(p)
  /\ UNCHANGED <<client, import>>

(* The signal is blocked while handlerPapa runs: a second ctrl-C waits.    *)
EnterPapa ==
  /\ 0 \in pending /\ mpc = "pause"
  /\ MainGoes("kill", 1)
  /\ pending' = pending \ {0}
  /\ UNCHANGED <<failed, exec, backlog, cut, client, conn, import>>

(* A mistake: handlerPapa leaves it to the ctrl-C to reach the executants. *)
PapaOnlyWaits ==
  /\ mpc = "kill" /\ i <= NPROC
  /\ MainGoes("wait", i)
  /\ UNCHANGED <<failed, exec, pending, backlog, cut, client, conn, import>>

(* Kill(lesFils[i], SIGINT): -1 stands for every process of the user.  A   *)
(* process that was reaped is no longer there to signal, and Kill exits.   *)
PapaKills ==
  /\ mpc = "kill" /\ i <= NPROC
  /\ \/ /\ exec[i].pc # "reaped"
        /\ pending' = pending \cup IF i \in failed THEN Pool ELSE {i} \cap Pool
        /\ MainGoes("wait", i)
        /\ UNCHANGED <<failed, exec, backlog, cut, conn>>
     \/ exec[i].pc = "reaped" /\ MainEnds("left")
  /\ UNCHANGED <<client, import>>

(* A mistake: WNOHANG.                                                     *)
PapaDoesNotWait ==
  /\ mpc = "wait"
  /\ MainGoes("kill", i + 1)
  /\ UNCHANGED <<failed, exec, pending, backlog, cut, client, conn, import>>

(* Waitpid(lesFils[i]): -1 stands for any child.                           *)
PapaWaits ==
  /\ mpc = "wait"
  /\ \E e \in IF i \in failed THEN Slots ELSE {i} :
       exec[e].pc = "zombie" /\ exec' = [exec EXCEPT ![e] = At("reaped")]
  /\ MainGoes("kill", i + 1)
  /\ UNCHANGED <<failed, pending, backlog, cut, client, conn, import>>

(* It fails, and exits, when there is none.                                *)
WaitpidExits ==
  /\ mpc = "wait" /\ i \in failed
  /\ \A e \in Slots : exec[e].pc \in {"none", "reaped"}
  /\ MainEnds("left")
  /\ UNCHANGED <<client, import>>

PapaLeaves ==
  mpc = "kill" /\ i > NPROC /\ MainEnds("left") /\ UNCHANGED <<client, import>>

-----------------------------------------------------------------------------
(* child_work and traitementReq.                                           *)

ExecutantGoes(e, pc) == exec' = [exec EXCEPT ![e].pc = pc]

Accept(e) ==
  /\ Processing(e) /\ exec[e].pc = "accept" /\ backlog # <<>>
  /\ exec' = [exec EXCEPT ![e] = With("greeting", Head(backlog), None)]
  /\ conn' = [conn EXCEPT ![Head(backlog)].end = "open"]
  /\ backlog' = Tail(backlog)
  /\ UNCHANGED <<mainvars, pending, cut, client, import>>

(* accept() fails, with or without a connection, and Accept exits.         *)
AcceptFails(e) ==
  /\ Processing(e) /\ exec[e].pc = "accept"
  /\ ExecutantEnds(e)
  /\ UNCHANGED <<client, import>>

(* Getnameinfo() and Inet_ntop(), before traitementReq() is called ...     *)
Greet(e) ==
  /\ Processing(e) /\ exec[e].pc = "greeting"
  /\ exec' = [exec EXCEPT ![e] = With("type", @.serves, None)]
  /\ UNCHANGED <<mainvars, pending, backlog, cut, client, conn, import>>

(* ... and their errors: nobody serves the connection that was accepted.   *)
GreetingFails(e) ==
  /\ Processing(e) /\ exec[e].pc = "greeting"
  /\ ExecutantEnds(e)
  /\ UNCHANGED <<client, import>>

(* What Rio_readn gives of a part of the request, when it returns.  At the *)
(* end of the connection it returns 0, which is not looked at: req keeps   *)
(* what the stack held.                                                    *)
Request(c, stack) ==
  IF conn[c].up # <<>> THEN {Head(conn[c].up)} ELSE IF Left(c) THEN stack ELSE {}

Took(c) == [conn EXCEPT ![c].up = IF @ = <<>> THEN @ ELSE Tail(@)]

ReadType(e) ==
  /\ Processing(e) /\ exec[e].pc = "type"
  /\ \E request \in Request(exec[e].serves, RequestTypes) :
       ExecutantGoes(e, IF request = "GET" THEN "name" ELSE "skip")
  /\ conn' = Took(exec[e].serves)
  /\ UNCHANGED <<mainvars, pending, backlog, cut, client, import>>

(* A mistake: read() for Rio_readn, and a name that has not come whole.    *)
NameSoFar(e) ==
  /\ Processing(e) /\ exec[e].pc = "name"
  /\ \E name \in Names : exec' = [exec EXCEPT ![e] = With("open", @.serves, name)]
  /\ conn' = Took(exec[e].serves)
  /\ UNCHANGED <<mainvars, pending, backlog, cut, client, import>>

ReadName(e) ==
  /\ Processing(e) /\ exec[e].pc = "name"
  /\ \E name \in Request(exec[e].serves, Names) :
       exec' = [exec EXCEPT ![e] = With("open", @.serves, name)]
  /\ conn' = Took(exec[e].serves)
  /\ UNCHANGED <<mainvars, pending, backlog, cut, client, import>>

(* Close(connfd), and accept again.                                        *)
Returns(e) ==
  /\ conn' = [conn EXCEPT ![exec[e].serves] = Shut(exec[e].serves)]
  /\ exec' = [exec EXCEPT ![e] = At("accept")]
  /\ UNCHANGED <<mainvars, pending, backlog, cut, client, import>>

(* PUT, LS and anything else: no answer.                                   *)
SkipRequest(e) ==
  /\ Processing(e) /\ exec[e].pc = "skip"
  /\ Request(exec[e].serves, Names) # {}
  /\ Returns(e)

Arrive(c, data) ==
  conn' = [conn EXCEPT ![c].down = IF Left(c) THEN @ ELSE @ \o data]

OpenFile(e) ==
  /\ Processing(e) /\ exec[e].pc = "open" /\ exec[e].file \in DOMAIN Size
  /\ Arrive(exec[e].serves, <<Found>>) /\ ExecutantGoes(e, "send")
  /\ UNCHANGED <<mainvars, pending, backlog, cut, client, import>>

(* The wrapper Open exits by itself when there is no such file: the 404    *)
(* after it is never sent.                                                 *)
OpenExits(e) ==
  /\ Processing(e) /\ exec[e].pc = "open" /\ exec[e].file \notin DOMAIN Size
  /\ ExecutantEnds(e)
  /\ UNCHANGED <<client, import>>

(* A write() of Rio_writen, of any length.                                 *)
SendSome(e) ==
  LET f == exec[e].file
      sent == exec[e].sent
  IN  /\ Processing(e) /\ exec[e].pc = "send"
      /\ \E n \in 1 .. Size[f] - sent :
           /\ Arrive(exec[e].serves, SubSeq(File(f), sent + 1, sent + n))
           /\ exec' = [exec EXCEPT ![e].sent = sent + n]
      /\ UNCHANGED <<mainvars, pending, backlog, cut, client, import>>

(* The connection of a client that has left is reset by the first write,   *)
(* that of the status, and a write after it may be told so: SIGPIPE.       *)
SendFails(e) ==
  /\ Processing(e) /\ exec[e].pc = "send"
  /\ exec[e].sent < Size[exec[e].file] /\ Left(exec[e].serves)
  /\ ExecutantEnds(e)
  /\ UNCHANGED <<client, import>>

(* A mistake: connfd is not closed.                                        *)
SendEndsOpen(e) ==
  /\ Processing(e) /\ exec[e].pc = "send" /\ exec[e].sent = Size[exec[e].file]
  /\ exec' = [exec EXCEPT ![e] = At("accept")]
  /\ UNCHANGED <<mainvars, pending, backlog, cut, client, conn, import>>

SendEnds(e) ==
  /\ Processing(e) /\ exec[e].pc = "send" /\ exec[e].sent = Size[exec[e].file]
  /\ Returns(e)

-----------------------------------------------------------------------------
(* The client.                                                             *)

(* open_clientfd: the system completes the connection.                     *)
Connected(c) ==
  /\ Holders # {}
  /\ conn' = [conn EXCEPT ![c] = Link("queued")]
  /\ backlog' = Append(backlog, c)

(* A client that finds nobody listening exits at once.                     *)
Connect(c) ==
  /\ Left(c) /\ conn[c].end = "none" /\ Connected(c)
  /\ \E f \in Names : client' = [client EXCEPT ![c] = [pc |-> "type", file |-> f]]
  /\ cut' = cut \ {c}
  /\ UNCHANGED <<mainvars, exec, pending, import>>

ClientGoes(c, pc) == client' = [client EXCEPT ![c].pc = pc]

(* The client exits, which closes its end: done, after "fin du transfert", *)
(* or back at the shell for any other reason.                              *)
Leaves(c, how) ==
  /\ client' = [client EXCEPT ![c] = IF how = "done" THEN [@ EXCEPT !.pc = how] ELSE Shell]
  /\ conn' = [conn EXCEPT ![c] =
       IF @.end \in {"closed", "reset"} THEN Link("none") ELSE [@ EXCEPT !.down = <<>>]]

(* An error of the connection ends the client.                             *)
unix_error(c) == Leaves(c, "shell") /\ UNCHANGED <<server, import>>

(* Rio_writen of a part of the request: to an end that is closed the first *)
(* write succeeds and brings a reset, which the next may be told.          *)
SendsRequest(c, data, next) ==
  /\ ClientGoes(c, next)
  /\ conn' = [conn EXCEPT ![c] =
       IF @.end \in {"queued", "open"} THEN [@ EXCEPT !.up = Append(conn[c].up, data)]
       ELSE [@ EXCEPT !.end = "reset"]]

SendRequest(c) ==
  /\ \/ client[c].pc = "type" /\ SendsRequest(c, "GET", "name")
     \/ client[c].pc = "name" /\ SendsRequest(c, client[c].file, "status")
  /\ UNCHANGED <<server, import>>

WriteExits(c) ==
  client[c].pc \in {"type", "name"} /\ conn[c].end = "reset" /\ unix_error(c)

Ended(c) == conn[c].end \in {"closed", "reset"}

(* A mistake: O_TRUNC is left out.                                         *)
ImportAsItWas(c) == import[c]

(* What Open makes of import.txt.                                          *)
Truncated(c) == <<>>

Imports(c) ==
  ClientGoes(c, "receive") /\ import' = [import EXCEPT ![c] = Truncated(c)]

(* Read of the status.  When the connection ends before it, res.status is  *)
(* what the stack held.                                                    *)
ReadStatus(c) ==
  /\ client[c].pc = "status"
  /\ \/ /\ conn[c].down # <<>>
        /\ Imports(c) /\ conn' = [conn EXCEPT ![c].down = Tail(@)]
     \/ /\ conn[c].down = <<>> /\ Ended(c)
        /\ \/ Imports(c) /\ UNCHANGED conn
           \/ Leaves(c, "shell") /\ UNCHANGED import
  /\ UNCHANGED server

(* A mistake: whatever is not a full buffer is the end.                    *)
FullBuffer(c) == IF Len(conn[c].down) < BUF THEN 0 ELSE BUF

(* What Rio_readn(clientfd, buffer, sizeof(buffer)) returns.               *)
Received(c) == IF Len(conn[c].down) < BUF THEN Len(conn[c].down) ELSE BUF

(* A turn of the loop, when Rio_readn can return; it ends at 0.            *)
Receive(c) ==
  /\ client[c].pc = "receive"
  /\ Len(conn[c].down) >= BUF \/ Ended(c)
  /\ \/ /\ Received(c) > 0
        /\ import' = [import EXCEPT ![c] = @ \o SubSeq(conn[c].down, 1, Received(c))]
        /\ conn' = [conn EXCEPT ![c].down = SubSeq(@, Received(c) + 1, Len(@))]
        /\ UNCHANGED client
     \/ Received(c) = 0 /\ Leaves(c, "done") /\ UNCHANGED import
  /\ UNCHANGED server

ReadExits(c) == client[c].pc = "status" /\ unix_error(c)

ReadnExits(c) == client[c].pc = "receive" /\ unix_error(c)

(* A ctrl-C: the client has no handler.                                    *)
ClientStops(c) == ~ Left(c) /\ Leaves(c, "shell") /\ UNCHANGED <<server, import>>

-----------------------------------------------------------------------------
SIGINT(P) ==
  /\ pending' = pending \cup P
  /\ UNCHANGED <<mainvars, exec, backlog, cut, client, conn, import>>

(* ctrl-C reaches the whole job, as long as its main is there.             *)
CtrlC == 0 \in Alive /\ SIGINT(Alive)

KillOne(p) == p \in Alive /\ SIGINT({p})

MainStep ==
  \/ Listen \/ ListenExits \/ Fork \/ SetHandler \/ EnterPapa
  \/ PapaKills \/ PapaWaits \/ WaitpidExits \/ PapaLeaves

ExecutantStep(e) ==
  \/ Accept(e) \/ Greet(e) \/ ReadType(e) \/ ReadName(e) \/ SkipRequest(e)
  \/ OpenFile(e) \/ OpenExits(e) \/ SendSome(e) \/ SendFails(e) \/ SendEnds(e)

ClientStep(c) == SendRequest(c) \/ WriteExits(c) \/ ReadStatus(c) \/ Receive(c)

Next ==
  \/ MainStep \/ CtrlC
  \/ \E p \in {0} \cup Slots : DieOfSignal(p) \/ KillOne(p)
  \/ \E e \in Slots : ExecutantStep(e) \/ AcceptFails(e) \/ GreetingFails(e)
  \/ \E c \in Clients :
       \/ Connect(c) \/ ClientStep(c)
       \/ ReadExits(c) \/ ReadnExits(c) \/ ClientStops(c)

Spec == Init /\ [][Next]_vars

(* Every process is scheduled and every signal delivered.                  *)
FairSpec ==
  /\ Spec
  /\ WF_vars(MainStep)
  /\ \A p \in {0} \cup Slots : WF_vars(DieOfSignal(p))
  /\ \A e \in Slots : WF_vars(ExecutantStep(e))
  /\ \A c \in Clients : WF_vars(ClientStep(c))

-----------------------------------------------------------------------------
(* Properties.                                                             *)

Asked(c) == IF client[c].file \in DOMAIN Size THEN File(client[c].file) ELSE <<>>

(* Whoever served the client, and however often it was stopped in between, *)
(* import.txt holds the first bytes of the file it asked for, and nothing  *)
(* of an earlier or a longer one; of a name that does not exist, nothing.  *)
ImportIsOneFile ==
  \A c \in Clients : client[c].pc \in {"receive", "done"} =>
    Len(import[c]) <= Len(Asked(c)) /\ import[c] = SubSeq(Asked(c), 1, Len(import[c]))

(* "fin du transfert" is the truth: the copy is whole, unless the process  *)
(* at the other end of the connection ended.                               *)
EndIsTheEnd ==
  \A c \in Clients \ cut : client[c].pc = "done" => import[c] = Asked(c)

(* "tu as tue le papa": if every fork succeeded, handlerPapa returns from  *)
(* its loop when no executant is left.                                     *)
PapaLeavesLast == mpc = "left" /\ failed = {} => Pool = {}

(* handlerPapa waits for nobody that no SIGINT has reached, and leaves     *)
(* nobody behind that none has: a slot whose fork failed stands for every  *)
(* process in Kill and for any child in Waitpid, and its loop goes on with *)
(* executants that it may have reaped already.                             *)
PapaForgetsNobody ==
  /\ mpc = "wait" /\ i \notin failed =>
       exec[i].pc = "zombie" \/ i \in Pool \cap pending
  /\ (mpc = "wait" /\ i \in failed) \/ mpc = "left" => Pool \subseteq pending

(* An executant ends because of a signal, of a connection it could not     *)
(* accept or look up, of a name that does not exist, or of a client that   *)
(* has left, and never under a client that behaves.                        *)
EndsForAReason ==
  [][\A e \in Pool \ Pool' :
       \/ e \in pending \/ exec[e].pc \in {"accept", "greeting"}
       \/ Left(exec[e].serves)
       \/ client[exec[e].serves].file \notin DOMAIN Size]_vars

(* "le serveur s'arrete proprement lorsqu'il recoit un signal d'arret": a  *)
(* SIGINT to main alone, once it pauses, stops the whole server, whatever  *)
(* its executants are doing, those that ended before and those that were   *)
(* never forked included.                                                  *)
StopIsClean == mpc = "pause" /\ 0 \in pending ~> Alive = {}

(* A client does not wait for ever as long as there is an executant.       *)
EveryClientEnds == \A c \in Clients : ~ Left(c) ~> Left(c) \/ Alive = {0}

=============================================================================
