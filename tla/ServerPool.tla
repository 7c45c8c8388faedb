----------------------------- MODULE ServerPool -----------------------------
(***************************************************************************)
(* The processes of the server (serverFTP.c): main, which opens the        *)
(* listening socket, forks NPROC executants and pauses; the executants,    *)
(* which accept a connection, serve it and accept again; the signals that  *)
(* stop them; and the server being launched again after that.              *)
(*                                                                         *)
(* What a conversation is, and when it fails, is FTP's: here it ends with  *)
(* a bye or with the end of its executant.  A process that has a signal    *)
(* pending takes no other step: it is delivered when the system call the   *)
(* process is in returns.                                                  *)
(***************************************************************************)
EXTENDS Naturals, FiniteSets

CONSTANTS
  NPROC,        \* how many executants main forks, #define'd to 3
  Launches,     \* the runs of the program, each started at most once
  MaxWaiting    \* bound: connections completed and not yet accepted

ASSUME PoolAssumption == NPROC \in Nat /\ MaxWaiting \in Nat

VARIABLES
  pc,           \* where each process is
  forked,       \* i of the loop of main: executants forked or not so far
  pending,      \* the processes with a SIGINT they have not yet handled
  stopping,     \* history: the launches that were ended with ctrl-C
  waiting       \* connections the system completed on the listening socket

vars == <<pc, forked, pending, stopping, waiting>>

(* Process 0 of a launch is main, the others are its executants.           *)
Processes == Launches \X (0 .. NPROC)

Main(m) == <<m, 0>>

Executants(m) == {<<m, i>> : i \in 1 .. NPROC}

MainPC == {"signal1", "signal2", "papa", "listen", "fork", "pause"}

ExecPC == {"accept", "greeting", "serving"}

(* An executant that has ended stays a zombie as long as its main, which   *)
(* never waits for it, is there.                                           *)
Alive(p) == pc[p] \in MainPC \cup ExecPC

Processing(p) == Alive(p) /\ p \notin pending

(* The processes with a descriptor of the listening socket.                *)
Holders == {p \in Processes : pc[p] \in {"fork", "pause"} \cup ExecPC}

TypeOK ==
  /\ pc \in [Processes -> {"none", "zombie", "gone"} \cup MainPC \cup ExecPC]
  /\ forked \in [Launches -> 0 .. NPROC]
  /\ pending \subseteq Processes
  /\ stopping \subseteq Launches
  /\ waiting \in 0 .. MaxWaiting

Init ==
  /\ pc = [p \in Processes |-> "none"]
  /\ forked = [m \in Launches |-> 0]
  /\ pending = {}
  /\ stopping = {}
  /\ waiting = 0

-----------------------------------------------------------------------------
Goes(p, at) == pc' = [pc EXCEPT ![p] = at]

(* SIGINT is sent to the processes P.                                      *)
Kill(P) == pending' = pending \cup P

(* Process p ends.  Zombies go with their parent; the connections that     *)
(* wait go with the last descriptor of the socket.                         *)
Ends(p) ==
  LET m == p[1]
  IN  /\ pc' = [q \in Processes |->
                  IF q = p
                  THEN IF p # Main(m) /\ Alive(Main(m)) THEN "zombie" ELSE "gone"
                  ELSE IF p = Main(m) /\ q[1] = m /\ pc[q] = "zombie" THEN "gone"
                  ELSE pc[q]]
      /\ pending' = pending \ {p}
      /\ waiting' = IF Holders \subseteq {p} THEN 0 ELSE waiting

-----------------------------------------------------------------------------
(* main.                                                                   *)

Launch(m) ==
  /\ pc[Main(m)] = "none"
  /\ Goes(Main(m), "signal1")
  /\ UNCHANGED <<forked, pending, stopping, waiting>>

(* Signal(SIGINT, handlerPapa), and at once Signal(SIGINT, handlerFils),   *)
(* which replaces it.                                                      *)
SetHandler(m) ==
  /\ Processing(Main(m))
  /\ \/ pc[Main(m)] = "signal1" /\ Goes(Main(m), "signal2")
     \/ pc[Main(m)] = "signal2" /\ Goes(Main(m), "listen")
  /\ UNCHANGED <<forked, pending, stopping, waiting>>

(* A mistake: SO_REUSEPORT for SO_REUSEADDR.                               *)
ListenAnyway(m) ==
  /\ Processing(Main(m))
  /\ pc[Main(m)] = "listen"
  /\ Goes(Main(m), "fork")
  /\ UNCHANGED <<forked, pending, stopping, waiting>>

(* open_listenfd: bind() succeeds when nobody listens on the port.         *)
Listen(m) ==
  /\ Processing(Main(m))
  /\ pc[Main(m)] = "listen"
  /\ Holders = {}
  /\ Goes(Main(m), "fork")
  /\ UNCHANGED <<forked, pending, stopping, waiting>>

(* It fails, and Open_listenfd exits, as long as anyone does: SO_REUSEADDR *)
(* only does away with old connections.                                    *)
ListenExits(m) ==
  /\ Processing(Main(m))
  /\ pc[Main(m)] = "listen"
  /\ Holders # {}
  /\ Ends(Main(m))
  /\ UNCHANGED <<forked, stopping>>

(* A mistake: i <= NPROC.                                                  *)
ForkOneMore(m) ==
  /\ Processing(Main(m))
  /\ pc[Main(m)] = "fork"
  /\ forked[m] <= NPROC
  /\ forked' = [forked EXCEPT ![m] = @ + 1]
  /\ Goes(<<m, forked[m] + 1>>, "accept")
  /\ UNCHANGED <<pending, stopping, waiting>>

(* fork() gives an executant with the handlers and the socket of main; its *)
(* failure, -1, is not looked at and leaves the pool one short.            *)
Fork(m) ==
  /\ Processing(Main(m))
  /\ pc[Main(m)] = "fork"
  /\ forked[m] < NPROC
  /\ forked' = [forked EXCEPT ![m] = @ + 1]
  /\ \/ Goes(<<m, forked[m] + 1>>, "accept")
     \/ UNCHANGED pc
  /\ UNCHANGED <<pending, stopping, waiting>>

ForkLoopEnds(m) ==
  /\ Processing(Main(m))
  /\ pc[Main(m)] = "fork"
  /\ forked[m] = NPROC
  /\ Goes(Main(m), "pause")
  /\ UNCHANGED <<forked, pending, stopping, waiting>>

(* A mistake: the executants ignore SIGINT and leave it to main to stop    *)
(* them.                                                                   *)
HandleSignalInMain(p) ==
  /\ p \in pending
  /\ pc[p] \notin {"signal2", "papa"}
  /\ \/ p = Main(p[1]) /\ Ends(p)
     \/ p # Main(p[1]) /\ pending' = pending \ {p} /\ UNCHANGED <<pc, waiting>>
  /\ UNCHANGED <<forked, stopping>>

(* The default action before the first Signal(), and handlerFils, in main  *)
(* and in the executants, after the second: the process ends, no other.    *)
HandleSignal(p) ==
  /\ p \in pending
  /\ pc[p] \notin {"signal2", "papa"}
  /\ Ends(p)
  /\ UNCHANGED <<forked, stopping>>

(* handlerPapa, between the two.  lesFils is still all zeroes: Kill(0)     *)
(* signals the group, in which main is alone and has SIGINT blocked.       *)
EnterPapa(m) ==
  /\ pc[Main(m)] = "signal2" /\ Main(m) \in pending
  /\ Goes(Main(m), "papa") /\ Kill({Main(m)})
  /\ UNCHANGED <<forked, stopping, waiting>>

(* Waitpid(0) finds no child, and exits.                                   *)
WaitpidExits(m) ==
  /\ pc[Main(m)] = "papa"
  /\ Ends(Main(m))
  /\ UNCHANGED <<forked, stopping>>

-----------------------------------------------------------------------------
(* child_work.                                                             *)

(* A mistake: the executants take turns, one connection at a time.         *)
AcceptInTurn(p) ==
  /\ Processing(p)
  /\ pc[p] = "accept"
  /\ \A q \in Processes : pc[q] \notin {"greeting", "serving"}
  /\ waiting > 0
  /\ waiting' = waiting - 1
  /\ Goes(p, "greeting")
  /\ UNCHANGED <<forked, pending, stopping>>

Accept(p) ==
  /\ Processing(p)
  /\ pc[p] = "accept"
  /\ waiting > 0
  /\ waiting' = waiting - 1
  /\ Goes(p, "greeting")
  /\ UNCHANGED <<forked, pending, stopping>>

(* accept() fails, with or without a connection, and Accept exits.         *)
AcceptFails(p) ==
  /\ Processing(p)
  /\ pc[p] = "accept"
  /\ Ends(p)
  /\ UNCHANGED <<forked, stopping>>

(* Getnameinfo() and Inet_ntop(), before traitement() is called ...        *)
Greet(p) ==
  /\ Processing(p)
  /\ pc[p] = "greeting"
  /\ Goes(p, "serving")
  /\ UNCHANGED <<forked, pending, stopping, waiting>>

(* ... and their errors: nobody serves the connection that was accepted.   *)
GreetingFails(p) ==
  /\ Processing(p)
  /\ pc[p] = "greeting"
  /\ Ends(p)
  /\ UNCHANGED <<forked, stopping>>

(* traitement() returns after a bye.                                       *)
ClientSaysBye(p) ==
  /\ Processing(p)
  /\ pc[p] = "serving"
  /\ Goes(p, "accept")
  /\ UNCHANGED <<forked, pending, stopping, waiting>>

(* A client that leaves otherwise ends its executant.                      *)
ClientBreaksOff(p) ==
  /\ Processing(p)
  /\ pc[p] = "serving"
  /\ Ends(p)
  /\ UNCHANGED <<forked, stopping>>

-----------------------------------------------------------------------------
(* The users.                                                              *)

ClientConnects ==
  /\ Holders # {}
  /\ waiting < MaxWaiting
  /\ waiting' = waiting + 1
  /\ UNCHANGED <<pc, forked, pending, stopping>>

(* ctrl-C reaches the whole job while its main is there; when main is gone *)
(* the shell has taken the terminal back from what is left of the job.     *)
CtrlC(m) ==
  /\ Alive(Main(m))
  /\ Kill({p \in Processes : p[1] = m /\ Alive(p)})
  /\ stopping' = stopping \cup {m}
  /\ UNCHANGED <<pc, forked, waiting>>

(* kill -INT of one process.                                               *)
KillOne(p) ==
  /\ Alive(p)
  /\ Kill({p})
  /\ UNCHANGED <<pc, forked, stopping, waiting>>

-----------------------------------------------------------------------------
MainStep(m) ==
  \/ SetHandler(m) \/ Listen(m) \/ ListenExits(m) \/ Fork(m) \/ ForkLoopEnds(m)
  \/ EnterPapa(m) \/ WaitpidExits(m)

Next ==
  \/ \E m \in Launches : Launch(m) \/ MainStep(m) \/ CtrlC(m)
  \/ \E p \in Processes :
       \/ HandleSignal(p) \/ Accept(p) \/ AcceptFails(p)
       \/ Greet(p) \/ GreetingFails(p)
       \/ ClientSaysBye(p) \/ ClientBreaksOff(p) \/ KillOne(p)
  \/ ClientConnects

Spec == Init /\ [][Next]_vars

(* Every process is scheduled and every signal delivered.                  *)
FairSpec ==
  /\ Spec
  /\ \A m \in Launches : WF_vars(MainStep(m))
  /\ \A p \in Processes : WF_vars(HandleSignal(p)) /\ WF_vars(Accept(p))

-----------------------------------------------------------------------------
(* Properties.                                                             *)

(* Whatever is left of a server that was stopped, two pools never share    *)
(* the port: everyone who holds the listening socket is of one launch, and *)
(* a client never meets executants of two servers.                         *)
OnePool == \A p, q \in Holders : p[1] = q[1]

Over(m) == \A p \in Processes : p[1] = m => ~ Alive(p)

(* ctrl-C on a running server stops all of it, even while it is forking.   *)
CtrlCStopsAll == \A m \in Launches : m \in stopping ~> Over(m)

Idle == {p \in Processes : pc[p] = "accept"}

(* The queue of connections moves on as long as an executant is free,      *)
(* however long the others stay with their clients: which executant gets a *)
(* connection is nobody's turn.                                            *)
NoIdleWait ==
  []<>(waiting = 0 \/ Idle = {}) \/ []<><<waiting' < waiting>>_waiting

(* What the code does not guarantee.                                       *)

(* "le serveur s'arrete proprement lorsqu'il recoit un signal d'arret":    *)
(* when main has ended after a signal, its executants end as well.         *)
StopIsClean == \A m \in Launches : pc[Main(m)] = "gone" ~> Over(m)

=============================================================================
