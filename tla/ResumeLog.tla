----------------------------- MODULE ResumeLog -----------------------------
(***************************************************************************)
(* What .log costs and what it holds: the descriptors a process opens, and *)
(* gives back or not, each time it looks for .log, reads it and resumes    *)
(* from it, until its table is full; and global_log, which client2server   *)
(* copies field by field while the handler may save it at any moment.      *)
(*                                                                         *)
(* Clients and executants share only .log here: what the other end of a    *)
(* connection does is any of the outcomes of FTP.  The handler saves in    *)
(* one step, and a .log that is there is a whole one: the steps of the     *)
(* handler are FTP's, the counts and the bytes BlockTransfer's.            *)
(***************************************************************************)
EXTENDS Naturals, FiniteSets

CONSTANTS
  Clients, Executants,
  Names,        \* the files of ./Server
  OpenMax,      \* the size of a table of descriptors, past the standard ones
  Zero, Torn,   \* a name that was never set, one that is half another
  None          \* there is no .log

Processes == Clients \cup Executants

(* An executant with a client needs 4: the listening socket, connfd, fd,   *)
(* and the FILE of existslog() or catchsize().                             *)
ASSUME ResumeLogAssumption ==
  /\ OpenMax \in Nat /\ OpenMax >= 4
  /\ Clients \cap Executants = {}
  /\ {Zero, Torn} \cap Names = {}

(* A field of a log_t is named for the file whose GET wrote it.  The type  *)
(* of the request is always GET, and nobody reads it.                      *)
Fields == {"filename", "filesize", "paquets_recus"}

LogType == [Fields -> Names \cup {Zero, Torn}]

LogOf(f) == [x \in Fields |-> f]

VARIABLES
  pc,           \* where each process is
  fds,          \* how many descriptors it has open
  dotlog,       \* .log, or None
  log,          \* log, what readlog() or fill_log() gave
  global_log,   \* global_log, in the clients what the handler saves
  copying,      \* the fields of global_log = log still to be copied
  resuming,     \* the processes whose transfer began with .log
  answered,     \* the clients whose res.status is no longer 0
  copies,       \* the files of ./Client
  (* history *)
  kept,         \* in the clients, what the last global_log = log copied
  reads,        \* how many .logs each executant has read
  refused       \* the executants that were refused a descriptor

memory == <<log, global_log, copying, resuming, answered, kept>>
vars == <<pc, fds, dotlog, memory, copies, reads, refused>>

ClientPC == {"off", "turn", "readlog", "open", "waiting", "found", "first", "loop"}

ExecPC == {"accept", "turn", "readlog", "open", "waiting", "found", "sending", "dead"}

TypeOK ==
  /\ pc \in [Processes -> ClientPC \cup ExecPC]
  /\ fds \in [Processes -> 0 .. OpenMax]
  /\ dotlog \in LogType \cup {None}
  /\ log \in [Processes -> LogType] /\ global_log \in [Processes -> LogType]
  /\ copying \in [Processes -> SUBSET Fields]
  /\ resuming \subseteq Processes /\ answered \subseteq Clients
  /\ copies \subseteq Names
  /\ kept \in [Clients -> LogType]
  /\ reads \in [Executants -> Nat] /\ refused \subseteq Executants

Init ==
  /\ pc = [p \in Processes |-> IF p \in Clients THEN "off" ELSE "accept"]
  /\ fds = [p \in Processes |-> IF p \in Clients THEN 0 ELSE 1]
  /\ dotlog = None
  /\ log = [p \in Processes |-> LogOf(Zero)] /\ global_log = log
  /\ copying = [p \in Processes |-> {}]
  /\ resuming = {} /\ answered = {} /\ copies = {}
  /\ kept = [c \in Clients |-> LogOf(Zero)]
  /\ reads = [e \in Executants |-> 0] /\ refused = {}

-----------------------------------------------------------------------------
(* Tables of descriptors.                                                  *)

(* A mistake: the last slot is counted twice.                              *)
RoomForOneMore(p) == fds[p] <= OpenMax

Room(p) == fds[p] < OpenMax

Goes(p, at) == pc' = [pc EXCEPT ![p] = at]

Opens(p) == Room(p) /\ fds' = [fds EXCEPT ![p] = @ + 1] /\ UNCHANGED refused

Closes(p) == fds' = [fds EXCEPT ![p] = @ - 1] /\ UNCHANGED refused

Same == UNCHANGED <<fds, refused>>

(* An open() that fails for want of a descriptor; the history is only kept *)
(* of executants.                                                          *)
IsRefused(p) == ~ Room(p) /\ refused' = refused \cup ({p} \cap Executants)

Refused(p) == IsRefused(p) /\ UNCHANGED fds

(* exit(): descriptors and memory go with the process.                     *)
Ends(p) ==
  /\ Goes(p, IF p \in Clients THEN "off" ELSE "dead")
  /\ fds' = [fds EXCEPT ![p] = 0]
  /\ log' = [log EXCEPT ![p] = LogOf(Zero)]
  /\ global_log' = [global_log EXCEPT ![p] = LogOf(Zero)]
  /\ copying' = [copying EXCEPT ![p] = {}]
  /\ resuming' = resuming \ {p} /\ answered' = answered \ {p}
  /\ kept' = [c \in Clients |-> IF c = p THEN LogOf(Zero) ELSE kept[c]]

DiesRefused(p) == IsRefused(p) /\ Ends(p)

-----------------------------------------------------------------------------
(* The head of both loops: existslog(), readlog(), open().                 *)

(* A mistake: existslog() keeps its FILE.                                  *)
LookAndKeep(p) ==
  /\ pc[p] = "turn"
  /\ \/ dotlog # None /\ Opens(p) /\ Goes(p, "readlog")
     \/ dotlog = None /\ Same /\ Goes(p, "waiting")
     \/ dotlog # None /\ Refused(p) /\ Goes(p, "waiting")
  /\ UNCHANGED <<dotlog, memory, copies, reads>>

(* existslog() gives its FILE back; without room for one, there is no .log *)
(* for it.                                                                 *)
Look(p) ==
  /\ pc[p] = "turn"
  /\ \/ dotlog # None /\ Room(p) /\ Same /\ Goes(p, "readlog")
     \/ dotlog = None /\ Same /\ Goes(p, "waiting")
     \/ dotlog # None /\ Refused(p) /\ Goes(p, "waiting")
  /\ UNCHANGED <<dotlog, memory, copies, reads>>

(* The four fscanf().                                                      *)
Reads(p) ==
  /\ pc[p] = "readlog" /\ dotlog # None /\ Goes(p, "open")
  /\ log' = [log EXCEPT ![p] = dotlog]
  /\ reads' = [e \in Executants |-> IF e = p THEN reads[e] + 1 ELSE reads[e]]
  /\ UNCHANGED <<dotlog, global_log, copying, resuming, answered, copies, kept>>

(* A mistake, though not for this code: readlog() closes its FILE.         *)
ReadAndClose(p) == Room(p) /\ Same /\ Reads(p)

(* readlog() keeps its FILE.                                               *)
Read(p) == Opens(p) /\ Reads(p)

(* ... or exits: another process has removed .log since, or no descriptor. *)
ReadExits(p) ==
  /\ pc[p] = "readlog"
  /\ \/ dotlog = None /\ Ends(p) /\ UNCHANGED refused
     \/ dotlog # None /\ DiesRefused(p)
  /\ UNCHANGED <<dotlog, copies, reads>>

(* The file the path of servpath() or clipath() leads to.                  *)
Found(p) == log[p]["filename"] \in IF p \in Clients THEN copies ELSE Names

OpenLogged(p) ==
  /\ pc[p] = "open" /\ Found(p)
  /\ Opens(p) /\ Goes(p, IF p \in Clients THEN "first" ELSE "sending")
  /\ resuming' = resuming \cup {p}
  /\ UNCHANGED <<dotlog, log, global_log, copying, answered, copies, kept, reads>>

(* The open() fails and the loop goes on, with .log where it was.          *)
PassOver(p) ==
  /\ pc[p] = "open" /\ Goes(p, "turn")
  /\ (~ Found(p) /\ Same) \/ (Found(p) /\ Refused(p))
  /\ log' = [log EXCEPT ![p] = LogOf(Zero)]
  /\ UNCHANGED <<dotlog, global_log, copying, resuming, answered, copies, kept, reads>>

-----------------------------------------------------------------------------
(* Executants.                                                             *)

(* Accept exits on an error.                                               *)
Accept(e) ==
  /\ pc[e] = "accept"
  /\ \/ Opens(e) /\ Goes(e, "turn") /\ UNCHANGED memory
     \/ DiesRefused(e)
  /\ UNCHANGED <<dotlog, copies, reads>>

(* A GET of a file that is there; without a descriptor it is not found.    *)
ServeGet(e) ==
  /\ e \in Executants /\ pc[e] = "waiting"
  /\ \/ Opens(e) /\ Goes(e, "found")
     \/ Refused(e) /\ Goes(e, "turn")
  /\ UNCHANGED <<dotlog, memory, copies, reads>>

(* Other requests open nothing; the bye returns to child_work, which       *)
(* closes the connection.                                                  *)
ServeOther(e) ==
  /\ e \in Executants /\ pc[e] = "waiting"
  /\ \/ Goes(e, "turn") /\ Same
     \/ Goes(e, "accept") /\ Closes(e)
  /\ UNCHANGED <<dotlog, memory, copies, reads>>

(* catchsize() gives its FILE back, or does not look at a NULL.            *)
Catchsize(e) ==
  /\ e \in Executants /\ pc[e] = "found"
  /\ \/ Room(e) /\ Same /\ Goes(e, "sending") /\ UNCHANGED memory
     \/ DiesRefused(e)
  /\ UNCHANGED <<dotlog, copies, reads>>

(* A mistake: fd is never closed.                                          *)
SentAndKept(e) ==
  /\ pc[e] = "sending" /\ Goes(e, "turn") /\ Same
  /\ dotlog' = IF e \in resuming THEN None ELSE dotlog
  /\ resuming' = resuming \ {e} /\ log' = [log EXCEPT ![e] = LogOf(Zero)]
  /\ UNCHANGED <<global_log, copying, answered, copies, kept, reads>>

(* server2client returns.  After a GET fd is closed; after a resumption    *)
(* .log is removed and fd stays open.                                      *)
Sent(e) ==
  /\ pc[e] = "sending" /\ Goes(e, "turn")
  /\ IF e \in resuming THEN Same /\ dotlog' = None
     ELSE Closes(e) /\ UNCHANGED dotlog
  /\ resuming' = resuming \ {e} /\ log' = [log EXCEPT ![e] = LogOf(Zero)]
  /\ UNCHANGED <<global_log, copying, answered, copies, kept, reads>>

(* The client leaves without a bye, or a signal comes.                     *)
ExecDies(e) ==
  /\ pc[e] # "dead" /\ Ends(e)
  /\ UNCHANGED <<dotlog, copies, reads, refused>>

-----------------------------------------------------------------------------
(* Clients.                                                                *)

Launch(c) ==
  /\ pc[c] = "off" /\ Goes(c, "turn")
  /\ fds' = [fds EXCEPT ![c] = 1]
  /\ UNCHANGED <<dotlog, memory, copies, reads, refused>>

(* The prompt: a command that ends without a file, or a GET that is found. *)
Prompt(c) ==
  /\ c \in Clients /\ pc[c] = "waiting" /\ Same
  /\ \/ Goes(c, "turn") /\ answered' \in {answered, answered \cup {c}}
     \/ Goes(c, "found") /\ answered' = answered \cup {c}
  /\ UNCHANGED <<dotlog, log, global_log, copying, resuming, copies, kept, reads>>

(* Open creates or empties the copy; then a second response comes, and     *)
(* fill_log() makes the log of this GET.  Unless it is SENDING the loop    *)
(* goes on, and the copy stays open.                                       *)
OpenCopy(c) ==
  /\ c \in Clients /\ pc[c] = "found" /\ Opens(c)
  /\ \E f \in Names :
       /\ copies' = copies \cup {f}
       /\ \/ Goes(c, "first") /\ log' = [log EXCEPT ![c] = LogOf(f)]
          \/ Goes(c, "turn") /\ UNCHANGED log
  /\ UNCHANGED <<dotlog, global_log, copying, resuming, answered, kept, reads>>

(* Or it exits.                                                            *)
OpenExits(c) ==
  /\ c \in Clients /\ pc[c] = "found" /\ DiesRefused(c)
  /\ UNCHANGED <<dotlog, copies, reads>>

(* A mistake: only the count is brought up to date.                        *)
HeadCounts(c) ==
  /\ pc[c] \in {"first", "loop"} /\ copying[c] = {}
  /\ copying' = [copying EXCEPT ![c] = {"paquets_recus"}]
  /\ Same /\ UNCHANGED <<pc, dotlog, log, global_log, resuming, answered, copies, kept, reads>>

(* The head of client2server's loop: global_log = log begins.              *)
Head(c) ==
  /\ pc[c] \in {"first", "loop"} /\ copying[c] = {}
  /\ copying' = [copying EXCEPT ![c] = Fields]
  /\ Same /\ UNCHANGED <<pc, dotlog, log, global_log, resuming, answered, copies, kept, reads>>

(* One field goes over at a time, in the order the compiler likes, and the *)
(* name in parts.  Then a block is received, and counted.                  *)
CopyField(c) ==
  /\ \E x \in copying[c] :
       \/ /\ x = "filename" /\ global_log[c][x] # log[c][x]
          /\ global_log' = [global_log EXCEPT ![c][x] = Torn]
          /\ UNCHANGED <<pc, copying>>
       \/ /\ global_log' = [global_log EXCEPT ![c][x] = log[c][x]]
          /\ copying' = [copying EXCEPT ![c] = @ \ {x}]
          /\ Goes(c, IF copying[c] = {x} THEN "loop" ELSE pc[c])
  /\ kept' = IF copying'[c] = {} THEN [kept EXCEPT ![c] = log[c]] ELSE kept
  /\ Same /\ UNCHANGED <<dotlog, log, resuming, answered, copies, reads>>

(* The last block.  A resumption removes .log, a GET does not; the copy    *)
(* stays open after either.                                                *)
Received(c) ==
  /\ pc[c] \in {"first", "loop"} /\ copying[c] = {}
  /\ Goes(c, "turn") /\ Same
  /\ dotlog' = IF c \in resuming THEN None ELSE dotlog
  /\ resuming' = resuming \ {c} /\ log' = [log EXCEPT ![c] = LogOf(Zero)]
  /\ UNCHANGED <<global_log, copying, answered, copies, kept, reads>>

(* handler_iencli: there is nothing to save; or .log is saved; or, for the *)
(* test < 0 does not tell, fprintf() is given a NULL.                      *)
Interrupt(c) ==
  LET saves == c \in answered \/ (dotlog # None /\ Room(c)) IN
  /\ c \in Clients /\ pc[c] # "off" /\ Ends(c)
  /\ dotlog' = IF saves /\ Room(c) THEN global_log[c] ELSE dotlog
  /\ UNCHANGED <<copies, reads, refused>>

(* A bye, handler_pipe, or an error on the connection.                     *)
ClientExits(c) ==
  /\ c \in Clients /\ pc[c] # "off" /\ Ends(c)
  /\ UNCHANGED <<dotlog, copies, reads, refused>>

-----------------------------------------------------------------------------
Turn(p) == Look(p) \/ Read(p) \/ ReadExits(p) \/ OpenLogged(p) \/ PassOver(p)

ExecStep(e) ==
  \/ Accept(e) \/ ServeGet(e) \/ ServeOther(e) \/ Catchsize(e) \/ Sent(e)
  \/ ExecDies(e)

ClientStep(c) ==
  \/ Launch(c) \/ Prompt(c) \/ OpenCopy(c) \/ OpenExits(c) \/ Head(c)
  \/ CopyField(c) \/ Received(c) \/ Interrupt(c) \/ ClientExits(c)

Next ==
  \/ \E p \in Processes : Turn(p)
  \/ \E e \in Executants : ExecStep(e)
  \/ \E c \in Clients : ClientStep(c)

Spec == Init /\ [][Next]_vars

(* Every process is scheduled; what it waits for may never come.           *)
FairSpec == Spec /\ \A p \in Processes : WF_vars(Turn(p))

-----------------------------------------------------------------------------
(* Properties.                                                             *)

(* What an executant serves costs nothing, and a .log it reads at most two *)
(* descriptors.  So it is refused one -- and dies of it, or calls a file   *)
(* missing that is there -- only once the .logs it has read account for    *)
(* all its table holds beyond the four it works with.                      *)
OnlyLogsStarve == \A e \in refused : OpenMax < 4 + 2 * reads[e]

(* readlog() never exits for want of a descriptor: existslog() has just    *)
(* given one back.                                                         *)
RoomToRead == \A p \in Processes : pc[p] = "readlog" => Room(p)

(* A .log whose file is not there is never removed; still no process turns *)
(* on it for ever: its table fills up, and existslog() then sees none.     *)
TurningEnds ==
  \A p \in Processes :
    pc[p] = "readlog" ~> pc[p] \notin {"turn", "readlog", "open"}

(* What an interrupt saves.  Between two copies of global_log it is whole: *)
(* the log of the last transfer that asked for a block, be it of an        *)
(* earlier request, and this one's from its first copy on, while it is     *)
(* copied again too.  Within that first copy each field is still that of   *)
(* the earlier log, or already this one's, and the name may be torn.       *)
TornInFirstCopy ==
  \A c \in Clients :
    /\ copying[c] = {} \/ pc[c] # "first" => global_log[c] = kept[c]
    /\ pc[c] = "loop" => kept[c] = log[c]
    /\ \A x \in Fields :
         \/ global_log[c][x] \in {kept[c][x], log[c][x]}
         \/ x = "filename" /\ global_log[c][x] = Torn

=============================================================================
