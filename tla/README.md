# A verification of TP_FTP

TLA+ models of the file transfer program in `src/`: a pool server, an
interactive client, transfers by blocks of 4096 bytes, and their resumption
after a ctrl-C of the client; the first version of it that the repository keeps
(Etape I); and the robust I/O package both are written on. TLC checks small
instances of the models; TLAPS proves the main results for every value of their
constants.

## 1. The system

| component | source | state it keeps | operations |
|---|---|---|---|
| server processes | `src/src/serverFTP.c` | the process table (`lesFils`), the SIGINT disposition, the listening socket and its backlog | `main` (handlers, `Open_listenfd`, fork loop, `pause`), `handlerFils`, `handlerPapa`, `child_work` |
| conversation, server side | `src/src/traitement.c` | `req`, `res`, the descriptor of the served file | `traitement`, `readreq`, `isbyeserv`, `server2client` |
| conversation, client side | `src/src/clientFTP.c` | `req`, the globals `res`, `global_log`, `global_clientfd` | `main`, `isbyecli`, `client2server`, `fill_log`, `handler_iencli`, `handler_pipe` |
| resume log | `src/src/log.c`, `log.h`, the handler of the client | the file `.log`: request, name, size, packets received | `existslog`, `readlog`, `fprintf` in `handler_iencli`, `remove` at both ends |
| paths and sizes | `src/src/utils.c` | none | `servpath`, `clipath`, `catchsize` |
| wire formats | `src/src/types.h` | none | `request_t`, `response_t`, the bare word of a bye and of a 404 |
| robust I/O | `src/src/csapp.c` | `rio_t`: the buffer, its pointer, its count | `rio_readn`, `rio_writen`, `rio_readinitb`, `rio_read`, `rio_readnb`, `rio_readlineb` and their wrappers |
| socket and system call wrappers | `src/src/csapp.c` | descriptors, signal dispositions | `open_clientfd`, `open_listenfd`, `Signal`, `Accept`, `Open`, `Kill`, `Waitpid`..., with their error exits |
| echo | `src/old/echo.c` | a line | the only user of the line reader |
| Etape I | `src/old/Serveur/serverFTP.c`, `src/old/Client/clientFTP.c` | the process table; one request | one GET per connection, `handlerPapa` with `handlerFils` |
| copies of the library | `src/old/*/csapp.c` | | byte for byte `src/src/csapp.c`; what Etape I calls |
| left-overs | `src/old` `get.c`, `utils.c` | | linked into nothing |

How they interact. `main` of the server forks NPROC executants that all
`accept` on one socket. A client has one TCP connection to one executant and
sends one request after the other over it; the executant answers FOUND, then
SENDING with the size, then the bytes, with no framing, so that each end must
know by itself how many bytes belong to what. Both programs run in the same
directory and share one file, `.log`: a client writes it in its SIGINT handler,
and every turn of the loop of every client *and of every executant* begins by
looking for it and, when it is there, resumes the transfer it names on the
connection at hand.

What is hard about it: the handler interrupts `client2server` anywhere and
saves a record copied earlier; two ends recompute where they are from a count
of packets; `.log` is looked for, opened, emptied, written and removed by
several processes with no lock; `readlog` never closes it, so that it costs a
descriptor each time it is read; an end of connection in the middle of
anything; reads and writes that are cut, interrupted or fail; signals, zombies
and orphans of the server. `PROJECT.json` lists
each of these hazards at its line.

What makes each part correct:

- transfer: a byte is stored at its own offset or not at all; a saved resume
  point is never far behind the copy, and ahead of it in two cases only, that
  the code does not exclude (see `BlockTransfer`); outside them a copy that
  ended is the served file;
- conversation: the two ends agree on where they are when the client prompts;
  a request ends; a block goes to the file it was asked for; an executant is
  free again when its client has said bye; what goes wrong on one connection
  does not reach another;
- resume log: what is saved is one log, but for an interrupt in the first copy of
  a transfer; reading it never exits for want of a descriptor; an executant is
  refused a descriptor for the `.log`s it has read alone; no process turns on a
  `.log` for ever;
- server processes: the port belongs to one pool; a stopped server stops;
  a free executant takes what waits;
- robust I/O: nothing is lost, doubled or moved, and a call returns what it
  would if the system never cut anything.

## 2. The modules

| module | models | composes |
|---|---|---|
| `FileCopy` | the promise of a GET and its resumptions, seen from the client's file | |
| `BlockTransfer` | one file, byte by byte: `server2client`, `client2server`, the handler, `.log`, restarts | implements `FileCopy` |
| `FileService` | the promise of the conversation when nobody presses ctrl-C or asks for a directory and accepts succeed (the *calm*), seen by the users | |
| `FTP` | clients, executants, their connections and the one `.log`, block by block | the loops of `main` and `traitement` around what `BlockTransfer` details; in the calm, implements `FileService` |
| `ResumeLog` | descriptors, the fields of `global_log` and of `.log` | the heads of the same two loops, seen from the table of descriptors |
| `ServerPool` | the server's processes, signals, restarts | the life of the executants that `FTP` takes as given |
| `OldFTP` | Etape I: main, executants, clients, their connections, `import.txt` | the whole of `old/` |
| `LineReader` | what a reader promises: the next bytes, or the next line, in one step | |
| `Rio` | `rio_t`, `read()` and `write()` that do part of what is asked; `echo()` | implements `LineReader` |
| `BlockTransfer_proofs`, `ServerPool_proofs`, `OldFTP_proofs`, `OldImport_proofs`, `Rio_proofs`, `ResumeLog_proofs`, `FTP_proofs`, `FTPCalm_proofs` | theorems | |
| `MCBlockTransfer`, `MCFTP`, `MCServerPool`, `MCOldFTP`, `MCRio`, `MCResumeLog` | instances for TLC | |

### BlockTransfer

A byte of the served file is identified with its offset. `spc`, `sremaining`,
`spos`, `sbuf` and `sleft` are the executant in `server2client`: the position
of its descriptor, its buffer, and `nleft` of the `rio_writen` in progress;
`sock` is the connection, which holds SockSize bytes; `cpc`, `cremaining`,
`cpaquets`, `cpos`, `cbuf`, `clog` and `global_log` are the client in
`client2server`. `dst`, `logexists` and `logfile` are on disk and survive the
processes. Each read and write of the socket moves any number of bytes that is
possible. `Interrupt`, `SaveLog` and `CloseSocket` are `handler_iencli`, with
its `sleep(1)` between the last two, during which the executant goes on.
`Resume` is the next client and an executant that both find `.log`;
`GetAgain` is a fresh GET, whose `open` truncates, of the next client
(`NewProcesses`, where `global_log` is all zeroes again) or of the same one on
the same connection (`SameProcesses`, where it is what the last transfer left).
`Leave` is a bye, or a request that nobody is there to answer. A count that is
too large makes `remaining` negative, which `Rio_readn` takes for a huge number
and `read` refuses: `ServerReadFails` and `ClientReadFails` end the process.

A `log_t` is reduced to what decides anything: `named` says that `global_log`
was ever assigned (a zeroed one names no file), `counted` says that
`paquets_recus` was. `fill_log` does not set it, so that `Resume` from a log
that is not `counted` starts from any member of `Garbage`.

Two history variables mark the two cases in which the code saves a resume point
that the copy does not back, so that resuming from it leaves a hole. `exact`:
every count recorded so far stood for full blocks and was set; a block cut short
by the end of the connection is counted as a full one (`clientFTP.c:82`).
`overtaken`: `.log` was written while `Stale` held, that is by a ctrl-C between
the `Open` of a second GET in one process, which empties the copy
(`clientFTP.c:208`), and the first turn of its loop, which replaces the
`global_log` of the first (and which a file of one block or less never takes). `LogHonest`, `CompleteCopy` and `FileCopy` say that
nothing else leads to a hole: a log ahead of the copy *implies* one of the two.

### FTP

`cpc`/`epc` are the places of clients and executants in their loops, `up` and
`down` the two directions of each connection as sequences of units (request,
bare word, response, block). `EightBytes` is what a read of a `response_t`
makes of the units at hand, including those it was not meant for. `dotlog` is
`.log`; `Emptied` is the window between `fopen("w")` and `fclose` in the
handler, in which a reader finds no fields: the name is then unset, which on
the executant's side opens nothing or the directory `./Server/`. `linked` is
the clients whose open `.log` has not been removed meanwhile: what they write
goes to a file without a name otherwise. The end of a connection is read as
the code does: four bytes and the end are a bye, the end alone is a GET of
`./Server/` that ends the executant, something unread makes it a reset.
`Typed` is `type_request`, which tells words apart by their first letters.

A name of `Directories` opens on the executant's side ("get .",
`AskDirectory`): FOUND and a SENDING with whatever `catchsize` makes of it
(`SizesOf`, a negative number too) are sent, and the first read ends the
executant (`SendFails`); the client waits for blocks until the connection ends,
or ends itself, of a negative remaining (`ClientReadFails`) or because the name
is a directory on its side as well (`OpenExits`). `Accept`, `Getnameinfo` and
`Inet_ntop` may exit (`AcceptFails`), the last two with the connection just
taken, whose client nobody serves any more.

`misfiled` and `rough` are history: the clients that stored a block elsewhere
than at its place, and the connections on which something out of the ordinary
happened: ctrl-C at the client, a `.log` that one of the ends found, the get of a
directory, an accept that failed. All the others are *quiet*. What goes wrong on
a rough connection does go wrong: a client and an executant that find a `.log`
where they are not both idle resume the transfer it names in the middle of
another (`traitement.c:107`) and misfile blocks, and executants end. The
properties say that it stays there: on a quiet connection nothing is misfiled,
prompts are in step, only unanswered requests block and no executant is lost,
whatever happens on the others. `CalmNext` is `Next` without ctrl-C, directories
and failing accepts; then no `.log` ever appears and every connection is quiet.
`CtrlCSpec` is the calm with ctrl-C alone, for `FTP_pool`.

`FileService` is what a user of a calm conversation may count on: clients are
attended in the order they came, a request puts the client in wait, a get of a
file that is there stores its blocks one by one and ends in a prompt with all of
them, nothing else ends a wait, and a client that leaves frees its executant.
`FTP` implements it under the mapping `Service`: `Place` folds the places of the
client's loop into away, prompt, waits and gone; `stored` is the count of
packets once the client has read the size, and 0 before that, when the count is
still the last transfer's; `queue` is the backlog and `serves` the connections.
Requests, answers and blocks under way map to nothing.

### ResumeLog

`fds[p]` is how many descriptors a process has open, out of `OpenMax`. `Look`,
`Read` and `OpenLogged` are the head of both loops: `existslog` gives its FILE
back, `readlog` keeps it, and when the file named is not there (`PassOver`) the
loop starts again with `.log` still in place. Where the table is full,
`existslog` reports no `.log` (it does not tell a missing file from a refused
one), the wrappers exit and a GET is answered as not found. What closes a
descriptor and what does not is read from the code: `fd` of a GET on the
executant's side, not of a resumption, and no copy of the client.

A field of a `log_t` is named for the file whose GET wrote it, so that a log
whose fields have two names is of two transfers. `global_log = log` is a copy
field by field in any order (`Head`, `CopyField`), with the name in parts
(`Torn`), and `Interrupt` may come between any two of them. `kept` is history:
what the last complete copy copied. The first copy of a transfer *can* be torn,
and before it the handler saves the log of an earlier request of the process;
`TornInFirstCopy` says that nothing else is saved, and what each field is inside
that copy. `reads` is history too: how many `.log`s an executant has read.
A second response that is not SENDING leaves the copy open and the loop goes on
(`OpenCopy`).

In this module, what the other end of a connection does is any of the outcomes
of `FTP`, and the handler saves in one step.

### ServerPool

`pc[<<m, i>>]` is the place of process i of launch m (0 is `main`).
`Signal(SIGINT, handlerPapa)` is replaced at once by `handlerFils`, so that a
SIGINT ends the process that gets it and nobody else. In between (`signal2`) a
SIGINT runs `handlerPapa` itself (`EnterPapa`): `lesFils` is all zeroes, so that
it signals the group and then waits for children there are not
(`WaitpidExits`). `main` exits when the port is taken (`ListenExits`).
`greeting` is an executant between `Accept` and `traitement`; `Accept` and
`Getnameinfo` exit on errors (`AcceptFails`, `GreetingFails`), which are part of
every run. `CtrlC` reaches the
whole foreground job and `KillOne` one process. A process with a pending signal
does nothing else before it. `fork` may fail unnoticed. An executant that ends
is a zombie until its `main` ends; executants outlive their `main` as orphans,
and hold the listening socket, for which `bind` of the next launch fails.

### OldFTP

`mpc` and `i` are `main` in its fork loop and in the loop of `handlerPapa`;
`failed` the indices whose `fork` gave -1, which `Kill` and `Waitpid` take for
every process and any child. `exec[e]` is an executant: its place, its client,
the file it opened and how much of it is written. `conn[c]` is a connection
with its two directions; `Shut` is what the close of the server's end makes of
it (an end, or a reset when the client wrote what nobody read), `Release` what
goes with a process that ends. The results of reads that nobody checks are
nondeterministic: a request cut short leaves any type and any name in `req`
(`Request`), a connection that ends before the status leaves any status
(`ReadStatus`). The wrappers end their process: `Open` of a missing name
(`OpenExits`), `Accept` and `Getnameinfo` (`AcceptFails`, `GreetingFails`), a
port that is taken (`ListenExits`), a `Waitpid` without children
(`WaitpidExits`), and in the client a write or a read on a connection that was
reset (`WriteExits`, `ReadExits`, `ReadnExits`). `ClientStops` is ctrl-C.
SIGINT ends an executant with `handlerFils` or without it, so
that the moment it sets the handler is not a step. Each user of the client has a
directory of their own, and buffers of the connection are unlimited.

### Rio

A byte is its place in the stream; `stream` is what the other end sends before
it closes. `read` counts what `read()` has given, `rio_buf`, `rio_bufptr` and
`rio_cnt` are the `rio_t`, `usrbuf` what the call in progress has stored, and
`taken` what earlier calls have returned. `read()` gives any number of bytes up
to what is asked (`ReadDirect`, `Refill`), is interrupted (`Interrupted`: the
code tries again, and `rio_cnt` stays at -1 in between), meets the end, or fails,
which ends the process in every `Rio_` wrapper. A descriptor is read directly or
through its `rio_t`, as every caller does. `LineValue` is the `n` that
`rio_readlineb` returns, which counts the NUL of a line without a newline, and
`echo` then sends that NUL too (`EchoIsStream` says where).

`LineReader` is the promise: a call takes the next `n` bytes or what is left,
or the next line, atomically. `Rio` implements it with no mapping but that of
names, since `taken` and `result` only change at a return.

## 3. The runs

All of them finish in about two minutes at most on two workers.

| run | expected | question |
|---|---|---|
| `BlockTransfer` | pass | Do the loops, with ctrl-C, the server's end and resumptions, and any number of GETs in one process, keep every byte in place and the resume point within two blocks behind the file? Is it ahead of it, or a finished copy not whole, in the two named cases only? Do they implement `FileCopy`? Does a transfer end? |
| `FTP_calm` | pass | Without ctrl-C: are both ends in step at every prompt, does nothing but an unanswered request block, do GETs end, does bye free the executant? Does the conversation implement `FileService`? |
| `FTP_interrupts` | pass | With ctrl-C, gets of directories and failing accepts anywhere: is an executant lost, or a block misfiled, only on a connection that is not quiet? |
| `ServerPool` | pass | Do two pools ever share the port; does ctrl-C stop all of a server; is a free executant put to work? |
| `OldFTP` | pass | Does `import.txt` hold one file, whole when its end is announced? Does `main` stop on SIGINT, last of all, and without waiting for an executant it has not signalled? Does every client end as long as an executant is left? |
| `ResumeLog` | pass | Is an executant refused a descriptor only when the `.log`s it has read account for its table? Has `readlog` always one left? Is what the handler saves torn in the first copy of a transfer only? Does a process stop turning on a `.log` it cannot use? |
| `Rio` | pass | Do the readers lose, double or move bytes under any cuts, interruptions and failures? Do they implement `LineReader`? Does echo send back the stream? Does a call return? |
| `BlockTransfer_resumable` | violation | Can an interrupted transfer be resumed? |
| `BlockTransfer_serverstop` | violation | Does the client stop when the server does? |
| `FTP_notfound` | violation | Is a 404 heard? |
| `FTP_pool` | violation | Does every executant return to the pool? |
| `ServerPool_stop` | violation | Does a SIGINT to the server stop it? |

Each violation contradicts a sentence of the repository's documentation or a
comment of the code; `PROJECT.json` quotes it under "findings". Three facts of
the same kind that the models show have no run of their own, because they are
the exceptions that passing properties name: a block cut short by the end of the
connection is counted as a full one, after which the count of packets overstates
the file (`exact`); ctrl-C at the start of a second GET in one process saves the
resume point of the first, of a copy that is empty by then (`overtaken`); and the
shared `.log` misfiles blocks and ends executants on the connections where it is
found (`rough`).

**Bounds.** `BlockTransfer`: blocks of two bytes, a connection of three (so
that it can hold a block and a part of the next, and can be full in the middle
of one), sizes 0 to 7 around every multiple of the block: empty, less than a
block, exactly one, one and a bit, up to four. Four blocks are what it takes
for the saved count to be two behind. Unset counts are before the file, at its
start, inside, and past its end. Nothing else is bounded: interruptions,
resumptions and GETs of one process are unlimited. `FTP`: two clients, one or two executants, files of
0, 1 and 2 blocks; two blocks are enough to be cut in between and to make the
two branches of both loops happen, two clients enough to find each other's
`.log`. A user types no request while `MaxInFlight` units are unread: one in
`FTP_interrupts`, where a client that prompts with a unit unread is on a
connection that is not quiet (in `FTP_calm`, with six, it has none). The sizes of
a directory are -1 and 1, the two that differ from a file's: one of size 0 is not
read and behaves as the empty file.
`FTP_interrupts` uses the symmetry of clients and of executants (its
properties are invariants). Counts that were never set are 0 in `FTP`: their
other values are `BlockTransfer`'s. `ServerPool`: two launches, two executants
each, two waiting connections; the program has three executants, and two already
make one idle while another serves, in either launch. `OldFTP`: two executants,
so that `handlerPapa` meets them in either order and with either fork failed;
one client, launched again and again, with a file of three bytes read two at a
time, an empty one and a missing one. Two clients only meet in the queue of
`accept`, which is `ServerPool`'s `NoIdleWait`. `ResumeLog`: a client launched
again and again and an executant, two files, so that fields of two transfers
can be told apart, and tables of six descriptors: two more than what a process
needs at once, so that an executant reads a `.log` and resumes from it without
being refused anything, and the next `.log` may be one too many. `Rio`: streams of up to five bytes with newlines anywhere,
a buffer of three and lines of three, so that a stream takes two refills and a
line may be shorter than, as long as, or longer than its room; asks of 0, 1, 2
and 4 are below and above the buffer.

**Deadlock** is not checked: clients leave, connections block for ever after a
404, a server may be stopped, and a program may ask for nothing more; the waits that must not happen
are stated as properties (`OnlyUnansweredBlock`, `NotFoundIsAnswered`).

**Fairness.** `BlockTransfer!FairSpec`, `FTP!CalmSpec`,
`ServerPool!FairSpec` and `OldFTP!FairSpec` assume weak fairness of every
process: the operating system schedules it and a read or a write that is
possible returns. `Rio!FairSpec` says of one process that a call gets on, however
often it is interrupted before, and that echo asks for the next line;
`ResumeLog!FairSpec` only that the head of each loop (`Turn`) gets on. In
`ServerPool` also that a pending signal is handled, and that each executant
that stays in `accept` while connections wait gets on. Nothing is assumed of
users: they need not type, press ctrl-C, say bye or come back.

## 4. What is proved

Assumptions: `BlockAssumption` (a block size and a capacity of at least one,
natural sizes, integer garbage), `PoolAssumption` (natural bounds) and
`OldAssumption` (a natural number of executants, a buffer of at least one byte,
natural sizes), `RioAssumption` (buffers of at least one and two bytes, natural
lengths and asks), `ResumeLogAssumption` (room for the four descriptors a
process needs at once, clients that are not executants), `FTPAssumption` (files
of a natural number of blocks, directories of any size, commands that
`type_request` tells apart, names of nothing that are not names of files, and no
name both a file's and a directory's).

`BlockTransfer_proofs`:

- `TypeCorrect`: the type invariant.
- `StreamStaysInStep`, `BytesInPlace`: from `StreamInv`. That a byte is stored
  at its own offset is not inductive: it needs that the client's buffer and the
  connection hold consecutive bytes from the client's position on, that the
  connection ends where the executant's writes have got to, and that the
  executant's buffer ends at its position (`ServerInStep`). `Resume` keeps it
  because both ends seek to the same offset, and both stay at 0 when it is
  negative.
- `CopyInvariant`: `CopyInv` adds `BufferBounded` (a read never gets more than
  it asked for), `CountsAgree` (remaining, packets and position tell the same
  story as long as the counts are exact), `LogsAgree` and `LogAway`. `LogsAgree`
  says of `global_log` and of `.log`, when the counts are exact, three things that
  must be kept apart once a process may GET again: they always point into the file
  served (`PointsInto`);
  the copy holds all that is before them (`Backed`), unless `global_log` is
  `Stale` or `.log` `overtaken`; and they are at most two blocks behind it
  (`LagsByTwo`: one because the copy is made before the block is counted, one
  because no copy is made before the last block), also when they are stale, since
  the file is empty then. `LogAway` ties `.log` to the place of the client: one
  that found none does not find one later, so that a GET never truncates a file
  that a `.log` counts. `CopyInv` is there for the proofs alone.
  `ResumePointIsHonest`, `ResumeLagIsBounded` and `FinishedCopyIsWhole` follow.
- `TransferRefinesCopy`: every step of the block protocol is a step of
  `FileCopy` or leaves its variables alone, `CopyInv` supplying that what the
  mapping calls complete is complete.

`ServerPool_proofs`: `PoolTypeCorrect`, and `OnePoolAtATime`, whose invariant
is inductive by itself with the types: the socket is only taken when nobody
holds it, and only passed on by `fork` of a process that holds it. The safety
half of `CtrlCStopsAll` is proved too: `CtrlCMissesNobody` (from `ToldInv`, which
adds that a launch that was stopped has a `main`) says that every process still
there after a ctrl-C has a SIGINT to handle, and `StoppedServersOnlyEnd` that such
a process does nothing but end; that it does get to end needs fairness and stays
with TLC.

`OldFTP_proofs`: `PapaIsLast`. That `handlerPapa` leaves last follows from
`ReapedInOrder`, that the executants reaped are exactly those its loop has
passed, and from `SignalsReachTheLiving`, without which a signal could be
handled by a process that is gone; of the executants it only needs that they are
records, whatever their connections do (`Stays`, `Dies`). `PapaTellsEverybody` adds
`LoopsMiss`: what the loops have passed is either forked or known to have failed,
and once `handlerPapa` has met a slot that failed, or one that an earlier wait
for any child has reaped out of its turn, every executant has a SIGINT to handle.

`OldImport_proofs`: `OldTypes`, `ImportHoldsOneFile`, `EndMeansEnd` and the action
property `ExecutantsEndForAReason`, all from `ImportInv`. What a
client stores is only known from what was sent to it, so `ImportInv` says where
the two ends of each connection are in their one GET (`Conversing`): nothing of
the request is read (`Unread`), or its first part is (`TypeRead`), or so many
bytes of the file the client asked for are in `import.txt` and under way, in that
order (`Streamed`); when the server's end is closed, all of them, or its process
ended (`HasEnded`). This holds of every client at once only because an executant
talks to one client at a time and no two to the same (`Serving`), which in turn
needs that a connection is in the backlog once (`Queueing`) and that `main` never
forks where an executant already is (`NotYetForked`). A client that has left says nothing of its
connection any more: its executant may still read what the stack held.

`Rio_proofs`: `RioInvariant` joins the types, `NothingLost` and `WithinAsked`.
None of the three is inductive alone: a copy out of the buffer stays in order
only if the buffer follows on what was stored, the pointer stays inside the
buffer only because `rio_read` refills it when it is empty, and what a call has
room for bounds what it takes. `RioTypes`, `RioLosesNothing` and `RioStaysWithinAsked` are its parts.
`RioImplementsReader`: a call's reads and copies leave `LineReader`'s variables
alone, and at its return the invariant says that what it stored are the next
bytes, and as many as `LineReader` allows. `EchoSendsStream` is proved on top of it, from
`EchoInv`: what was sent and what the current write still has to send (`Sent`) is
what the calls of the line reader have taken, the NULs of lines without a newline
apart. What the next byte of the stream is after so many sent ones (`Due`) is read
off the last ones, so that no recursion over the output is needed.

`ResumeLog_proofs`: `ResumeLogInvariant`. `RoomToRead` and `OnlyLogsStarve` need
to know how many descriptors a process has at most at each place after so many
`.log`s (`Accounted`), and `TornInFirstCopy` which fields of `global_log` a copy in
progress has already made (`Copied`). The proof of a step is one lemma about the
process that takes it, since nothing but `.log` is shared, and the invariant
says nothing of that. `ResumeLogTypes`, `LogsAloneStarve`, `ReadlogHasRoom` and
`SavedLogIsKept` follow.

`FTP_proofs`: `ConversationTypes`, of every behaviour of `Spec`, ctrl-C
included. `TypeInv` adds to the types what connections may hold (`Asks` one way,
`Units` the other) and that an executant sends only a file of ./Server; eight
bytes read where a response is not are shown to leave units again.
`ConnectionsAreAttended`, also with ctrl-C, from `ConnInv`: an executant has a client
exactly when it is not in `accept`, its connection is open until it dies, no two
have the same (`Attending`), and a connection waits in the backlog once, exactly
when nobody has taken it (`Queued`).

`FTPCalm_proofs`: `PromptsInSync`, `BlocksAreFiled`, `UnansweredBlock` and
`PoolIsLostAbruptly`, all of `Spec`, from `QuietInv`. None of the four says enough
to follow from itself: that a block is the one of its place is known from what was
sent, and what was sent from how far the executant is. So `Conversing` says where
the two ends of a quiet connection are in one request: not read (`Asked`); read,
and answered with nothing or with one word (`Unanswered`); or so many blocks of
the file sent (`Streamed`), and then what is under way is what the client has not
read of the answer with those blocks (`Underway`) and the executant has the rest
to send (`HasSent`). `Undisturbed` says that neither end is at a place that only a
ctrl-C, a `.log`, a directory or a failure leads to. The step of a client or of an
executant on its own connection keeps both or makes the connection rough; the
steps on other connections, quiet or not, leave it `Untouched` (`ClientsKeepApart`,
`ExecutantsKeepApart`), which is where `ConnInv` is needed: a connection has one
executant, an executant one connection, and the backlog each connection once. Of
`.log` the invariant says nothing: whoever looks when it is there roughens the
connection by that very step.

`CalmInv` is `QuietInv` with no rough connection and no `.log`, and is invariant of
`CalmSpec`. `ServiceAsPromised` takes each step of `CalmSpec` to a step
of `FileService` or to none; `CalmInv` supplies that a client waiting for blocks
has an executant, that what it reads are the blocks of the file it asked for, and
that it stops reading when it has them all. `PromptAfterWholeFile` is then a fact
of the abstract steps (`Whole`), carried down by the refinement.

Model-checked only: the liveness properties (`TransferEnds`, `GetEnds`,
`ByeFreesExecutant`, `CtrlCStopsAll`, `NoIdleWait`, `StopIsClean`, `EveryClientEnds`,
`CallReturns`, `TurningEnds`), since the prover does neither fairness nor ENABLED,
and the runs that expect a violation. Every invariant and every other property
that a passing run checks is proved. What `FTP` promises a connection that is not
quiet is the types and `ConnectionsAreAttended`, and no more: the rest fails, as
section 3 shows.

## 5. What is not modelled

- The wrappers of `csapp.c` that no program of the repository calls (threads,
  semaphores, memory mapping, directories, `exec`, standard I/O of streams), and
  the same lines in its two copies: there is no state of this system in them.
- `get.c` and `utils.c` of `old/`, which are linked into nothing; `handler1` and
  `compteur`, which nothing uses.
- The printed transfer rate, `clock` and `usleep`; what `getaddrinfo` and
  `getnameinfo` resolve (only that they succeed or fail); memory, which the
  paths of `utils.c` never give back.
- The truncation of a path at 256 bytes, and files whose sizes do not fit an `int`
  (`traitement.c:144`; the negative sizes in `FTP` are those of directories): the sizes of `BlockTransfer` do not overflow, except where
  the wrapped product of the block size is again one of the unset counts.
- Two clients of Etape I in one directory, which write to one `import.txt`.
- `rio_writen` is modelled for a `write()` that makes progress or fails; one that
  returns 0, after which it looks at an `errno` nobody has set, does not happen on
  a socket with something to write.
- `.log` reaches a reader of `BlockTransfer` and of `ResumeLog` in one step; its
  window is in `FTP`. Descriptors do not run out in `FTP`; they do in `ResumeLog`.
