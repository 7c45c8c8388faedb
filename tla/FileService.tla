---------------------------- MODULE FileService ----------------------------
(***************************************************************************)
(* What users get of the service as long as nobody presses ctrl-C: clients *)
(* are served in the order they came, as many at a time as there are       *)
(* executants; a client comes back to its prompt when it has every block   *)
(* of the file it asked for, one after the other, and gives its executant  *)
(* back when it leaves.  That is all: nothing brings a client back from a  *)
(* put, an ls or a get of a file that does not exist.                      *)
(***************************************************************************)
EXTENDS Naturals, Sequences

CONSTANTS
  Clients, Executants,
  Blocks,       \* the files there are: name -> its size in blocks
  Commands,     \* what users type: a set of [cmd, file]
  Nothing,      \* what a client has asked for before it asks
  NoOne         \* the client of an executant that has none

VARIABLES
  at,           \* where each client is
  asked,        \* what its user typed last
  stored,       \* how many blocks of the file it asked for it has
  queue,        \* clients that nobody serves yet
  serves        \* the client of each executant

vars == <<at, asked, stored, queue, serves>>

Init ==
  /\ at = [c \in Clients |-> "away"]
  /\ asked = [c \in Clients |-> Nothing]
  /\ stored = [c \in Clients |-> 0]
  /\ queue = << >>
  /\ serves = [e \in Executants |-> NoOne]

Goes(c, place) == at' = [at EXCEPT ![c] = place]

Types(c, cmds) ==
  \E r \in Commands : r.cmd \in cmds /\ asked' = [asked EXCEPT ![c] = r]

Arrive(c) ==
  /\ at[c] = "away" /\ Goes(c, "prompt")
  /\ queue' = Append(queue, c)
  /\ UNCHANGED <<asked, stored, serves>>

Attend(e) ==
  /\ serves[e] = NoOne /\ queue # << >>
  /\ serves' = [serves EXCEPT ![e] = Head(queue)]
  /\ queue' = Tail(queue)
  /\ UNCHANGED <<at, asked, stored>>

Ask(c) ==
  /\ at[c] = "prompt" /\ Goes(c, "waits")
  /\ Types(c, {"get", "put", "ls"})
  /\ stored' = [stored EXCEPT ![c] = 0]
  /\ UNCHANGED <<queue, serves>>

(* What is not a request leaves the client where it is.                    *)
Mistype(c) ==
  /\ at[c] = "prompt"
  /\ Types(c, {"unknown", "nameless"})
  /\ UNCHANGED <<at, stored, queue, serves>>

Answered(c) ==
  /\ at[c] = "waits" /\ \E e \in Executants : serves[e] = c
  /\ asked[c].cmd = "get" /\ asked[c].file \in DOMAIN Blocks

Store(c) ==
  /\ Answered(c) /\ stored[c] < Blocks[asked[c].file]
  /\ stored' = [stored EXCEPT ![c] = @ + 1]
  /\ \/ UNCHANGED at
     \/ stored'[c] = Blocks[asked[c].file] /\ Goes(c, "prompt")
  /\ UNCHANGED <<asked, queue, serves>>

Finish(c) ==
  /\ Answered(c) /\ stored[c] = Blocks[asked[c].file]
  /\ Goes(c, "prompt")
  /\ UNCHANGED <<asked, stored, queue, serves>>

Leave(c) ==
  /\ at[c] = "prompt" /\ Goes(c, "gone")
  /\ Types(c, {"bye"})
  /\ UNCHANGED <<stored, queue, serves>>

Free(e) ==
  /\ \E c \in Clients : serves[e] = c /\ at[c] = "gone"
  /\ serves' = [serves EXCEPT ![e] = NoOne]
  /\ UNCHANGED <<at, asked, stored, queue>>

Next ==
  \/ \E c \in Clients : \/ Arrive(c) \/ Ask(c) \/ Mistype(c)
                        \/ Store(c) \/ Finish(c) \/ Leave(c)
  \/ \E e \in Executants : Attend(e) \/ Free(e)

Spec == Init /\ [][Next]_vars

(* A client that prompts after a get has the whole file.                   *)
PromptMeansWhole ==
  \A c \in Clients :
    at[c] = "prompt" /\ asked[c].cmd = "get" /\ asked[c].file \in DOMAIN Blocks
      => stored[c] = Blocks[asked[c].file]

=============================================================================
