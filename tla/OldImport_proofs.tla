-------------------------- MODULE OldImport_proofs --------------------------
(***************************************************************************)
(* What a client of Etape I finds in import.txt, for any number of         *)
(* executants, clients and files: where the two ends of each connection    *)
(* are in their one GET.                                                   *)
(***************************************************************************)
EXTENDS OldFTP_proofs, SequenceTheorems

Talking == {"greeting", "type", "name", "skip", "open", "send"}

(* An executant serves a client exactly while it talks, each a client of   *)
(* its own, and the connections that are open are those that are served.   *)
Serving ==
  /\ \A e \in Slots :
       /\ exec[e].serves # None <=> exec[e].pc \in Talking
       /\ exec[e].serves # None => conn[exec[e].serves].end = "open"
       /\ exec[e].pc # "send" => exec[e].sent = 0
  /\ \A e, d \in Slots : exec[e].serves = exec[d].serves /\ e # d => exec[e].serves = None
  /\ \A c \in Clients : conn[c].end = "open" => \E e \in Slots : exec[e].serves = c

(* A connection waits once, before it is accepted.                         *)
Queueing ==
  /\ \A k \in DOMAIN backlog : conn[backlog[k]].end = "queued"
  /\ \A k, l \in DOMAIN backlog : backlog[k] = backlog[l] => k = l

(* main never forks where an executant is.                                 *)
NotYetForked ==
  /\ mpc = "listen" => \A e \in Slots : exec[e].pc = "none"
  /\ mpc = "fork" => \A e \in Slots : e >= i => exec[e].pc = "none"

(* The first k bytes of a file.                                            *)
Prefix(f, k) == SubSeq(File(f), 1, k)

(* What a client has written of its request.                               *)
Written(c) ==
  IF client[c].pc = "type" THEN <<>>
  ELSE IF client[c].pc = "name" THEN <<"GET">>
  ELSE <<"GET", client[c].file>>

(* Nothing of the request is read ...                                      *)
Unread(c) ==
  /\ conn[c].up \in {<<>>, <<"GET">>} \cup {<<"GET", f>> : f \in Names}
  /\ ~ Left(c) => /\ client[c].pc \in {"type", "name", "status"}
                  /\ conn[c].up = Written(c) /\ conn[c].down = <<>>

(* ... or its first part is.                                               *)
TypeRead(c) ==
  /\ conn[c].up \in {<<>>} \cup {<<f>> : f \in Names}
  /\ ~ Left(c) => /\ client[c].pc \in {"name", "status"}
                  /\ conn[c].up = Tail(Written(c)) /\ conn[c].down = <<>>

(* How much of the file a client asks for there can be.                    *)
Offsets(c) ==
  IF client[c].file \in DOMAIN Size THEN 0 .. Size[client[c].file] ELSE {}

Whole(c, k) == k = Size[client[c].file]

(* k bytes of the file have been sent: they are in import.txt or under way.*)
Streamed(c, k) ==
  \/ client[c].pc = "status" /\ conn[c].down = <<Found>> \o Prefix(client[c].file, k)
  \/ client[c].pc = "receive" /\ import[c] \o conn[c].down = Prefix(client[c].file, k)

Unanswered(c) == conn[c].down = <<>> /\ (client[c].pc = "receive" => import[c] = <<>>)

TalksTo(e, c) ==
  /\ exec[e].pc \in {"greeting", "type"} => Unread(c)
  /\ exec[e].pc = "name" => TypeRead(c)
  /\ ~ Left(c) =>
       /\ exec[e].pc # "skip"
       /\ exec[e].pc \in {"open", "send"} => exec[e].file = client[c].file
       /\ exec[e].pc = "open" => client[c].pc = "status" /\ conn[c].down = <<>>
       /\ exec[e].pc = "send" => exec[e].sent \in Offsets(c) /\ Streamed(c, exec[e].sent)

(* The server's end is closed: nothing was sent, or some, or all of it.    *)
HasEnded(c) ==
  /\ ~ Left(c)
  /\ \/ c \in cut /\ Unanswered(c)
     \/ \E k \in Offsets(c) : Streamed(c, k) /\ (c \notin cut => Whole(c, k))

Copied(c) ==
  \/ c \in cut /\ import[c] = <<>>
  \/ \E k \in Offsets(c) :
       import[c] = Prefix(client[c].file, k) /\ (c \notin cut => Whole(c, k))

(* Where a client is, and its connection with it.                          *)
Conversing(c) ==
  /\ ~ Left(c) => conn[c].end # "none"
  /\ client[c].pc # "shell" => client[c].file \in Names
  /\ conn[c].end = "queued" => Unread(c)
  /\ Ended(c) => HasEnded(c)
  /\ client[c].pc = "done" => Copied(c)
  /\ \A e \in Slots : exec[e].serves = c => TalksTo(e, c)

ServerSide == Serving /\ Queueing /\ NotYetForked

ImportInv ==
  /\ TypeOK /\ PapaInv /\ ServerSide
  /\ \A c \in Clients : Conversing(c)

-----------------------------------------------------------------------------
(* Files and what is cut out of them.                                      *)

LEMMA FileIsBytes ==
  ASSUME NEW f \in DOMAIN Size
  PROVE  /\ Size[f] \in Nat
         /\ File(f) \in Seq(Bytes) /\ Len(File(f)) = Size[f]
<1>1. Size[f] \in Nat
  BY OldAssumption
<1>2. \A k \in 1 .. Size[f] : <<f, k - 1>> \in Bytes
  BY <1>1 DEF Bytes
<1>3. File(f) \in [1 .. Size[f] -> Bytes]
  BY <1>2 DEF File
<1> QED
  BY <1>1, <1>3, SeqDef

LEMMA PrefixIsBytes ==
  ASSUME NEW f \in DOMAIN Size, NEW k \in 0 .. Size[f]
  PROVE  /\ Prefix(f, k) \in Seq(Bytes) /\ Len(Prefix(f, k)) = k
         /\ \A j \in 1 .. k : Prefix(f, k)[j] = File(f)[j]
<1>1. Size[f] \in Nat /\ File(f) \in Seq(Bytes) /\ Len(File(f)) = Size[f]
  BY FileIsBytes
<1>2. \A j \in 1 .. k : File(f)[j] \in Bytes
  BY <1>1, ElementOfSeq
<1> QED
  BY <1>1, <1>2, SubSeqProperties DEF Prefix

LEMMA PrefixEnds ==
  ASSUME NEW f \in DOMAIN Size
  PROVE  Prefix(f, 0) = <<>> /\ Prefix(f, Size[f]) = File(f)
<1>1. Size[f] \in Nat /\ File(f) \in Seq(Bytes) /\ Len(File(f)) = Size[f]
  BY FileIsBytes
<1>2. Prefix(f, 0) = <<>>
  BY SubSeqEmpty DEF Prefix
<1>3. SubSeq(File(f), 1, Len(File(f))) = File(f)
  BY <1>1, SubSeqFull
<1> QED
  BY <1>1, <1>2, <1>3 DEF Prefix

(* What a write() adds to what was written.                                *)
LEMMA PrefixGrows ==
  ASSUME NEW f \in DOMAIN Size, NEW k \in 0 .. Size[f], NEW n \in 1 .. Size[f] - k
  PROVE  /\ SubSeq(File(f), k + 1, k + n) \in Seq(Bytes)
         /\ Prefix(f, k) \o SubSeq(File(f), k + 1, k + n) = Prefix(f, k + n)
         /\ k + n \in 0 .. Size[f]
<1>1. Size[f] \in Nat /\ File(f) \in Seq(Bytes) /\ Len(File(f)) = Size[f]
  BY FileIsBytes
<1>2. \A j \in k + 1 .. k + n : File(f)[j] \in Bytes
  BY <1>1, ElementOfSeq
<1>3. SubSeq(File(f), k + 1, k + n) \in Seq(Bytes)
  BY <1>1, <1>2, SubSeqProperties
<1>4. SubSeq(File(f), 1, k) \o SubSeq(File(f), k + 1, k + n) = SubSeq(File(f), 1, k + n)
  BY <1>1, ConcatAdjacentSubSeq
<1> QED
  BY <1>1, <1>3, <1>4 DEF Prefix

(* What a read takes, and what it leaves.                                  *)
LEMMA ReadCuts ==
  ASSUME NEW S, NEW s \in Seq(S), NEW r \in 0 .. Len(s)
  PROVE  /\ SubSeq(s, 1, r) \in Seq(S) /\ SubSeq(s, r + 1, Len(s)) \in Seq(S)
         /\ SubSeq(s, 1, r) \o SubSeq(s, r + 1, Len(s)) = s
<1>1. /\ \A j \in 1 .. r : s[j] \in S
      /\ \A j \in r + 1 .. Len(s) : s[j] \in S
  BY ElementOfSeq
<1>2. Len(s) \in Nat
  BY LenProperties
<1>3. SubSeq(s, 1, r) \in Seq(S) /\ SubSeq(s, r + 1, Len(s)) \in Seq(S)
  BY <1>1, <1>2, SubSeqProperties
<1>4. SubSeq(s, 1, r) \o SubSeq(s, r + 1, Len(s)) = SubSeq(s, 1, Len(s))
  <2>1. 1 \in 1 .. Len(s) + 1 /\ r \in 1 - 1 .. Len(s) /\ Len(s) \in r .. Len(s)
    BY <1>2
  <2> HIDE <1>2
  <2> QED
    BY <2>1, ConcatAdjacentSubSeq
<1> QED
  BY <1>3, <1>4, SubSeqFull

(* What comes before a whole of bytes is bytes, and so is what comes after.*)
LEMMA PartsOfBytes ==
  ASSUME NEW S, NEW T, NEW a \in Seq(T), NEW b \in Seq(T), a \o b \in Seq(S)
  PROVE  a \in Seq(S) /\ b \in Seq(S)
<1>1. /\ Len(a) \in Nat /\ Len(b) \in Nat /\ Len(a \o b) = Len(a) + Len(b)
      /\ \A j \in 1 .. Len(a) + Len(b) :
           (a \o b)[j] = IF j <= Len(a) THEN a[j] ELSE b[j - Len(a)]
  BY ConcatProperties, LenProperties
<1>2. \A j \in 1 .. Len(a) + Len(b) : (a \o b)[j] \in S
  BY <1>1, ElementOfSeq
<1>3. \A j \in 1 .. Len(a) : a[j] \in S
  <2> TAKE j \in 1 .. Len(a)
  <2> QED
    BY <1>1, <1>2
<1>4. \A j \in 1 .. Len(b) : b[j] \in S
  <2> TAKE j \in 1 .. Len(b)
  <2>1. /\ Len(a) + j \in 1 .. Len(a) + Len(b) /\ ~ (Len(a) + j <= Len(a))
        /\ (Len(a) + j) - Len(a) = j
    BY <1>1
  <2> QED
    BY <1>1, <1>2, <2>1
<1>5. a \in [1 .. Len(a) -> S] /\ b \in [1 .. Len(b) -> S]
  <2>1. a \in [1 .. Len(a) -> T] /\ b \in [1 .. Len(b) -> T]
    BY LenProperties
  <2> QED
    BY <1>3, <1>4, <2>1
<1> QED
  BY <1>1, <1>5, SeqDef

LEMMA BeginsWith ==
  ASSUME NEW f \in DOMAIN Size, NEW k \in 0 .. Size[f],
         NEW a \in Seq(Bytes), NEW b \in Seq(Bytes), a \o b = Prefix(f, k)
  PROVE  Len(a) \in 0 .. Size[f] /\ a = Prefix(f, Len(a))
<1>1. /\ Len(a) \in Nat /\ Len(b) \in Nat /\ Len(a) + Len(b) = k /\ Size[f] \in Nat
      /\ \A j \in 1 .. Len(a) : (a \o b)[j] = a[j]
  <2>1. Len(a \o b) = k
    BY PrefixIsBytes
  <2>2. /\ Len(a) \in Nat /\ Len(b) \in Nat /\ Len(a \o b) = Len(a) + Len(b)
        /\ \A j \in 1 .. Len(a) + Len(b) :
             (a \o b)[j] = IF j <= Len(a) THEN a[j] ELSE b[j - Len(a)]
    BY ConcatProperties, LenProperties
  <2> QED
    BY <2>1, <2>2, FileIsBytes
<1>2. Len(a) \in 0 .. Size[f] /\ Len(a) \in 0 .. k
  BY <1>1
<1>3. \A j \in 1 .. Len(a) : a[j] = File(f)[j]
  BY <1>1, <1>2, PrefixIsBytes
<1>4. /\ Prefix(f, Len(a)) \in Seq(Bytes) /\ Len(Prefix(f, Len(a))) = Len(a)
      /\ \A j \in 1 .. Len(a) : Prefix(f, Len(a))[j] = File(f)[j]
  BY <1>2, PrefixIsBytes
<1>5. \A j \in 1 .. Len(a) : a[j] = Prefix(f, Len(a))[j]
  BY <1>3, <1>4
<1> QED
  BY <1>2, <1>4, <1>5, SeqEqual

-----------------------------------------------------------------------------
(* Who serves whom.                                                        *)

LEMMA ExecutantType ==
  ASSUME TypeOK, NEW e \in Slots
  PROVE  /\ exec[e].serves \in Clients \cup {None} /\ exec[e].file \in Names \cup {None}
         /\ exec[e].sent \in Nat
         /\ exec[e] = [pc |-> exec[e].pc, serves |-> exec[e].serves,
                       file |-> exec[e].file, sent |-> exec[e].sent]
BY DEF TypeOK

(* An executant goes on with the client it serves.                         *)
LEMMA CarriesOn ==
  ASSUME TypeOK, ServerSide, NEW e \in Slots, exec[e].pc \in Talking,
         NEW r, exec' = [exec EXCEPT ![e] = r], r.serves = exec[e].serves,
         r.pc \in Talking, r.pc # "send" => r.sent = 0,
         \A c \in Clients : conn'[c].end = conn[c].end,
         backlog' = backlog, UNCHANGED mainvars
  PROVE  ServerSide'
<1>1. exec'[e] = r /\ \A d \in Slots \ {e} : exec'[d] = exec[d]
  BY DEF TypeOK
<1>2. \A d \in Slots : exec'[d].serves = exec[d].serves
  BY <1>1
<1>3. \A d \in Slots : exec[d].serves # None => exec[d].serves \in Clients
  BY ExecutantType
<1>4. Serving'
  BY <1>1, <1>2, <1>3 DEF ServerSide, Serving
<1>5. \A k \in DOMAIN backlog : backlog[k] \in Clients
  BY ElementOfSeq, LenProperties DEF TypeOK
<1>6. Queueing'
  BY <1>5 DEF ServerSide, Queueing
<1>7. NotYetForked'
  BY <1>1 DEF ServerSide, NotYetForked, Talking, mainvars
<1> QED
  BY <1>4, <1>6, <1>7 DEF ServerSide

(* The connections K are closed at the server's end.                       *)
LEMMA ConnectionsClose ==
  ASSUME TypeOK, ServerSide, NEW K \in SUBSET Clients,
         conn' = [c \in Clients |-> IF c \in K THEN Shut(c) ELSE conn[c]],
         \A d \in Slots :
           \/ exec'[d] = exec[d] /\ exec[d].serves \notin K
           \/ /\ exec[d].serves \in K \cup {None}
              /\ exec'[d].serves = None /\ exec'[d].pc \notin Talking /\ exec'[d].sent = 0,
         backlog' = <<>> \/ (backlog' = backlog /\ \A k \in DOMAIN backlog : backlog[k] \notin K),
         NotYetForked'
  PROVE  ServerSide'
<1>1. \A c \in K : conn'[c].end \in {"none", "closed", "reset"}
  BY DEF Shut, Link
<1>2. \A c \in Clients \ K : conn'[c] = conn[c]
  OBVIOUS
<1>3. \A d \in Slots : exec[d].serves # None => exec[d].serves \in Clients
  BY ExecutantType
<1>4. \A e \in Slots : /\ exec'[e].serves # None <=> exec'[e].pc \in Talking
                       /\ exec'[e].serves # None => conn'[exec'[e].serves].end = "open"
                       /\ exec'[e].pc # "send" => exec'[e].sent = 0
  <2> TAKE e \in Slots
  <2>1. CASE exec'[e] = exec[e] /\ exec[e].serves \notin K
    BY <1>2, <1>3, <2>1 DEF ServerSide, Serving
  <2>2. CASE exec'[e].serves = None /\ exec'[e].pc \notin Talking /\ exec'[e].sent = 0
    BY <2>2
  <2> QED
    BY <2>1, <2>2
<1>5. \A e, d \in Slots :
        exec'[e].serves = exec'[d].serves /\ e # d => exec'[e].serves = None
  BY DEF ServerSide, Serving
<1>6. \A c \in Clients : conn'[c].end = "open" => \E e \in Slots : exec'[e].serves = c
  <2> SUFFICES ASSUME NEW c \in Clients, conn'[c].end = "open"
               PROVE  \E e \in Slots : exec'[e].serves = c
    OBVIOUS
  <2>1. c \notin K /\ conn[c].end = "open"
    BY <1>1, <1>2
  <2>2. PICK e \in Slots : exec[e].serves = c
    BY <2>1 DEF ServerSide, Serving
  <2>3. c # None
    BY OldAssumption
  <2> QED
    BY <2>1, <2>2, <2>3
<1>7. Queueing'
  <2>1. \A k \in DOMAIN backlog : backlog[k] \in Clients
    BY ElementOfSeq, LenProperties DEF TypeOK
  <2>2. CASE backlog' = <<>>
    BY <2>2 DEF Queueing
  <2>3. CASE backlog' = backlog /\ \A k \in DOMAIN backlog : backlog[k] \notin K
    BY <1>2, <2>1, <2>3 DEF ServerSide, Queueing
  <2> QED
    BY <2>2, <2>3
<1> QED
  BY <1>4, <1>5, <1>6, <1>7 DEF ServerSide, Serving

(* A step of a client neither opens a connection nor takes one that waits. *)
LEMMA ClientsConnectionsStay ==
  ASSUME TypeOK, ServerSide, UNCHANGED <<mainvars, exec, backlog>>,
         \A c \in Clients :
           \/ conn'[c].end = conn[c].end
           \/ {conn[c].end, conn'[c].end} \cap {"open", "queued"} = {}
  PROVE  ServerSide'
<1>1. \A d \in Slots : exec[d].serves # None => exec[d].serves \in Clients
  BY ExecutantType
<1>2. \A k \in DOMAIN backlog : backlog[k] \in Clients
  BY ElementOfSeq, LenProperties DEF TypeOK
<1>3. \A c \in Clients : /\ conn[c].end = "open" <=> conn'[c].end = "open"
                         /\ conn[c].end = "queued" => conn'[c].end = "queued"
  OBVIOUS
<1> QED
  BY <1>1, <1>2, <1>3 DEF ServerSide, Serving, Queueing, NotYetForked, mainvars

LEMMA BacklogOfClients ==
  ASSUME TypeOK
  PROVE  /\ Len(backlog) \in Nat /\ DOMAIN backlog = 1 .. Len(backlog)
         /\ \A k \in DOMAIN backlog : backlog[k] \in Clients
         /\ backlog # <<>> =>
              /\ Head(backlog) = backlog[1] /\ 1 \in DOMAIN backlog
              /\ Tail(backlog) \in Seq(Clients)
              /\ DOMAIN Tail(backlog) = 1 .. Len(backlog) - 1
              /\ \A k \in DOMAIN Tail(backlog) : Tail(backlog)[k] = backlog[k + 1]
<1>1. backlog \in Seq(Clients)
  BY DEF TypeOK
<1>2. Len(backlog) \in Nat /\ DOMAIN backlog = 1 .. Len(backlog)
  BY <1>1, LenProperties
<1>3. \A k \in DOMAIN backlog : backlog[k] \in Clients
  BY <1>1, <1>2, ElementOfSeq
<1>4. ASSUME backlog # <<>>
      PROVE  /\ Tail(backlog) \in Seq(Clients) /\ Len(Tail(backlog)) = Len(backlog) - 1
             /\ \A k \in 1 .. Len(Tail(backlog)) : Tail(backlog)[k] = backlog[k + 1]
  BY <1>1, <1>4, HeadTailProperties
<1>5. backlog # <<>> => DOMAIN Tail(backlog) = 1 .. Len(Tail(backlog))
  BY <1>4, LenProperties
<1>6. backlog # <<>> => Len(backlog) # 0
  BY <1>1, EmptySeq
<1> QED
  BY <1>1, <1>2, <1>3, <1>4, <1>5, <1>6

LEMMA AcceptServes ==
  ASSUME TypeOK, ServerSide, NEW e \in Slots, Accept(e)
  PROVE  ServerSide'
<1> DEFINE a == Head(backlog)
<1>1. /\ a \in Clients /\ a # None /\ a = backlog[1] /\ 1 \in DOMAIN backlog
      /\ conn[a].end = "queued"
  BY BacklogOfClients, OldAssumption DEF Accept, ServerSide, Queueing
<1>2. /\ exec'[e] = With("greeting", a, None)
      /\ \A d \in Slots \ {e} : exec'[d] = exec[d]
  BY DEF Accept, TypeOK
<1>3. /\ conn'[a].end = "open"
      /\ \A c \in Clients \ {a} : conn'[c] = conn[c]
  BY <1>1 DEF Accept, TypeOK
<1>4. \A d \in Slots : exec[d].serves # None => exec[d].serves \in Clients \ {a}
  BY <1>1, ExecutantType DEF ServerSide, Serving
<1>5. Serving'
  <2>1. /\ exec'[e].serves = a /\ exec'[e].pc \in Talking /\ exec'[e].sent = 0
    BY <1>2 DEF With, Talking
  <2>2. \A d \in Slots : /\ exec'[d].serves # None <=> exec'[d].pc \in Talking
                         /\ exec'[d].serves # None => conn'[exec'[d].serves].end = "open"
                         /\ exec'[d].pc # "send" => exec'[d].sent = 0
    BY <1>1, <1>2, <1>3, <1>4, <2>1 DEF ServerSide, Serving
  <2>3. \A d, g \in Slots :
          exec'[d].serves = exec'[g].serves /\ d # g => exec'[d].serves = None
    BY <1>1, <1>2, <1>4, <2>1 DEF ServerSide, Serving
  <2>4. \A c \in Clients : conn'[c].end = "open" => \E d \in Slots : exec'[d].serves = c
    <3> SUFFICES ASSUME NEW c \in Clients \ {a}, conn'[c].end = "open"
                 PROVE  \E d \in Slots : exec'[d].serves = c
      BY <2>1
    <3>1. PICK d \in Slots : exec[d].serves = c
      BY <1>3 DEF ServerSide, Serving
    <3>2. d # e
      BY <3>1, OldAssumption DEF ServerSide, Serving, Accept, Talking
    <3> QED
      BY <1>2, <3>1, <3>2
  <2> QED
    BY <2>2, <2>3, <2>4 DEF Serving
<1>6. Queueing'
  <2>1. /\ DOMAIN backlog = 1 .. Len(backlog) /\ Len(backlog) \in Nat
        /\ backlog' = Tail(backlog) /\ DOMAIN backlog' = 1 .. Len(backlog) - 1
        /\ \A k \in DOMAIN backlog' : backlog'[k] = backlog[k + 1]
        /\ \A k \in DOMAIN backlog : backlog[k] \in Clients
    BY BacklogOfClients DEF Accept
  <2>2. \A k \in DOMAIN backlog' : /\ k + 1 \in DOMAIN backlog /\ k + 1 # 1
                                   /\ backlog'[k] \in Clients \ {a}
    BY <1>1, <2>1 DEF ServerSide, Queueing
  <2>3. \A k \in DOMAIN backlog' : conn'[backlog'[k]].end = "queued"
    BY <1>3, <2>1, <2>2 DEF ServerSide, Queueing
  <2>4. \A k, l \in DOMAIN backlog' : backlog'[k] = backlog'[l] => k = l
    BY <2>1, <2>2 DEF ServerSide, Queueing
  <2> QED
    BY <2>3, <2>4 DEF Queueing
<1>7. NotYetForked'
  BY <1>2 DEF ServerSide, NotYetForked, Accept, mainvars
<1> QED
  BY <1>5, <1>6, <1>7 DEF ServerSide

LEMMA ConnectQueues ==
  ASSUME TypeOK, ServerSide, NEW c \in Clients, Connect(c)
  PROVE  ServerSide'
<1>1. /\ conn[c].end = "none" /\ conn'[c].end = "queued"
      /\ \A d \in Clients \ {c} : conn'[d] = conn[d]
      /\ exec' = exec /\ UNCHANGED mainvars /\ backlog' = Append(backlog, c)
  BY DEF Connect, Connected, Link, TypeOK
<1>2. \A d \in Slots : exec[d].serves # None => exec[d].serves \in Clients \ {c}
  BY <1>1, ExecutantType DEF ServerSide, Serving
<1>3. Serving'
  BY <1>1, <1>2 DEF ServerSide, Serving
<1>4. Queueing'
  <2>1. /\ Len(backlog) \in Nat /\ DOMAIN backlog = 1 .. Len(backlog)
        /\ \A k \in DOMAIN backlog : backlog[k] \in Clients \ {c}
    BY <1>1, BacklogOfClients DEF ServerSide, Queueing
  <2>2. /\ DOMAIN backlog' = 1 .. Len(backlog) + 1
        /\ \A k \in DOMAIN backlog : backlog'[k] = backlog[k]
        /\ backlog'[Len(backlog) + 1] = c
    BY <1>1, <2>1, AppendProperties, LenProperties DEF TypeOK
  <2>3. \A k \in DOMAIN backlog' : k \in DOMAIN backlog \/ k = Len(backlog) + 1
    BY <2>1, <2>2
  <2>4. \A k \in DOMAIN backlog' : conn'[backlog'[k]].end = "queued"
    BY <1>1, <2>1, <2>2, <2>3 DEF ServerSide, Queueing
  <2>5. \A k, l \in DOMAIN backlog' : backlog'[k] = backlog'[l] => k = l
    BY <2>1, <2>2, <2>3 DEF ServerSide, Queueing
  <2> QED
    BY <2>4, <2>5 DEF Queueing
<1>5. NotYetForked'
  BY <1>1 DEF ServerSide, NotYetForked, mainvars
<1> QED
  BY <1>3, <1>4, <1>5 DEF ServerSide

(* main forks, and reaps, executants that serve nobody.                    *)
LEMMA MainServesNobody ==
  ASSUME TypeOK, ServerSide, UNCHANGED <<conn, backlog>>, NotYetForked',
         \A d \in Slots : \/ exec'[d] = exec[d]
                          \/ /\ exec[d].serves = None
                             /\ exec'[d].serves = None /\ exec'[d].pc \notin Talking
                             /\ exec'[d].sent = 0
  PROVE  ServerSide'
<1>1. Serving'
  <2>1. \A c \in Clients : conn[c].end = "open" => \E e \in Slots : exec'[e].serves = c
    BY OldAssumption DEF ServerSide, Serving
  <2>2. \A e, d \in Slots :
          exec'[e].serves = exec'[d].serves /\ e # d => exec'[e].serves = None
    BY DEF ServerSide, Serving
  <2> QED
    BY <2>1, <2>2 DEF ServerSide, Serving
<1> QED
  BY <1>1 DEF ServerSide, Queueing

-----------------------------------------------------------------------------
(* What the two ends say.                                                  *)

(* The conversations of others go on as they were.                         *)
LEMMA Undisturbed ==
  ASSUME NEW c \in Clients, Conversing(c),
         client'[c] = client[c], conn'[c] = conn[c], import'[c] = import[c],
         c \in cut => c \in cut',
         \A e \in Slots : exec'[e].serves = c => exec'[e] = exec[e]
  PROVE  Conversing(c)'
<1>1. /\ Left(c)' <=> Left(c)
      /\ Unread(c)' <=> Unread(c)
      /\ TypeRead(c)' <=> TypeRead(c)
      /\ Offsets(c)' = Offsets(c)
      /\ \A k : Streamed(c, k)' <=> Streamed(c, k)
      /\ \A k : Whole(c, k)' <=> Whole(c, k)
      /\ Unanswered(c)' <=> Unanswered(c)
  BY DEF Left, Unread, Written, TypeRead, Offsets, Streamed, Whole, Unanswered
<1>2. \A e \in Slots : exec'[e].serves = c => TalksTo(e, c)'
  BY <1>1 DEF Conversing, TalksTo
<1>3. Ended(c)' => HasEnded(c)'
  BY <1>1 DEF Conversing, Ended, HasEnded
<1>4. client'[c].pc = "done" => Copied(c)'
  BY <1>1 DEF Conversing, Copied
<1> QED
  BY <1>1, <1>2, <1>3, <1>4 DEF Conversing

(* What there is of the answer when the server's end is closed.            *)
Answered(c) ==
  \/ c \in cut' /\ Unanswered(c)
  \/ \E k \in Offsets(c) : Streamed(c, k) /\ (c \notin cut' => Whole(c, k))

LEMMA Shutting ==
  ASSUME NEW c \in Clients, Conversing(c), conn'[c] = Shut(c),
         client'[c] = client[c], import'[c] = import[c],
         c \in cut => c \in cut', Left(c) \/ Answered(c),
         \A e \in Slots : exec'[e].serves # c
  PROVE  Conversing(c)'
<1>1. /\ Left(c)' <=> Left(c)
      /\ conn'[c].down = conn[c].down \/ Left(c)
      /\ Ended(c)' <=> ~ Left(c)
      /\ conn'[c].end # "queued"
      /\ ~ Left(c) => conn'[c].end # "none"
  BY DEF Left, Shut, Link, Ended
<1>2. ~ Left(c) => /\ Offsets(c)' = Offsets(c)
                   /\ \A k : Streamed(c, k)' <=> Streamed(c, k)
                   /\ \A k : Whole(c, k)' <=> Whole(c, k)
                   /\ Unanswered(c)' <=> Unanswered(c)
  BY <1>1 DEF Offsets, Streamed, Whole, Unanswered
<1>3. Ended(c)' => HasEnded(c)'
  BY <1>1, <1>2 DEF HasEnded, Answered
<1>4. client'[c].pc = "done" => Copied(c)'
  BY DEF Conversing, Copied, Offsets, Whole
<1> QED
  BY <1>1, <1>3, <1>4 DEF Conversing

(* A process ends before it has answered, or in the middle of it.          *)
LEMMA CutOff ==
  ASSUME TypeOK, ServerSide, NEW c \in Clients, Conversing(c),
         conn[c].end \in {"queued", "open"}, c \in cut'
  PROVE  Left(c) \/ Answered(c)
<1> SUFFICES ASSUME ~ Left(c)
             PROVE  Answered(c)
  OBVIOUS
<1>1. CASE conn[c].end = "queued"
  BY <1>1 DEF Conversing, Unread, Answered, Unanswered
<1>2. CASE conn[c].end = "open"
  <2>1. PICK e \in Slots : exec[e].serves = c
    BY <1>2 DEF ServerSide, Serving
  <2>2. exec[e].pc \in Talking /\ TalksTo(e, c)
    BY <2>1, OldAssumption DEF ServerSide, Serving, Conversing
  <2>3. CASE exec[e].pc = "send"
    BY <2>2, <2>3 DEF TalksTo, Answered
  <2>4. CASE exec[e].pc # "send"
    BY <2>2, <2>4 DEF Talking, TalksTo, Unread, TypeRead, Answered, Unanswered
  <2> QED
    BY <2>3, <2>4
<1> QED
  BY <1>1, <1>2

-----------------------------------------------------------------------------
(* Steps of the server's processes.                                        *)

(* What a process that ends does to the connections.                       *)
LEMMA ReleaseKeepsInv ==
  ASSUME ImportInv, NEW p \in {0} \cup Slots, Release(p), UNCHANGED <<client, import>>,
         \A d \in Slots : \/ exec'[d] = exec[d] /\ d # p
                          \/ exec'[d].serves = None /\ exec'[d].pc \notin Talking
                             /\ exec'[d].sent = 0 /\ d = p,
         NotYetForked'
  PROVE  ServerSide' /\ \A c \in Clients : Conversing(c)'
<1> DEFINE
  served == {exec[e].serves : e \in {p} \cap Slots} \ {None}
  last == Holders \subseteq {p}
  K == served \cup IF last THEN {backlog[k] : k \in DOMAIN backlog} ELSE {}
<1>1. /\ conn' = [c \in Clients |-> IF c \in K THEN Shut(c) ELSE conn[c]]
      /\ backlog' = IF last THEN <<>> ELSE backlog
      /\ cut' = cut \cup K
  BY DEF Release
<1>2. TypeOK /\ ServerSide /\ \A c \in Clients : Conversing(c)
  BY DEF ImportInv
<1>3. \A k \in DOMAIN backlog : backlog[k] \in Clients /\ conn[backlog[k]].end = "queued"
  BY <1>2, BacklogOfClients DEF ServerSide, Queueing
<1>4. \A c \in served : /\ c \in Clients /\ conn[c].end = "open"
                        /\ p \in Slots /\ exec[p].serves = c
  <2> TAKE c \in served
  <2>1. p \in Slots /\ exec[p].serves = c /\ c # None
    OBVIOUS
  <2> QED
    BY <1>2, <2>1, ExecutantType DEF ServerSide, Serving
<1>5. K \in SUBSET Clients
  BY <1>3, <1>4
<1>6. \A d \in Slots \ {p} : exec[d].serves \notin K
  <2> SUFFICES ASSUME NEW d \in Slots \ {p}, exec[d].serves \in K
               PROVE  FALSE
    OBVIOUS
  <2>1. exec[d].serves \in Clients /\ exec[d].serves # None
    BY <1>5, OldAssumption
  <2>2. conn[exec[d].serves].end = "open"
    BY <1>2, <2>1 DEF ServerSide, Serving
  <2>3. exec[d].serves \in served
    BY <1>3, <2>2
  <2> QED
    BY <1>2, <1>4, <2>1, <2>3 DEF ServerSide, Serving
<1>7. \A d \in Slots :
        \/ exec'[d] = exec[d] /\ exec[d].serves \notin K
        \/ /\ exec[d].serves \in K \cup {None}
           /\ exec'[d].serves = None /\ exec'[d].pc \notin Talking /\ exec'[d].sent = 0
  BY <1>6
<1>8. last \/ \A k \in DOMAIN backlog : backlog[k] \notin K
  BY <1>3, <1>4
<1>9. ServerSide'
  <2> HIDE DEF K, served, last
  <2>1. backlog' = <<>> \/ (backlog' = backlog /\ \A k \in DOMAIN backlog : backlog[k] \notin K)
    BY <1>1, <1>8
  <2> QED
    BY <1>1, <1>2, <1>5, <1>7, <2>1, ConnectionsClose
<1>10. ASSUME NEW c \in K PROVE Conversing(c)'
  <2>1. c \in Clients /\ conn[c].end \in {"queued", "open"} /\ c \in cut'
    BY <1>1, <1>3, <1>4, <1>5
  <2>2. conn'[c] = Shut(c)
    BY <1>1, <2>1
  <2>3. \A d \in Slots : exec'[d].serves # c
    BY <1>7, <2>1, OldAssumption
  <2> QED
    BY <1>2, <2>1, <2>2, <2>3, CutOff, Shutting
<1>11. ASSUME NEW c \in Clients \ K PROVE Conversing(c)'
  <2>1. conn'[c] = conn[c] /\ (c \in cut => c \in cut')
    BY <1>1
  <2>2. \A d \in Slots : exec'[d].serves = c => exec'[d] = exec[d]
    BY <1>7, OldAssumption
  <2> QED
    BY <1>2, <2>1, <2>2, Undisturbed
<1> QED
  BY <1>9, <1>10, <1>11

-----------------------------------------------------------------------------
(* Steps of an executant with its client.                                  *)

Executants ==
  [pc : {"none", "accept", "greeting", "type", "name", "skip", "open", "send", "zombie", "reaped"},
   serves : Clients \cup {None}, file : Names \cup {None}, sent : Nat]

Links ==
  [end : {"none", "queued", "open", "closed", "reset"},
   up : Seq(Parts), down : Seq({Found} \cup Bytes)]

LEMMA StepTypes ==
  ASSUME TypeOK, NEW e \in Slots, NEW r \in Executants, exec' = [exec EXCEPT ![e] = r],
         r.pc = "send" => r.file \in DOMAIN Size /\ r.sent <= Size[r.file],
         NEW c \in Clients, NEW l \in Links, conn' = [conn EXCEPT ![c] = l],
         backlog' \in Seq(Clients), UNCHANGED <<mainvars, pending, cut, client, import>>
  PROVE  TypeOK'
<1>1. exec \in [Slots -> Executants] /\ conn \in [Clients -> Links]
  BY DEF TypeOK, Executants, Links
<1>2. exec' \in [Slots -> Executants] /\ conn' \in [Clients -> Links]
  BY <1>1
<1>3. \A d \in Slots : exec'[d] = IF d = e THEN r ELSE exec[d]
  BY <1>1
<1>4. \A d \in Slots : exec'[d].pc = "send" =>
        exec'[d].file \in DOMAIN Size /\ exec'[d].sent <= Size[exec'[d].file]
  BY <1>3 DEF TypeOK
<1> QED
  BY <1>2, <1>4 DEF TypeOK, mainvars, Executants, Links

LEMMA OthersConverse ==
  ASSUME ImportInv, NEW e \in Slots, NEW c \in Clients, exec'[e].serves \in {c, None},
         \A d \in Slots \ {e} : exec'[d] = exec[d],
         \A d \in Clients \ {c} : conn'[d] = conn[d],
         UNCHANGED <<client, import, cut>>
  PROVE  \A d \in Clients \ {c} : Conversing(d)'
<1> TAKE d \in Clients \ {c}
<1>1. \A g \in Slots : exec'[g].serves = d => exec'[g] = exec[g]
  BY OldAssumption
<1> QED
  BY <1>1, Undisturbed DEF ImportInv

(* The one with the client at hand does too, if what is said is right.     *)
LEMMA Talks ==
  ASSUME ImportInv, ServerSide', NEW e \in Slots, NEW c \in Clients,
         exec'[e].serves = c, conn'[c].end = "open",
         UNCHANGED <<client, import, cut>>, TalksTo(e, c)'
  PROVE  Conversing(c)'
<1>1. \A d \in Slots : exec'[d].serves = c => d = e
  BY OldAssumption DEF ServerSide, Serving
<1>2. Conversing(c)
  BY DEF ImportInv
<1>3. client'[c].pc = "done" => Copied(c)'
  BY <1>2 DEF Conversing, Copied, Offsets, Whole
<1> QED
  BY <1>1, <1>2, <1>3 DEF Conversing, Left, Ended

LEMMA GoesOn ==
  ASSUME ImportInv, PapaInv', NEW e \in Slots, exec[e].pc \in Talking,
         NEW c \in Clients, exec[e].serves = c,
         NEW r \in Executants, r.serves = c, r.pc \in Talking, r.pc # "send" => r.sent = 0,
         r.pc = "send" => r.file \in DOMAIN Size /\ r.sent <= Size[r.file],
         exec' = [exec EXCEPT ![e] = r],
         NEW l \in Links, l.end = "open", conn' = [conn EXCEPT ![c] = l],
         UNCHANGED <<mainvars, pending, backlog, cut, client, import>>,
         TalksTo(e, c)'
  PROVE  ImportInv'
<1>1. TypeOK /\ ServerSide /\ exec \in [Slots -> Executants] /\ conn \in [Clients -> Links]
  BY DEF ImportInv, TypeOK, Executants, Links
<1>2. /\ exec'[e] = r /\ \A d \in Slots \ {e} : exec'[d] = exec[d]
      /\ conn'[c] = l /\ \A d \in Clients \ {c} : conn'[d] = conn[d]
      /\ conn[c].end = "open"
  BY <1>1, OldAssumption DEF ServerSide, Serving
<1>3. TypeOK'
  BY <1>1, StepTypes DEF TypeOK
<1>4. ServerSide'
  BY <1>1, <1>2, CarriesOn
<1>5. \A d \in Clients \ {c} : Conversing(d)'
  BY <1>2, OthersConverse
<1>6. Conversing(c)'
  BY <1>2, <1>4, Talks
<1> QED
  BY <1>3, <1>4, <1>5, <1>6 DEF ImportInv

LEMMA ServedClient ==
  ASSUME ImportInv, NEW e \in Slots, exec[e].pc \in Talking
  PROVE  \E c \in Clients :
           /\ exec[e].serves = c /\ conn[c].end = "open"
           /\ TalksTo(e, c) /\ Conversing(c)
           /\ conn[c] \in Links
           /\ conn[c] = [end |-> "open", up |-> conn[c].up, down |-> conn[c].down]
           /\ exec[e] \in Executants
           /\ exec[e].pc # "send" => exec[e].sent = 0
           /\ exec[e] = [pc |-> exec[e].pc, serves |-> c,
                         file |-> exec[e].file, sent |-> exec[e].sent]
<1>1. PICK c \in Clients : exec[e].serves = c
  BY ExecutantType DEF ImportInv, ServerSide, Serving
<1>2. conn[c].end = "open" /\ (exec[e].pc # "send" => exec[e].sent = 0)
  BY <1>1, OldAssumption DEF ImportInv, ServerSide, Serving
<1>3. exec[e] \in Executants /\ conn[c] \in Links
  BY DEF ImportInv, TypeOK, Executants, Links
<1>4. conn[c] = [end |-> "open", up |-> conn[c].up, down |-> conn[c].down]
  BY <1>2, <1>3 DEF Links
<1>5. exec[e] = [pc |-> exec[e].pc, serves |-> c, file |-> exec[e].file, sent |-> exec[e].sent]
  BY <1>1, ExecutantType DEF ImportInv
<1> QED
  BY <1>1, <1>2, <1>3, <1>4, <1>5 DEF ImportInv, Conversing

LEMMA GreetKeepsInv ==
  ASSUME ImportInv, PapaInv', NEW e \in Slots, Greet(e)
  PROVE  ImportInv'
<1>1. exec[e].pc = "greeting" /\ exec[e].pc \in Talking
  BY DEF Greet, Talking
<1>2. PICK c \in Clients :
        exec[e].serves = c /\ conn[c].end = "open" /\ TalksTo(e, c) /\ conn[c] \in Links
  BY <1>1, ServedClient
<1>3. PICK r : r = With("type", c, None)
  OBVIOUS
<1>4. PICK l : l = conn[c]
  OBVIOUS
<1>5. r \in Executants /\ r.serves = c /\ r.pc = "type" /\ r.pc \in Talking /\ r.sent = 0
  BY <1>3 DEF With, Executants, Talking
<1>6. exec' = [exec EXCEPT ![e] = r] /\ conn' = [conn EXCEPT ![c] = l] /\ exec'[e] = r
  BY <1>2, <1>3, <1>4 DEF Greet, ImportInv, TypeOK
<1>7. UNCHANGED <<mainvars, pending, backlog, cut, client, import>> /\ conn' = conn
  BY DEF Greet
<1>8. TalksTo(e, c)'
  BY <1>1, <1>2, <1>5, <1>6, <1>7 DEF TalksTo, Unread, Written, Left
<1> QED
  BY <1>1, <1>2, <1>4, <1>5, <1>6, <1>7, <1>8, GoesOn

(* What is left of up when a part of the request is read.                  *)
LEMMA TookLink ==
  ASSUME NEW l \in Links, NEW m, m = [l EXCEPT !.up = IF @ = <<>> THEN @ ELSE Tail(@)]
  PROVE  /\ m \in Links /\ m.end = l.end /\ m.down = l.down
         /\ m.up = IF l.up = <<>> THEN <<>> ELSE Tail(l.up)
<1>1. l.up \in Seq(Parts) /\ (l.up # <<>> => Tail(l.up) \in Seq(Parts))
  BY HeadTailProperties DEF Links
<1> QED
  BY <1>1 DEF Links

(* The first part of an unread request, and what it leaves.                *)
LEMMA PartsOfRequest ==
  ASSUME NEW c \in Clients, Unread(c), conn[c].up # <<>>
  PROVE  /\ Head(conn[c].up) = "GET"
         /\ Tail(conn[c].up) \in {<<>>} \cup {<<f>> : f \in Names}
         /\ ~ Left(c) => /\ client[c].pc \in {"name", "status"} /\ conn[c].down = <<>>
                         /\ Tail(conn[c].up) = Tail(Written(c))
<1>1. conn[c].up = <<"GET">> \/ \E f \in Names : conn[c].up = <<"GET", f>>
  BY DEF Unread
<1>2. /\ Head(<<"GET">>) = "GET" /\ Tail(<<"GET">>) = <<>>
      /\ \A f \in Names : Head(<<"GET", f>>) = "GET" /\ Tail(<<"GET", f>>) = <<f>>
  OBVIOUS
<1> QED
  BY <1>1, <1>2 DEF Unread, Written

LEMMA ReadTypeKeepsInv ==
  ASSUME ImportInv, PapaInv', NEW e \in Slots, ReadType(e)
  PROVE  ImportInv'
<1>1. exec[e].pc = "type" /\ exec[e].pc \in Talking
  BY DEF ReadType, Talking
<1>2. PICK c \in Clients :
        /\ exec[e].serves = c /\ conn[c].end = "open" /\ TalksTo(e, c) /\ conn[c] \in Links
        /\ exec[e] \in Executants /\ exec[e].sent = 0
        /\ exec[e] = [pc |-> exec[e].pc, serves |-> c,
                      file |-> exec[e].file, sent |-> exec[e].sent]
  BY <1>1, ServedClient
<1>3. PICK request \in Request(c, RequestTypes) :
        exec' = [exec EXCEPT ![e].pc = IF request = "GET" THEN "name" ELSE "skip"]
  BY <1>2 DEF ReadType, ExecutantGoes
<1>4. PICK place \in {"name", "skip"} : place = IF request = "GET" THEN "name" ELSE "skip"
  OBVIOUS
<1>5. PICK r : r = [exec[e] EXCEPT !.pc = place]
  OBVIOUS
<1>6. PICK l : l = [conn[c] EXCEPT !.up = IF @ = <<>> THEN @ ELSE Tail(@)]
  OBVIOUS
<1>7. r = [pc |-> place, serves |-> c, file |-> exec[e].file, sent |-> 0]
  BY <1>2, <1>5
<1>8. r \in Executants /\ r.serves = c /\ r.pc = place /\ r.pc \in Talking /\ r.sent = 0
  BY <1>2, <1>4, <1>7 DEF Executants, Talking
<1>9. exec' = [exec EXCEPT ![e] = r] /\ exec'[e] = r
  BY <1>3, <1>4, <1>5 DEF ImportInv, TypeOK
<1>10. conn' = [conn EXCEPT ![c] = l] /\ conn'[c] = l
  BY <1>2, <1>6 DEF ReadType, Took, ImportInv, TypeOK
<1>11. UNCHANGED <<mainvars, pending, backlog, cut, client, import>>
  BY DEF ReadType
<1>12. /\ l \in Links /\ l.end = "open" /\ l.down = conn[c].down
       /\ l.up = IF conn[c].up = <<>> THEN <<>> ELSE Tail(conn[c].up)
  BY <1>2, <1>6, TookLink
<1>13. Unread(c)
  BY <1>1, <1>2 DEF TalksTo
<1>14. CASE conn[c].up = <<>>
  <2>1. Left(c)
    BY <1>3, <1>14 DEF Request
  <2>2. Left(c)' /\ conn'[c].up = <<>>
    BY <1>10, <1>11, <1>12, <1>14, <2>1 DEF Left
  <2>3. TalksTo(e, c)'
    BY <1>4, <1>8, <1>9, <2>2 DEF TalksTo, TypeRead
  <2> QED
    BY <1>1, <1>2, <1>4, <1>8, <1>9, <1>10, <1>11, <1>12, <2>3, GoesOn
<1>15. CASE conn[c].up # <<>>
  <2>1. request = "GET"
    BY <1>3, <1>13, <1>15, PartsOfRequest DEF Request
  <2>2. exec'[e].pc = "name"
    BY <1>4, <1>8, <1>9, <2>1
  <2>3. conn'[c].up = Tail(conn[c].up) /\ conn'[c].down = conn[c].down
    BY <1>10, <1>12, <1>15
  <2>4. TypeRead(c)'
    BY <1>11, <1>13, <1>15, <2>3, PartsOfRequest DEF TypeRead, Left, Written
  <2>5. TalksTo(e, c)'
    BY <2>2, <2>4 DEF TalksTo
  <2> QED
    BY <1>1, <1>2, <1>4, <1>8, <1>9, <1>10, <1>11, <1>12, <2>5, GoesOn
<1> QED
  BY <1>14, <1>15

LEMMA ReadNameKeepsInv ==
  ASSUME ImportInv, PapaInv', NEW e \in Slots, ReadName(e)
  PROVE  ImportInv'
<1>1. exec[e].pc = "name" /\ exec[e].pc \in Talking
  BY DEF ReadName, Talking
<1>2. PICK c \in Clients :
        /\ exec[e].serves = c /\ conn[c].end = "open" /\ TalksTo(e, c) /\ conn[c] \in Links
  BY <1>1, ServedClient
<1>3. PICK name \in Request(c, Names) : exec' = [exec EXCEPT ![e] = With("open", c, name)]
  BY <1>2 DEF ReadName
<1>4. PICK r : r = With("open", c, name)
  OBVIOUS
<1>5. PICK l : l = [conn[c] EXCEPT !.up = IF @ = <<>> THEN @ ELSE Tail(@)]
  OBVIOUS
<1>6. conn' = [conn EXCEPT ![c] = l] /\ conn'[c] = l
  BY <1>2, <1>5 DEF ReadName, Took, ImportInv, TypeOK
<1>7. UNCHANGED <<mainvars, pending, backlog, cut, client, import>>
  BY DEF ReadName
<1>8. l \in Links /\ l.end = "open" /\ l.down = conn[c].down
  BY <1>2, <1>5, TookLink
<1>9. TypeRead(c)
  BY <1>1, <1>2 DEF TalksTo
<1>10. /\ name \in Names
       /\ ~ Left(c) => /\ client[c].pc = "status" /\ conn[c].down = <<>>
                       /\ name = client[c].file
  <2>1. CASE conn[c].up = <<>>
    BY <1>3, <2>1 DEF Request
  <2>2. CASE conn[c].up # <<>>
    <3>1. PICK f \in Names : conn[c].up = <<f>>
      BY <1>9, <2>2 DEF TypeRead
    <3>2. name = f
      BY <1>3, <2>2, <3>1 DEF Request
    <3>3. ASSUME ~ Left(c)
          PROVE  client[c].pc = "status" /\ conn[c].down = <<>> /\ f = client[c].file
      <4>1. conn[c].up = Tail(Written(c)) /\ client[c].pc \in {"name", "status"}
        BY <1>9, <3>3 DEF TypeRead
      <4>2. Tail(<<"GET">>) = <<>> /\ Tail(<<"GET", client[c].file>>) = <<client[c].file>>
        OBVIOUS
      <4> QED
        BY <1>9, <2>2, <3>1, <3>3, <4>1, <4>2 DEF TypeRead, Written
    <3> QED
      BY <3>2, <3>3
  <2> QED
    BY <2>1, <2>2
<1>11. /\ r \in Executants /\ r.serves = c /\ r.pc = "open" /\ r.pc \in Talking
       /\ r.sent = 0 /\ r.file = name
  BY <1>4, <1>10 DEF With, Executants, Talking
<1>12. exec' = [exec EXCEPT ![e] = r] /\ exec'[e] = r
  BY <1>3, <1>4 DEF ImportInv, TypeOK
<1>13. TalksTo(e, c)'
  BY <1>6, <1>7, <1>8, <1>10, <1>11, <1>12 DEF TalksTo, Left
<1> QED
  BY <1>1, <1>2, <1>6, <1>7, <1>8, <1>11, <1>12, <1>13, GoesOn

(* What a write() adds to a link.                                          *)
LEMMA ArriveLink ==
  ASSUME TypeOK, NEW c \in Clients, NEW data \in Seq({Found} \cup Bytes), Arrive(c, data)
  PROVE  \E l \in Links :
           /\ conn' = [conn EXCEPT ![c] = l] /\ conn'[c] = l /\ l.end = conn[c].end
           /\ l.down = IF Left(c) THEN conn[c].down ELSE conn[c].down \o data
<1>1. conn \in [Clients -> Links]
  BY DEF TypeOK, Links
<1>2. PICK d : d = IF Left(c) THEN conn[c].down ELSE conn[c].down \o data
  OBVIOUS
<1>3. PICK l : l = [conn[c] EXCEPT !.down = d]
  OBVIOUS
<1>4. conn[c] \in Links /\ conn[c].down \in Seq({Found} \cup Bytes)
  BY <1>1 DEF Links
<1>5. d \in Seq({Found} \cup Bytes)
  BY <1>2, <1>4, ConcatProperties
<1>6. l \in Links /\ l.end = conn[c].end /\ l.down = d
  BY <1>3, <1>4, <1>5 DEF Links
<1>7. conn' = [conn EXCEPT ![c] = l]
  BY <1>1, <1>2, <1>3 DEF Arrive
<1>8. conn'[c] = l
  BY <1>1, <1>7
<1> QED
  BY <1>2, <1>6, <1>7, <1>8

LEMMA OpenFileKeepsInv ==
  ASSUME ImportInv, PapaInv', NEW e \in Slots, OpenFile(e)
  PROVE  ImportInv'
<1>1. exec[e].pc = "open" /\ exec[e].pc \in Talking /\ exec[e].file \in DOMAIN Size
  BY DEF OpenFile, Talking
<1>2. PICK c \in Clients :
        /\ exec[e].serves = c /\ conn[c].end = "open" /\ TalksTo(e, c) /\ conn[c] \in Links
        /\ exec[e] \in Executants /\ exec[e].sent = 0
        /\ exec[e] = [pc |-> exec[e].pc, serves |-> c,
                      file |-> exec[e].file, sent |-> exec[e].sent]
  BY <1>1, ServedClient
<1>3. PICK r : r = [exec[e] EXCEPT !.pc = "send"]
  OBVIOUS
<1>4. PICK l \in Links :
        /\ conn' = [conn EXCEPT ![c] = l] /\ conn'[c] = l /\ l.end = "open"
        /\ l.down = IF Left(c) THEN conn[c].down ELSE conn[c].down \o <<Found>>
  <2>1. <<Found>> \in Seq({Found} \cup Bytes)
    OBVIOUS
  <2>2. Arrive(c, <<Found>>)
    BY <1>2 DEF OpenFile
  <2>3. TypeOK
    BY DEF ImportInv
  <2>4. \E l \in Links :
          /\ conn' = [conn EXCEPT ![c] = l] /\ conn'[c] = l /\ l.end = conn[c].end
          /\ l.down = IF Left(c) THEN conn[c].down ELSE conn[c].down \o <<Found>>
    BY <2>1, <2>2, <2>3, ArriveLink
  <2> QED
    BY <1>2, <2>4
<1>5. r = [pc |-> "send", serves |-> c, file |-> exec[e].file, sent |-> 0]
  BY <1>2, <1>3
<1>6. Size[exec[e].file] \in Nat
  BY <1>1, FileIsBytes
<1>7. /\ r \in Executants /\ r.serves = c /\ r.pc = "send" /\ r.pc \in Talking
      /\ r.file = exec[e].file /\ r.sent = 0
      /\ r.file \in DOMAIN Size /\ r.sent <= Size[r.file]
  BY <1>1, <1>2, <1>5, <1>6 DEF Executants, Talking
<1>8. exec' = [exec EXCEPT ![e] = r] /\ exec'[e] = r
  BY <1>3 DEF OpenFile, ExecutantGoes, ImportInv, TypeOK
<1>10. UNCHANGED <<mainvars, pending, backlog, cut, client, import>>
  BY DEF OpenFile
<1>13. ASSUME ~ Left(c)
       PROVE  /\ exec[e].file = client[c].file /\ client[c].pc = "status"
              /\ l.down = <<Found>> \o Prefix(client[c].file, 0)
              /\ 0 \in Offsets(c)
  <2>1. exec[e].file = client[c].file /\ client[c].pc = "status" /\ conn[c].down = <<>>
    BY <1>1, <1>2, <1>13 DEF TalksTo
  <2>2. Prefix(client[c].file, 0) = <<>>
    BY <1>1, <2>1, PrefixEnds
  <2>3. <<>> \o <<Found>> = <<Found>> /\ <<Found>> \o <<>> = <<Found>>
    OBVIOUS
  <2>4. l.down = <<Found>> \o Prefix(client[c].file, 0)
    BY <1>4, <1>13, <2>1, <2>2, <2>3
  <2>5. 0 \in Offsets(c)
    BY <1>1, <1>6, <2>1 DEF Offsets
  <2> QED
    BY <2>1, <2>4, <2>5
<1>14. TalksTo(e, c)'
  BY <1>4, <1>7, <1>8, <1>10, <1>13 DEF TalksTo, Left, Streamed, Offsets, Prefix
<1> QED
  BY <1>1, <1>2, <1>4, <1>7, <1>8, <1>10, <1>14, GoesOn

LEMMA SendSomeKeepsInv ==
  ASSUME ImportInv, PapaInv', NEW e \in Slots, SendSome(e)
  PROVE  ImportInv'
<1>1. exec[e].pc = "send" /\ exec[e].pc \in Talking
  BY DEF SendSome, Talking
<1>2. PICK c \in Clients :
        /\ exec[e].serves = c /\ conn[c].end = "open" /\ TalksTo(e, c) /\ conn[c] \in Links
        /\ exec[e] \in Executants
        /\ exec[e] = [pc |-> exec[e].pc, serves |-> c,
                      file |-> exec[e].file, sent |-> exec[e].sent]
  BY <1>1, ServedClient
<1>3. PICK f : f = exec[e].file
  OBVIOUS
<1>4. PICK k : k = exec[e].sent
  OBVIOUS
<1>5. f \in DOMAIN Size /\ Size[f] \in Nat /\ k \in 0 .. Size[f] /\ f \in Names
  <2>1. f \in DOMAIN Size /\ k <= Size[f] /\ k \in Nat
    BY <1>1, <1>2, <1>3, <1>4 DEF ImportInv, TypeOK, Executants
  <2> QED
    BY <2>1, FileIsBytes, OldAssumption
<1>6. PICK n \in 1 .. Size[f] - k :
        /\ Arrive(c, SubSeq(File(f), k + 1, k + n))
        /\ exec' = [exec EXCEPT ![e].sent = k + n]
  BY <1>2, <1>3, <1>4 DEF SendSome
<1>7. PICK data : data = SubSeq(File(f), k + 1, k + n)
  OBVIOUS
<1>8. /\ data \in Seq(Bytes) /\ data \in Seq({Found} \cup Bytes)
      /\ Prefix(f, k) \o data = Prefix(f, k + n) /\ k + n \in 0 .. Size[f]
      /\ Prefix(f, k) \in Seq(Bytes)
  <2>1. data \in Seq(Bytes) /\ Prefix(f, k) \o data = Prefix(f, k + n) /\ k + n \in 0 .. Size[f]
    BY <1>5, <1>6, <1>7, PrefixGrows
  <2> QED
    BY <1>5, <2>1, SeqMonotonic, PrefixIsBytes
<1>9. PICK r : r = [exec[e] EXCEPT !.sent = k + n]
  OBVIOUS
<1>10. PICK l \in Links :
         /\ conn' = [conn EXCEPT ![c] = l] /\ conn'[c] = l /\ l.end = "open"
         /\ l.down = IF Left(c) THEN conn[c].down ELSE conn[c].down \o data
  <2>1. TypeOK
    BY DEF ImportInv
  <2>2. Arrive(c, data)
    BY <1>6, <1>7
  <2>3. \E l \in Links :
          /\ conn' = [conn EXCEPT ![c] = l] /\ conn'[c] = l /\ l.end = conn[c].end
          /\ l.down = IF Left(c) THEN conn[c].down ELSE conn[c].down \o data
    BY <1>8, <2>1, <2>2, ArriveLink
  <2> QED
    BY <1>2, <2>3
<1>11. r = [pc |-> "send", serves |-> c, file |-> f, sent |-> k + n]
  BY <1>1, <1>2, <1>3, <1>9
<1>12. /\ r \in Executants /\ r.serves = c /\ r.pc = "send" /\ r.pc \in Talking
       /\ r.file = f /\ r.sent = k + n /\ r.file \in DOMAIN Size /\ r.sent <= Size[r.file]
  BY <1>5, <1>8, <1>11 DEF Executants, Talking
<1>13. exec' = [exec EXCEPT ![e] = r] /\ exec'[e] = r
  BY <1>6, <1>9 DEF ImportInv, TypeOK
<1>15. UNCHANGED <<mainvars, pending, backlog, cut, client, import>>
  BY DEF SendSome
<1>17. ASSUME ~ Left(c)
       PROVE  /\ client[c].file = f /\ k + n \in Offsets(c)
              /\ \/ client[c].pc = "status" /\ l.down = <<Found>> \o Prefix(f, k + n)
                 \/ client[c].pc = "receive" /\ import[c] \o l.down = Prefix(f, k + n)
  <2>1. client[c].file = f /\ Streamed(c, k)
    BY <1>1, <1>2, <1>3, <1>4, <1>17 DEF TalksTo
  <2>2. k + n \in Offsets(c)
    BY <1>5, <1>8, <2>1 DEF Offsets
  <2>3. CASE client[c].pc = "status" /\ conn[c].down = <<Found>> \o Prefix(f, k)
    <3>1. <<Found>> \in Seq({Found} \cup Bytes) /\ Prefix(f, k) \in Seq({Found} \cup Bytes)
      BY <1>8, SeqMonotonic
    <3>2. (<<Found>> \o Prefix(f, k)) \o data = <<Found>> \o (Prefix(f, k) \o data)
      BY SMTT(20), <1>8, <3>1, ConcatAssociative
    <3> QED
      BY <1>8, <1>10, <1>17, <2>1, <2>2, <2>3, <3>2
  <2>4. CASE client[c].pc = "receive" /\ import[c] \o conn[c].down = Prefix(f, k)
    <3>1. import[c] \in Seq({Found} \cup Bytes) /\ conn[c].down \in Seq({Found} \cup Bytes)
      BY <1>2, SeqMonotonic DEF ImportInv, TypeOK, Links
    <3>2. \A a, b, d \in Seq({Found} \cup Bytes) : (a \o b) \o d = a \o (b \o d)
      BY ConcatAssociative
    <3>3. (import[c] \o conn[c].down) \o data = import[c] \o (conn[c].down \o data)
      BY <1>8, <3>1, <3>2
    <3> QED
      BY <1>8, <1>10, <1>17, <2>1, <2>2, <2>4, <3>3
  <2> QED
    BY <2>1, <2>3, <2>4 DEF Streamed
<1>18. TalksTo(e, c)'
  BY <1>10, <1>12, <1>13, <1>15, <1>17 DEF TalksTo, Left, Streamed, Offsets, Prefix
<1> QED
  BY <1>1, <1>2, <1>10, <1>12, <1>13, <1>15, <1>18, GoesOn

LEMMA ShutLink ==
  ASSUME TypeOK, NEW c \in Clients
  PROVE  Shut(c) \in Links
<1>1. conn[c] \in Links
  BY DEF TypeOK, Links
<1>2. <<>> \in Seq(Parts) /\ <<>> \in Seq({Found} \cup Bytes)
  BY EmptySeq
<1> QED
  BY <1>1, <1>2 DEF Shut, Link, Links

LEMMA AcceptKeepsInv ==
  ASSUME ImportInv, PapaInv', NEW e \in Slots, Accept(e)
  PROVE  ImportInv'
<1>1. TypeOK /\ ServerSide /\ backlog # <<>>
  BY DEF ImportInv, Accept
<1>2. PICK c \in Clients : c = Head(backlog) /\ conn[c].end = "queued"
  BY <1>1, BacklogOfClients DEF ServerSide, Queueing
<1>3. PICK r : r = With("greeting", c, None)
  OBVIOUS
<1>4. PICK l : l = [conn[c] EXCEPT !.end = "open"]
  OBVIOUS
<1>5. conn[c] \in Links
  BY <1>1 DEF TypeOK, Links
<1>6. l \in Links /\ l.end = "open" /\ l.up = conn[c].up /\ l.down = conn[c].down
  BY <1>4, <1>5 DEF Links
<1>7. r \in Executants /\ r.serves = c /\ r.pc = "greeting"
  BY <1>3 DEF With, Executants
<1>8. /\ exec' = [exec EXCEPT ![e] = r] /\ exec'[e] = r
      /\ \A d \in Slots \ {e} : exec'[d] = exec[d]
  BY <1>1, <1>2, <1>3 DEF Accept, TypeOK
<1>9. /\ conn' = [conn EXCEPT ![c] = l] /\ conn'[c] = l
      /\ \A d \in Clients \ {c} : conn'[d] = conn[d]
  BY <1>1, <1>2, <1>4 DEF Accept, TypeOK
<1>10. UNCHANGED <<mainvars, pending, cut, client, import>>
  BY DEF Accept
<1>11. TypeOK'
  <2>1. backlog' \in Seq(Clients)
    BY <1>1, BacklogOfClients DEF Accept
  <2> QED
    BY <1>1, <1>6, <1>7, <1>8, <1>9, <1>10, <2>1, StepTypes
<1>12. ServerSide'
  BY <1>1, AcceptServes
<1>13. Unread(c)
  BY <1>2 DEF ImportInv, Conversing
<1>14. TalksTo(e, c)'
  BY <1>6, <1>7, <1>8, <1>9, <1>10, <1>13 DEF TalksTo, Unread, Written, Left
<1>15. Conversing(c)'
  BY <1>6, <1>7, <1>8, <1>9, <1>10, <1>12, <1>14, Talks
<1>16. \A d \in Clients \ {c} : Conversing(d)'
  BY <1>7, <1>8, <1>9, <1>10, OthersConverse
<1> QED
  BY <1>11, <1>12, <1>15, <1>16 DEF ImportInv

LEMMA ReturnsKeepsInv ==
  ASSUME ImportInv, PapaInv', NEW e \in Slots, SkipRequest(e) \/ SendEnds(e)
  PROVE  ImportInv'
<1>1. exec[e].pc \in {"skip", "send"} /\ exec[e].pc \in Talking /\ Returns(e)
  BY DEF SkipRequest, SendEnds, Talking
<1>2. PICK c \in Clients :
        exec[e].serves = c /\ conn[c].end = "open" /\ TalksTo(e, c) /\ Conversing(c)
  BY <1>1, ServedClient
<1>3. TypeOK /\ ServerSide
  BY DEF ImportInv
<1>4. PICK r : r = At("accept")
  OBVIOUS
<1>5. PICK l \in Links : l = Shut(c)
  BY <1>3, ShutLink
<1>6. r \in Executants /\ r.serves = None /\ r.pc = "accept" /\ r.sent = 0
  BY <1>4 DEF At, With, Executants
<1>7. /\ exec' = [exec EXCEPT ![e] = r] /\ exec'[e] = r
      /\ \A d \in Slots \ {e} : exec'[d] = exec[d]
  BY <1>1, <1>3, <1>4 DEF Returns, TypeOK
<1>8. /\ conn' = [conn EXCEPT ![c] = l] /\ conn'[c] = Shut(c)
      /\ \A d \in Clients \ {c} : conn'[d] = conn[d]
  BY <1>1, <1>2, <1>3, <1>5 DEF Returns, TypeOK
<1>9. UNCHANGED <<mainvars, pending, backlog, cut, client, import>>
  BY <1>1 DEF Returns
<1>10. TypeOK'
  <2>1. backlog' \in Seq(Clients)
    BY <1>3, <1>9 DEF TypeOK
  <2> QED
    BY <1>3, <1>6, <1>7, <1>8, <1>9, <2>1, StepTypes
<1>11. \A d \in Slots \ {e} : exec[d].serves # c
  BY <1>2, <1>3, OldAssumption DEF ServerSide, Serving
<1>12. ServerSide'
  <2>1. conn' = [d \in Clients |-> IF d \in {c} THEN Shut(d) ELSE conn[d]]
    BY <1>3, <1>5, <1>8 DEF TypeOK
  <2>2. \A d \in Slots :
          \/ exec'[d] = exec[d] /\ exec[d].serves \notin {c}
          \/ /\ exec[d].serves \in {c} \cup {None}
             /\ exec'[d].serves = None /\ exec'[d].pc \notin Talking /\ exec'[d].sent = 0
    BY <1>2, <1>6, <1>7, <1>11 DEF Talking
  <2>3. \A k \in DOMAIN backlog : backlog[k] \notin {c}
    BY <1>2, <1>3 DEF ServerSide, Queueing
  <2>4. NotYetForked'
    BY <1>1, <1>3, <1>7, <1>9 DEF ServerSide, NotYetForked, mainvars
  <2> QED
    BY <1>3, <1>9, <2>1, <2>2, <2>3, <2>4, ConnectionsClose
<1>13. Conversing(c)'
  <2>1. Left(c) \/ Answered(c)
    <3>1. CASE SkipRequest(e)
      BY <1>2, <3>1 DEF SkipRequest, TalksTo
    <3>2. CASE SendEnds(e)
      BY <1>2, <3>2 DEF SendEnds, TalksTo, Answered, Whole
    <3> QED
      BY <3>1, <3>2
  <2>2. \A d \in Slots : exec'[d].serves # c
    BY <1>6, <1>7, <1>11, OldAssumption
  <2> QED
    BY <1>2, <1>8, <1>9, <2>1, <2>2, Shutting
<1>14. \A d \in Clients \ {c} : Conversing(d)'
  BY <1>6, <1>7, <1>8, <1>9, OthersConverse
<1> QED
  BY <1>10, <1>12, <1>13, <1>14 DEF ImportInv

-----------------------------------------------------------------------------
(* Ends of processes, and main.                                            *)

LEMMA ReleaseTypes ==
  ASSUME TypeOK, PapaInv', NEW p \in {0} \cup Slots, Release(p), UNCHANGED <<client, import>>,
         exec' \in [Slots -> Executants],
         \A e \in Slots : exec'[e].pc = "send" => exec'[e] = exec[e]
  PROVE  TypeOK'
<1> DEFINE
  served == {exec[e].serves : e \in {p} \cap Slots} \ {None}
  last == Holders \subseteq {p}
  K == served \cup IF last THEN {backlog[k] : k \in DOMAIN backlog} ELSE {}
<1>1. /\ conn' = [c \in Clients |-> IF c \in K THEN Shut(c) ELSE conn[c]]
      /\ backlog' = IF last THEN <<>> ELSE backlog
      /\ cut' = cut \cup K
  BY DEF Release
<1>2. served \subseteq Clients
  BY ExecutantType
<1>3. \A k \in DOMAIN backlog : backlog[k] \in Clients
  BY BacklogOfClients
<1>4. K \subseteq Clients
  BY <1>2, <1>3
<1> HIDE DEF served, last, K
<1>5. conn' \in [Clients -> Links]
  BY <1>1, ShutLink DEF TypeOK, Links
<1>6. backlog' \in Seq(Clients) /\ cut' \subseteq Clients
  BY <1>1, <1>4, EmptySeq DEF TypeOK
<1>7. /\ mpc' \in {"listen", "fork", "signal", "pause", "kill", "wait", "killed", "left"}
      /\ i' \in 1 .. NPROC + 1 /\ failed' \subseteq Slots /\ pending' \subseteq {0} \cup Slots
  BY DEF PapaInv, LoopInBounds, SignalsReachTheLiving, Pool
<1>8. \A e \in Slots : exec'[e].pc = "send" =>
        exec'[e].file \in DOMAIN Size /\ exec'[e].sent <= Size[exec'[e].file]
  BY DEF TypeOK
<1> QED
  BY <1>5, <1>6, <1>7, <1>8 DEF TypeOK, Executants, Links

LEMMA ExecutantEndsKeepsInv ==
  ASSUME ImportInv, PapaInv', NEW e \in Slots, exec[e].pc # "none", ExecutantEnds(e),
         UNCHANGED <<client, import>>
  PROVE  ImportInv'
<1>1. TypeOK /\ exec \in [Slots -> Executants] /\ ServerSide
  BY DEF ImportInv, TypeOK, Executants
<1>2. PICK r : /\ r = At("zombie") /\ r \in Executants
               /\ r.pc = "zombie" /\ r.serves = None /\ r.sent = 0
  <2>1. PICK r : r = At("zombie")
    OBVIOUS
  <2>2. r \in Executants /\ r.pc = "zombie" /\ r.serves = None /\ r.sent = 0
    BY <2>1 DEF At, With, Executants
  <2> QED
    BY <2>1, <2>2
<1>3. /\ exec' = [exec EXCEPT ![e] = r] /\ exec'[e] = r
      /\ \A d \in Slots \ {e} : exec'[d] = exec[d]
      /\ Release(e) /\ UNCHANGED mainvars
  BY <1>1, <1>2 DEF ExecutantEnds
<1>4. TypeOK'
  <2>1. exec' \in [Slots -> Executants]
    BY <1>1, <1>2, <1>3
  <2>2. \A d \in Slots : exec'[d].pc = "send" => exec'[d] = exec[d]
    BY <1>2, <1>3
  <2> QED
    BY <1>1, <1>3, <2>1, <2>2, ReleaseTypes
<1>5. NotYetForked'
  BY <1>1, <1>3 DEF ServerSide, NotYetForked, mainvars
<1>6. \A d \in Slots : \/ exec'[d] = exec[d] /\ d # e
                       \/ exec'[d].serves = None /\ exec'[d].pc \notin Talking
                          /\ exec'[d].sent = 0 /\ d = e
  BY <1>2, <1>3 DEF Talking
<1>7. ServerSide' /\ \A c \in Clients : Conversing(c)'
  BY <1>3, <1>5, <1>6, ReleaseKeepsInv
<1> QED
  BY <1>4, <1>7 DEF ImportInv

LEMMA MainEndsKeepsInv ==
  ASSUME ImportInv, PapaInv', NEW how \in {"killed", "left"}, MainEnds(how),
         UNCHANGED <<client, import>>
  PROVE  ImportInv'
<1>1. TypeOK /\ exec' = exec /\ Release(0) /\ mpc' = how
  BY DEF ImportInv, MainEnds
<1>2. TypeOK'
  <2>1. exec' \in [Slots -> Executants]
    BY <1>1 DEF TypeOK, Executants
  <2> QED
    BY <1>1, <2>1, ReleaseTypes
<1>3. NotYetForked'
  BY <1>1 DEF NotYetForked
<1>4. 0 \notin Slots
  BY DEF Slots
<1>5. ServerSide' /\ \A c \in Clients : Conversing(c)'
  BY <1>1, <1>3, <1>4, ReleaseKeepsInv
<1> QED
  BY <1>2, <1>5 DEF ImportInv

(* main's other steps, and signals, leave alone whoever serves a client.   *)
LEMMA ConnectionsStay ==
  ASSUME ImportInv, PapaInv', UNCHANGED <<conn, backlog, client, import, cut>>,
         exec' \in [Slots -> Executants],
         \A d \in Slots : \/ exec'[d] = exec[d]
                          \/ /\ exec[d].serves = None
                             /\ exec'[d].serves = None /\ exec'[d].pc \in {"accept", "reaped"}
                             /\ exec'[d].sent = 0,
         NotYetForked'
  PROVE  ImportInv'
<1>1. TypeOK /\ ServerSide
  BY DEF ImportInv
<1>2. /\ mpc' \in {"listen", "fork", "signal", "pause", "kill", "wait", "killed", "left"}
      /\ i' \in 1 .. NPROC + 1 /\ failed' \subseteq Slots /\ pending' \subseteq {0} \cup Slots
  BY DEF PapaInv, LoopInBounds, SignalsReachTheLiving, Pool
<1>3. \A e \in Slots : exec'[e].pc = "send" =>
        exec'[e].file \in DOMAIN Size /\ exec'[e].sent <= Size[exec'[e].file]
  BY <1>1 DEF TypeOK
<1>4. TypeOK'
  BY <1>1, <1>2, <1>3 DEF TypeOK, Executants
<1>5. ServerSide'
  BY <1>1, MainServesNobody DEF Talking
<1>6. \A c \in Clients : Conversing(c)'
  <2> TAKE c \in Clients
  <2>1. \A d \in Slots : exec'[d].serves = c => exec'[d] = exec[d]
    BY OldAssumption
  <2> QED
    BY <2>1, Undisturbed DEF ImportInv
<1> QED
  BY <1>4, <1>5, <1>6 DEF ImportInv

LEMMA MainKeepsImport ==
  ASSUME ImportInv, PapaInv', MainStep
  PROVE  ImportInv'
<1>1. TypeOK /\ ServerSide /\ PapaInv /\ exec \in [Slots -> Executants] /\ NPROC \in Nat
  BY OldAssumption DEF ImportInv, TypeOK, Executants
<1>2. CASE Listen \/ SetHandler \/ EnterPapa
  <2>1. UNCHANGED <<exec, conn, backlog, client, import, cut>>
    BY <1>2 DEF Listen, SetHandler, EnterPapa
  <2>2. NotYetForked'
    BY <1>1, <1>2, <2>1 DEF Listen, SetHandler, EnterPapa, MainGoes, ServerSide, NotYetForked
  <2> QED
    BY <1>1, <2>1, <2>2, ConnectionsStay
<1>3. CASE Fork
  <2>1. /\ UNCHANGED <<conn, backlog, client, import, cut>>
        /\ mpc = "fork" /\ mpc' = "fork" /\ i' = i + 1 /\ i \in Slots
    BY <1>1, <1>3 DEF Fork, MainGoes, TypeOK, Slots
  <2>2. exec[i].pc = "none" /\ exec[i].serves = None
    BY <1>1, <2>1 DEF ServerSide, NotYetForked, Serving, Talking, Slots
  <2>3. PICK r : r = At("accept")
    OBVIOUS
  <2>4. r \in Executants /\ r.pc = "accept" /\ r.serves = None /\ r.sent = 0
    BY <2>3 DEF At, With, Executants
  <2>5. exec' = [exec EXCEPT ![i] = r] \/ exec' = exec
    BY <1>3, <2>3 DEF Fork
  <2>6. /\ exec' \in [Slots -> Executants]
        /\ \A d \in Slots : exec'[d] = exec[d] \/ (d = i /\ exec'[d] = r)
    BY <1>1, <2>4, <2>5
  <2>7. \A d \in Slots : \/ exec'[d] = exec[d]
                         \/ /\ exec[d].serves = None
                            /\ exec'[d].serves = None /\ exec'[d].pc \in {"accept", "reaped"}
                            /\ exec'[d].sent = 0
    BY <2>2, <2>4, <2>6
  <2>8. NotYetForked'
    BY <1>1, <2>1, <2>6 DEF ServerSide, NotYetForked, Slots
  <2> QED
    BY <2>1, <2>6, <2>7, <2>8, ConnectionsStay
<1>4. CASE PapaKills
  <2>1. CASE exec[i].pc = "reaped" /\ MainEnds("left")
    BY <1>4, <2>1, MainEndsKeepsInv DEF PapaKills
  <2>2. CASE UNCHANGED <<failed, exec, backlog, cut, conn>> /\ MainGoes("wait", i)
    <3>1. UNCHANGED <<exec, conn, backlog, client, import, cut>>
      BY <1>4, <2>2 DEF PapaKills
    <3>2. NotYetForked'
      BY <2>2 DEF MainGoes, NotYetForked
    <3> QED
      BY <1>1, <3>1, <3>2, ConnectionsStay
  <2> QED
    BY <1>4, <2>1, <2>2 DEF PapaKills
<1>5. CASE PapaWaits
  <2>1. /\ UNCHANGED <<conn, backlog, client, import, cut>> /\ mpc' = "kill"
        /\ i \in Slots
    BY <1>1, <1>5 DEF PapaWaits, MainGoes, PapaInv, LoopInBounds
  <2>2. PICK e \in Slots : exec[e].pc = "zombie" /\ exec' = [exec EXCEPT ![e] = At("reaped")]
    BY <1>5, <2>1 DEF PapaWaits
  <2>3. PICK r : r = At("reaped")
    OBVIOUS
  <2>4. r \in Executants /\ r.pc = "reaped" /\ r.serves = None /\ r.sent = 0
    BY <2>3 DEF At, With, Executants
  <2>5. exec[e].serves = None
    BY <1>1, <2>2 DEF ServerSide, Serving, Talking
  <2>6. /\ exec' \in [Slots -> Executants]
        /\ \A d \in Slots : exec'[d] = exec[d] \/ (d = e /\ exec'[d] = r)
    BY <1>1, <2>2, <2>3, <2>4
  <2>7. \A d \in Slots : \/ exec'[d] = exec[d]
                         \/ /\ exec[d].serves = None
                            /\ exec'[d].serves = None /\ exec'[d].pc \in {"accept", "reaped"}
                            /\ exec'[d].sent = 0
    BY <2>4, <2>5, <2>6
  <2>8. NotYetForked'
    BY <2>1 DEF NotYetForked
  <2> QED
    BY <2>1, <2>6, <2>7, <2>8, ConnectionsStay
<1>6. CASE WaitpidExits \/ PapaLeaves \/ ListenExits
  BY <1>6, MainEndsKeepsInv DEF WaitpidExits, PapaLeaves, ListenExits
<1> QED
  BY <1>2, <1>3, <1>4, <1>5, <1>6 DEF MainStep

LEMMA SignalKeepsImport ==
  ASSUME ImportInv, PapaInv', NEW P, SIGINT(P)
  PROVE  ImportInv'
<1>1. TypeOK /\ ServerSide /\ exec \in [Slots -> Executants]
  BY DEF ImportInv, TypeOK, Executants
<1>2. UNCHANGED <<mainvars, exec, conn, backlog, client, import, cut>>
  BY DEF SIGINT
<1>3. NotYetForked'
  BY <1>1, <1>2 DEF ServerSide, NotYetForked, mainvars
<1> QED
  BY <1>1, <1>2, <1>3, ConnectionsStay

LEMMA ExecutantKeepsImport ==
  ASSUME ImportInv, PapaInv', NEW e \in Slots,
         ExecutantStep(e) \/ AcceptFails(e) \/ GreetingFails(e)
  PROVE  ImportInv'
<1>1. CASE OpenExits(e) \/ SendFails(e) \/ AcceptFails(e) \/ GreetingFails(e)
  <2>1. exec[e].pc # "none" /\ ExecutantEnds(e) /\ UNCHANGED <<client, import>>
    BY <1>1 DEF OpenExits, SendFails, AcceptFails, GreetingFails
  <2> QED
    BY <2>1, ExecutantEndsKeepsInv
<1> QED
  BY <1>1, AcceptKeepsInv, GreetKeepsInv, ReadTypeKeepsInv, ReadNameKeepsInv,
     ReturnsKeepsInv, OpenFileKeepsInv, SendSomeKeepsInv
  DEF ExecutantStep

-----------------------------------------------------------------------------
(* Steps of a client.                                                      *)

Users ==
  [pc : {"shell", "type", "name", "status", "receive", "done"}, file : Names \cup {None}]

LEMMA ClientFacts ==
  ASSUME ImportInv, NEW c \in Clients
  PROVE  /\ TypeOK /\ ServerSide /\ Conversing(c)
         /\ client[c] \in Users /\ conn[c] \in Links /\ import[c] \in Seq(Bytes)
         /\ client[c] = [pc |-> client[c].pc, file |-> client[c].file]
         /\ conn[c] = [end |-> conn[c].end, up |-> conn[c].up, down |-> conn[c].down]
BY DEF ImportInv, TypeOK, Users, Links

LEMMA ClientActs ==
  ASSUME ImportInv, PapaInv', NEW c \in Clients, UNCHANGED server,
         NEW k \in Users, client' = [client EXCEPT ![c] = k],
         NEW l \in Links, conn' = [conn EXCEPT ![c] = l],
         NEW m \in Seq(Bytes), import' = [import EXCEPT ![c] = m],
         l.end = conn[c].end \/ {conn[c].end, l.end} \cap {"open", "queued"} = {},
         Conversing(c)'
  PROVE  ImportInv'
<1>1. /\ client \in [Clients -> Users] /\ conn \in [Clients -> Links]
      /\ import \in [Clients -> Seq(Bytes)] /\ TypeOK /\ ServerSide
  BY DEF ImportInv, TypeOK, Users, Links
<1>2. /\ client' \in [Clients -> Users] /\ conn' \in [Clients -> Links]
      /\ import' \in [Clients -> Seq(Bytes)]
  BY <1>1
<1>3. /\ conn'[c] = l
      /\ \A d \in Clients \ {c} :
           client'[d] = client[d] /\ conn'[d] = conn[d] /\ import'[d] = import[d]
  BY <1>1
<1>4. TypeOK'
  BY <1>1, <1>2 DEF TypeOK, server, mainvars, Users, Links
<1>5. ServerSide'
  <2>1. \A d \in Clients :
          \/ conn'[d].end = conn[d].end
          \/ {conn[d].end, conn'[d].end} \cap {"open", "queued"} = {}
    BY <1>3
  <2> QED
    BY <1>1, <2>1, ClientsConnectionsStay DEF server
<1>6. \A d \in Clients \ {c} : Conversing(d)'
  BY <1>3, Undisturbed DEF server, ImportInv
<1> QED
  BY <1>4, <1>5, <1>6 DEF ImportInv

(* A client leaves: its executant, if it has one, is not told.             *)
LEMMA LeavesKeepsInv ==
  ASSUME ImportInv, PapaInv', NEW c \in Clients, NEW how \in {"shell", "done"},
         ~ Left(c), Leaves(c, how), UNCHANGED <<server, import>>,
         how = "done" => Copied(c)
  PROVE  ImportInv'
<1>1. /\ Conversing(c) /\ client[c] \in Users /\ conn[c] \in Links
      /\ import[c] \in Seq(Bytes) /\ TypeOK
      /\ client[c] = [pc |-> client[c].pc, file |-> client[c].file]
      /\ conn[c] = [end |-> conn[c].end, up |-> conn[c].up, down |-> conn[c].down]
  BY ClientFacts
<1>2. client[c].file \in Names /\ conn[c].end # "none"
  BY <1>1 DEF Left, Conversing
<1>3. PICK k : k = IF how = "done" THEN [client[c] EXCEPT !.pc = how] ELSE Shell
  OBVIOUS
<1>4. PICK l : l = IF conn[c].end \in {"closed", "reset"} THEN Link("none")
                   ELSE [conn[c] EXCEPT !.down = <<>>]
  OBVIOUS
<1>5. PICK m : m = import[c]
  OBVIOUS
<1>6. /\ k \in Users /\ k.pc = how /\ (how = "done" => k.file = client[c].file)
  BY <1>1, <1>3 DEF Users, Shell
<1>7. <<>> \in Seq(Parts) /\ <<>> \in Seq({Found} \cup Bytes)
  BY EmptySeq
<1>8. /\ l \in Links
      /\ \/ Ended(c) /\ l.end = "none"
         \/ ~ Ended(c) /\ l.end = conn[c].end /\ l.up = conn[c].up
  BY <1>1, <1>4, <1>7 DEF Link, Links, Ended
<1>9. client' = [client EXCEPT ![c] = k] /\ client'[c] = k
  BY <1>1, <1>3 DEF Leaves, TypeOK
<1>10. conn' = [conn EXCEPT ![c] = l] /\ conn'[c] = l
  BY <1>1, <1>4 DEF Leaves, TypeOK
<1>11. import' = [import EXCEPT ![c] = m] /\ import'[c] = import[c] /\ m \in Seq(Bytes)
  BY <1>1, <1>5 DEF TypeOK
<1>12. Left(c)' /\ ~ Ended(c)'
  BY <1>6, <1>8, <1>9, <1>10 DEF Left, Ended
<1>13. conn'[c].end = "queued" => Unread(c)'
  BY <1>1, <1>8, <1>10, <1>12 DEF Conversing, Unread
<1>14. \A e \in Slots : exec'[e].serves = c => TalksTo(e, c)'
  <2> SUFFICES ASSUME NEW e \in Slots, exec'[e].serves = c
               PROVE  TalksTo(e, c)'
    OBVIOUS
  <2>1. exec'[e] = exec[e] /\ TalksTo(e, c)
    BY <1>1 DEF Conversing, server
  <2>2. conn[c].end = "open"
    BY <2>1, OldAssumption DEF ImportInv, ServerSide, Serving
  <2>3. conn'[c].up = conn[c].up
    BY <1>8, <1>10, <2>2 DEF Ended
  <2> QED
    BY <1>12, <2>1, <2>3 DEF TalksTo, Unread, TypeRead
<1>15. client'[c].pc = "done" => Copied(c)'
  BY <1>6, <1>9, <1>11 DEF Copied, Offsets, Whole, server
<1>16. client'[c].pc # "shell" => client'[c].file \in Names
  BY <1>2, <1>6, <1>9
<1>17. Conversing(c)'
  BY <1>12, <1>13, <1>14, <1>15, <1>16 DEF Conversing
<1>18. l.end = conn[c].end \/ {conn[c].end, l.end} \cap {"open", "queued"} = {}
  BY <1>8 DEF Ended
<1>19. UNCHANGED server
  OBVIOUS
<1> QED
  BY <1>6, <1>8, <1>9, <1>10, <1>11, <1>17, <1>18, <1>19, ClientActs

LEMMA ErrorKeepsInv ==
  ASSUME ImportInv, PapaInv', NEW c \in Clients,
         WriteExits(c) \/ ReadExits(c) \/ ReadnExits(c) \/ ClientStops(c)
  PROVE  ImportInv'
<1>1. ~ Left(c) /\ Leaves(c, "shell") /\ UNCHANGED <<server, import>>
  BY DEF WriteExits, ReadExits, ReadnExits, ClientStops, unix_error, Left
<1> QED
  BY <1>1, LeavesKeepsInv

LEMMA ConnectKeepsInv ==
  ASSUME ImportInv, PapaInv', NEW c \in Clients, Connect(c)
  PROVE  ImportInv'
<1>1. TypeOK /\ ServerSide /\ conn[c].end = "none"
  BY DEF ImportInv, Connect
<1>2. PICK f \in Names : client' = [client EXCEPT ![c] = [pc |-> "type", file |-> f]]
  BY DEF Connect
<1>3. PICK l : l = Link("queued")
  OBVIOUS
<1>4. l \in Links /\ l.end = "queued" /\ l.up = <<>> /\ l.down = <<>>
  BY <1>3, EmptySeq DEF Link, Links
<1>5. /\ conn' = [conn EXCEPT ![c] = l] /\ conn'[c] = l
      /\ \A d \in Clients \ {c} : conn'[d] = conn[d]
  BY <1>1, <1>3 DEF Connect, Connected, TypeOK
<1>6. /\ client'[c].pc = "type" /\ client'[c].file = f
      /\ \A d \in Clients \ {c} : client'[d] = client[d]
  BY <1>1, <1>2 DEF TypeOK
<1>7. UNCHANGED <<mainvars, exec, pending, import>> /\ cut' = cut \ {c}
  BY DEF Connect
<1>8. ServerSide'
  BY <1>1, ConnectQueues
<1>9. TypeOK'
  <2>1. backlog' \in Seq(Clients)
    BY <1>1, AppendProperties DEF Connect, Connected, TypeOK
  <2>2. conn' \in [Clients -> Links]
    BY <1>1, <1>4, <1>5 DEF TypeOK, Links
  <2>3. client' \in [Clients -> Users]
    <3>1. [pc |-> "type", file |-> f] \in Users
      BY DEF Users
    <3>2. client \in [Clients -> Users]
      BY <1>1 DEF TypeOK, Users
    <3> QED
      BY <1>2, <3>1, <3>2
  <2> QED
    BY <1>1, <1>7, <2>1, <2>2, <2>3 DEF TypeOK, mainvars, Users, Links
<1>10. Conversing(c)'
  <2>1. \A e \in Slots : exec'[e].serves # c
    BY <1>1, <1>7, OldAssumption DEF ServerSide, Serving
  <2>2. ~ Left(c)' /\ ~ Ended(c)'
    BY <1>4, <1>5, <1>6 DEF Left, Ended
  <2>3. Unread(c)'
    BY <1>4, <1>5, <1>6 DEF Unread, Written
  <2> QED
    BY <1>4, <1>5, <1>6, <2>1, <2>2, <2>3 DEF Conversing
<1>11. \A d \in Clients \ {c} : Conversing(d)'
  BY <1>5, <1>6, <1>7, Undisturbed DEF ImportInv
<1> QED
  BY <1>8, <1>9, <1>10, <1>11 DEF ImportInv

(* While it asks, nothing has been sent to a client.                       *)
LEMMA Asking ==
  ASSUME ImportInv, NEW c \in Clients, client[c].pc \in {"type", "name"}
  PROVE  /\ conn[c].end # "none"
         /\ conn[c].end = "queued" => Unread(c)
         /\ Ended(c) => c \in cut /\ conn[c].down = <<>>
         /\ \A e \in Slots : exec[e].serves = c =>
              \/ exec[e].pc \in {"greeting", "type"} /\ Unread(c)
              \/ exec[e].pc = "name" /\ client[c].pc = "name" /\ TypeRead(c)
<1>1. Conversing(c) /\ ~ Left(c)
  BY DEF ImportInv, Left
<1>2. \A k : ~ Streamed(c, k)
  BY DEF Streamed
<1>3. Ended(c) => c \in cut /\ conn[c].down = <<>>
  BY <1>1, <1>2 DEF Conversing, HasEnded, Unanswered
<1>4. ASSUME NEW e \in Slots, exec[e].serves = c
      PROVE  \/ exec[e].pc \in {"greeting", "type"} /\ Unread(c)
             \/ exec[e].pc = "name" /\ client[c].pc = "name" /\ TypeRead(c)
  <2>1. TalksTo(e, c) /\ exec[e].pc \in Talking
    BY <1>1, <1>4, OldAssumption DEF Conversing, ImportInv, ServerSide, Serving
  <2> QED
    BY <1>1, <1>2, <2>1 DEF TalksTo, Talking, TypeRead
<1> QED
  BY <1>1, <1>3, <1>4 DEF Conversing

LEMMA SecondPart ==
  ASSUME NEW f
  PROVE  Append(<<"GET">>, f) = <<"GET", f>>
<1>1. <<"GET">> \in Seq({"GET", f}) /\ Len(<<"GET">>) = 1 /\ <<"GET">>[1] = "GET"
  OBVIOUS
<1>2. /\ Append(<<"GET">>, f) \in Seq({"GET", f}) /\ Len(Append(<<"GET">>, f)) = 2
      /\ Append(<<"GET">>, f)[1] = "GET" /\ Append(<<"GET">>, f)[2] = f
  BY <1>1, AppendProperties
<1>3. /\ <<"GET", f>> \in Seq({"GET", f}) /\ Len(<<"GET", f>>) = 2
      /\ <<"GET", f>>[1] = "GET" /\ <<"GET", f>>[2] = f
  OBVIOUS
<1>4. \A j \in 1 .. 2 : j = 1 \/ j = 2
  OBVIOUS
<1>5. \A j \in 1 .. 2 : Append(<<"GET">>, f)[j] = <<"GET", f>>[j]
  BY <1>2, <1>3, <1>4
<1> QED
  BY <1>2, <1>3, <1>5, SeqEqual

LEMMA SendRequestKeepsInv ==
  ASSUME ImportInv, PapaInv', NEW c \in Clients, SendRequest(c)
  PROVE  ImportInv'
<1>1. /\ Conversing(c) /\ client[c] \in Users /\ conn[c] \in Links
      /\ import[c] \in Seq(Bytes) /\ TypeOK
      /\ client[c] = [pc |-> client[c].pc, file |-> client[c].file]
      /\ conn[c] = [end |-> conn[c].end, up |-> conn[c].up, down |-> conn[c].down]
  BY ClientFacts
<1>2. UNCHANGED <<server, import>>
  BY DEF SendRequest
<1>3. PICK data, next :
        /\ SendsRequest(c, data, next)
        /\ \/ client[c].pc = "type" /\ data = "GET" /\ next = "name"
           \/ client[c].pc = "name" /\ data = client[c].file /\ next = "status"
  BY DEF SendRequest
<1>4. client[c].pc \in {"type", "name"} /\ ~ Left(c) /\ client[c].file \in Names
  BY <1>1, <1>3 DEF Left, Conversing
<1>5. PICK k : k = [client[c] EXCEPT !.pc = next]
  OBVIOUS
<1>6. PICK l : l = IF conn[c].end \in {"queued", "open"} THEN [conn[c] EXCEPT !.up = Append(conn[c].up, data)]
                   ELSE [conn[c] EXCEPT !.end = "reset"]
  OBVIOUS
<1>7. PICK m : m = import[c]
  OBVIOUS
<1>8. k \in Users /\ k.pc = next /\ k.file = client[c].file
  BY <1>1, <1>3, <1>5 DEF Users
<1>9. data \in Parts /\ Append(conn[c].up, data) \in Seq(Parts)
  <2>1. data \in Parts
    BY <1>3, <1>4 DEF Parts
  <2> QED
    BY <1>1, <2>1, AppendProperties DEF Links
<1>10. /\ l \in Links /\ l.down = conn[c].down
       /\ \/ /\ conn[c].end \in {"queued", "open"} /\ l.end = conn[c].end
             /\ l.up = Append(conn[c].up, data)
          \/ Ended(c) /\ l.end = "reset"
  BY <1>1, <1>4, <1>6, <1>9, Asking DEF Links, Ended
<1>11. client' = [client EXCEPT ![c] = k] /\ client'[c] = k
  BY <1>1, <1>3, <1>5 DEF SendsRequest, ClientGoes, TypeOK
<1>12. conn' = [conn EXCEPT ![c] = l] /\ conn'[c] = l
  BY <1>1, <1>3, <1>6 DEF SendsRequest, TypeOK
<1>13. import' = [import EXCEPT ![c] = m] /\ m \in Seq(Bytes)
  BY <1>1, <1>2, <1>7 DEF TypeOK
<1>14. ~ Left(c)' /\ client'[c].pc \in {"name", "status"}
  BY <1>3, <1>8, <1>11 DEF Left
<1>15. conn[c].end \in {"queued", "open"} /\ Unread(c) => Unread(c)'
  <2> SUFFICES ASSUME conn[c].end \in {"queued", "open"}, Unread(c)
               PROVE  Unread(c)'
    OBVIOUS
  <2>1. conn[c].up = Written(c) /\ conn[c].down = <<>>
    BY <1>4 DEF Unread
  <2>2. conn'[c].up = Append(Written(c), data) /\ conn'[c].down = <<>>
    BY <1>10, <1>12, <2>1 DEF Ended
  <2>3. CASE client[c].pc = "type"
    <3>1. Append(<<>>, "GET") = <<"GET">>
      OBVIOUS
    <3> QED
      BY <1>3, <1>8, <1>11, <1>14, <2>2, <2>3, <3>1 DEF Unread, Written
  <2>4. CASE client[c].pc = "name"
    <3>1. Append(<<"GET">>, client[c].file) = <<"GET", client[c].file>>
      BY SecondPart
    <3> QED
      BY <1>3, <1>4, <1>8, <1>11, <1>14, <2>2, <2>4, <3>1 DEF Unread, Written
  <2> QED
    BY <1>4, <2>3, <2>4
<1>16. conn[c].end = "open" /\ client[c].pc = "name" /\ TypeRead(c) => TypeRead(c)'
  <2> SUFFICES ASSUME conn[c].end = "open", client[c].pc = "name", TypeRead(c)
               PROVE  TypeRead(c)'
    OBVIOUS
  <2>1. /\ Tail(<<"GET">>) = <<>> /\ Tail(<<"GET", client[c].file>>) = <<client[c].file>>
        /\ Append(<<>>, client[c].file) = <<client[c].file>>
    OBVIOUS
  <2>2. conn[c].up = <<>> /\ conn[c].down = <<>>
    BY <1>4, <2>1 DEF TypeRead, Written
  <2>3. conn'[c].up = <<client[c].file>> /\ conn'[c].down = <<>>
    BY <1>3, <1>10, <1>12, <2>1, <2>2 DEF Ended
  <2>4. client'[c].pc = "status" /\ client'[c].file = client[c].file
    BY <1>3, <1>8, <1>11
  <2> QED
    BY <1>4, <2>1, <2>3, <2>4 DEF TypeRead, Written
<1>17. \A e \in Slots : exec'[e].serves = c => TalksTo(e, c)'
  <2> SUFFICES ASSUME NEW e \in Slots, exec[e].serves = c
               PROVE  TalksTo(e, c)'
    BY <1>2 DEF server
  <2>1. exec'[e] = exec[e]
    BY <1>2 DEF server
  <2>2. conn[c].end = "open"
    BY OldAssumption DEF ImportInv, ServerSide, Serving
  <2>3. \/ exec[e].pc \in {"greeting", "type"} /\ Unread(c)
        \/ exec[e].pc = "name" /\ client[c].pc = "name" /\ TypeRead(c)
    BY <1>4, Asking
  <2> QED
    BY <1>15, <1>16, <2>1, <2>2, <2>3 DEF TalksTo
<1>18. Ended(c)' => HasEnded(c)'
  <2>1. Ended(c)' => Ended(c)
    BY <1>10, <1>12 DEF Ended
  <2>2. Ended(c) => c \in cut' /\ conn'[c].down = <<>>
    BY <1>2, <1>4, <1>10, <1>12, Asking DEF server
  <2> QED
    BY <1>14, <2>1, <2>2 DEF HasEnded, Unanswered
<1>19. conn'[c].end = "queued" => Unread(c)'
  BY <1>4, <1>10, <1>12, <1>15, Asking
<1>20. Conversing(c)'
  BY <1>4, <1>8, <1>10, <1>11, <1>12, <1>14, <1>17, <1>18, <1>19 DEF Conversing, Ended
<1>21. l.end = conn[c].end \/ {conn[c].end, l.end} \cap {"open", "queued"} = {}
  BY <1>10 DEF Ended
<1>22. UNCHANGED server
  BY <1>2
<1> QED
  BY <1>8, <1>10, <1>11, <1>12, <1>13, <1>20, <1>21, <1>22, ClientActs

LEMMA AfterFirst ==
  ASSUME NEW S, NEW x, NEW p \in Seq(S)
  PROVE  <<x>> \o p # <<>> /\ Tail(<<x>> \o p) = p
<1>1. PICK T : T = S \cup {x}
  OBVIOUS
<1>2. <<x>> \in Seq(T) /\ Len(<<x>>) = 1
  BY <1>1
<1>3. \A j \in 1 .. Len(p) : p[j] \in T
  BY <1>1, ElementOfSeq
<1>4. p \in Seq(T) /\ Len(p) \in Nat
  <2>1. p \in [1 .. Len(p) -> S] /\ Len(p) \in Nat
    BY LenProperties
  <2> QED
    BY <1>3, <2>1, SeqDef
<1>5. /\ <<x>> \o p \in Seq(T) /\ Len(<<x>> \o p) = 1 + Len(p)
      /\ \A j \in 1 .. 1 + Len(p) : (<<x>> \o p)[j] = IF j <= 1 THEN <<x>>[j] ELSE p[j - 1]
  BY <1>2, <1>4, ConcatProperties
<1>6. <<x>> \o p # <<>>
  BY <1>4, <1>5
<1>7. PICK t : t = Tail(<<x>> \o p)
  OBVIOUS
<1>8. /\ t \in Seq(T) /\ Len(t) = Len(<<x>> \o p) - 1
      /\ \A j \in 1 .. Len(t) : t[j] = (<<x>> \o p)[j + 1]
  BY <1>5, <1>6, <1>7, HeadTailProperties
<1>9. Len(t) = Len(p)
  BY <1>4, <1>5, <1>8
<1>10. \A j \in 1 .. Len(p) : t[j] = p[j]
  <2> TAKE j \in 1 .. Len(p)
  <2>1. j + 1 \in 1 .. 1 + Len(p) /\ ~ (j + 1 <= 1) /\ (j + 1) - 1 = j
    BY <1>4
  <2>2. (<<x>> \o p)[j + 1] = p[(j + 1) - 1]
    BY <1>5, <2>1
  <2> QED
    BY <1>8, <1>9, <2>1, <2>2
<1> QED
  BY <1>4, <1>6, <1>7, <1>8, <1>9, <1>10, SeqEqual

(* A client reads some of what was sent to it, and the rest stays.         *)
LEMMA ReadsOn ==
  ASSUME ImportInv, PapaInv', NEW c \in Clients, UNCHANGED server,
         client[c].pc \in {"status", "receive"}, conn[c].down # <<>>,
         NEW k \in Users, client' = [client EXCEPT ![c] = k],
         k.pc = "receive", k.file = client[c].file,
         NEW l \in Links, conn' = [conn EXCEPT ![c] = l],
         l.end = conn[c].end,
         NEW m \in Seq(Bytes), import' = [import EXCEPT ![c] = m],
         \A j \in Offsets(c) :
           Streamed(c, j) => m \o l.down = Prefix(client[c].file, j)
  PROVE  ImportInv'
<1>1. Conversing(c) /\ TypeOK /\ ServerSide /\ ~ Left(c)
  BY ClientFacts DEF Left
<1>2. client[c].file \in Names /\ conn[c].end # "none" /\ conn[c].end # "queued"
  BY <1>1 DEF Conversing, Left, Unread
<1>3. client'[c] = k /\ conn'[c] = l /\ import'[c] = m
  BY <1>1 DEF TypeOK
<1>4. \A j \in Offsets(c) : Streamed(c, j) => Streamed(c, j)'
  <2> SUFFICES ASSUME NEW j \in Offsets(c), Streamed(c, j)
               PROVE  Streamed(c, j)'
    OBVIOUS
  <2>1. m \o l.down = Prefix(client[c].file, j)
    OBVIOUS
  <2> QED
    BY <1>3, <2>1 DEF Streamed, Prefix
<1>5. Offsets(c)' = Offsets(c)
  BY <1>3 DEF Offsets
<1>6. ~ Left(c)'
  BY <1>3 DEF Left
<1>7. \A e \in Slots : exec'[e].serves = c => TalksTo(e, c)'
  <2> SUFFICES ASSUME NEW e \in Slots, exec[e].serves = c
               PROVE  TalksTo(e, c)'
    BY DEF server
  <2>1. exec'[e] = exec[e]
    BY DEF server
  <2>2. TalksTo(e, c) /\ exec[e].pc \in Talking
    BY <1>1, OldAssumption DEF Conversing, ServerSide, Serving
  <2>3. /\ exec[e].pc = "send" /\ exec[e].file = client[c].file
        /\ exec[e].sent \in Offsets(c) /\ Streamed(c, exec[e].sent)
    BY <1>1, <2>2 DEF TalksTo, Talking, Unread, TypeRead
  <2>4. PICK j : j = exec[e].sent
    OBVIOUS
  <2>5. exec'[e].sent = j /\ j \in Offsets(c)' /\ Streamed(c, j)'
    BY <1>4, <1>5, <2>1, <2>3, <2>4
  <2> QED
    BY <1>3, <2>1, <2>3, <2>5 DEF TalksTo, Streamed, Prefix
<1>8. Ended(c)' => HasEnded(c)'
  <2> SUFFICES ASSUME Ended(c)'
               PROVE  HasEnded(c)'
    OBVIOUS
  <2>1. HasEnded(c)
    BY <1>1, <1>3 DEF Conversing, Ended
  <2>2. PICK j \in Offsets(c) : Streamed(c, j) /\ (c \notin cut => Whole(c, j))
    BY <2>1 DEF HasEnded, Unanswered
  <2>3. j \in Offsets(c)' /\ Streamed(c, j)' /\ (c \notin cut' => Whole(c, j)')
    <3>1. Streamed(c, j)'
      BY <1>4, <2>2
    <3>2. c \notin cut' => Whole(c, j)'
      BY <1>3, <2>2 DEF Whole, server
    <3> QED
      BY <1>5, <3>1, <3>2
  <2> QED
    BY <1>6, <2>3 DEF HasEnded
<1>9. Conversing(c)'
  BY <1>2, <1>3, <1>7, <1>8 DEF Conversing
<1>10. UNCHANGED server
  OBVIOUS
<1> QED
  BY <1>9, <1>10, ClientActs

LEMMA ReadStatusKeepsInv ==
  ASSUME ImportInv, PapaInv', NEW c \in Clients, ReadStatus(c)
  PROVE  ImportInv'
<1>1. /\ Conversing(c) /\ client[c] \in Users /\ conn[c] \in Links /\ TypeOK /\ ServerSide
      /\ client[c] = [pc |-> client[c].pc, file |-> client[c].file]
      /\ conn[c] = [end |-> conn[c].end, up |-> conn[c].up, down |-> conn[c].down]
  BY ClientFacts
<1>2. client[c].pc = "status" /\ ~ Left(c) /\ UNCHANGED server
  BY DEF ReadStatus, Left
<1>3. client[c].file \in Names /\ conn[c].end # "none"
  BY <1>1, <1>2 DEF Conversing
<1>4. PICK k : k = [client[c] EXCEPT !.pc = "receive"]
  OBVIOUS
<1>5. k \in Users /\ k.pc = "receive" /\ k.file = client[c].file
  BY <1>1, <1>4 DEF Users
<1>6. <<>> \in Seq(Bytes) /\ \A s \in Seq(Bytes) : <<>> \o s = s
  BY EmptySeq, ConcatEmptySeq
<1>7. CASE conn[c].down # <<>> /\ Imports(c) /\ conn' = [conn EXCEPT ![c].down = Tail(@)]
  <2>1. client' = [client EXCEPT ![c] = k] /\ import' = [import EXCEPT ![c] = <<>>]
    BY <1>1, <1>4, <1>7 DEF Imports, ClientGoes, Truncated, TypeOK
  <2>2. PICK l : l = [conn[c] EXCEPT !.down = Tail(conn[c].down)]
    OBVIOUS
  <2>3. Tail(conn[c].down) \in Seq({Found} \cup Bytes)
    BY <1>1, <1>7, HeadTailProperties DEF Links
  <2>4. l \in Links /\ l.end = conn[c].end /\ l.down = Tail(conn[c].down)
    BY <1>1, <2>2, <2>3 DEF Links
  <2>5. conn' = [conn EXCEPT ![c] = l]
    BY <1>1, <1>7, <2>2 DEF TypeOK
  <2>6. \A j \in Offsets(c) : Streamed(c, j) => <<>> \o l.down = Prefix(client[c].file, j)
    <3> SUFFICES ASSUME NEW j \in Offsets(c), Streamed(c, j)
                 PROVE  <<>> \o l.down = Prefix(client[c].file, j)
      OBVIOUS
    <3>1. client[c].file \in DOMAIN Size /\ j \in 0 .. Size[client[c].file]
      BY DEF Offsets
    <3>2. PICK p : p = Prefix(client[c].file, j)
      OBVIOUS
    <3>3. p \in Seq(Bytes)
      BY <3>1, <3>2, PrefixIsBytes
    <3>4. conn[c].down = <<Found>> \o p
      BY <1>2, <3>2 DEF Streamed
    <3>5. Tail(<<Found>> \o p) = p
      BY <3>3, AfterFirst
    <3> QED
      BY <1>6, <2>4, <3>2, <3>3, <3>4, <3>5
  <2>7. client[c].pc \in {"status", "receive"} /\ conn[c].down # <<>> /\ UNCHANGED server
    BY <1>2, <1>7
  <2> QED
    BY <1>5, <1>6, <2>1, <2>4, <2>5, <2>6, <2>7, ReadsOn
<1>8. CASE conn[c].down = <<>> /\ Ended(c) /\ Imports(c) /\ UNCHANGED conn
  <2>1. client' = [client EXCEPT ![c] = k] /\ import' = [import EXCEPT ![c] = <<>>]
    BY <1>1, <1>4, <1>8 DEF Imports, ClientGoes, Truncated, TypeOK
  <2>2. PICK l : l = conn[c]
    OBVIOUS
  <2>3. l \in Links /\ l.end = conn[c].end /\ conn' = [conn EXCEPT ![c] = l]
    BY <1>1, <1>8, <2>2 DEF TypeOK
  <2>4. client'[c] = k /\ import'[c] = <<>> /\ conn'[c] = conn[c]
    BY <1>1, <1>8, <2>1 DEF TypeOK
  <2>5. c \in cut
    <3>1. \A j \in Offsets(c) : ~ Streamed(c, j)
      <4> SUFFICES ASSUME NEW j \in Offsets(c), Streamed(c, j)
                   PROVE  FALSE
        OBVIOUS
      <4>1. client[c].file \in DOMAIN Size /\ j \in 0 .. Size[client[c].file]
        BY DEF Offsets
      <4>2. PICK p : p = Prefix(client[c].file, j)
        OBVIOUS
      <4>3. p \in Seq(Bytes) /\ conn[c].down = <<Found>> \o p
        BY <1>2, <4>1, <4>2, PrefixIsBytes DEF Streamed
      <4> QED
        BY <1>8, <4>3, AfterFirst
    <3> QED
      BY <1>1, <1>8, <3>1 DEF Conversing, HasEnded
  <2>6. \A e \in Slots : exec'[e].serves # c
    BY <1>1, <1>2, <1>8, OldAssumption DEF Ended, ServerSide, Serving, server
  <2>7. HasEnded(c)'
    BY <1>2, <1>5, <1>8, <2>4, <2>5 DEF HasEnded, Unanswered, Left, server
  <2>8. Conversing(c)'
    BY <1>3, <1>5, <1>8, <2>4, <2>6, <2>7 DEF Conversing, Ended
  <2>9. UNCHANGED server
    BY <1>2
  <2> QED
    BY <1>5, <1>6, <2>1, <2>3, <2>8, <2>9, ClientActs
<1>9. CASE Leaves(c, "shell") /\ UNCHANGED import
  BY <1>2, <1>9, LeavesKeepsInv
<1> QED
  BY <1>7, <1>8, <1>9 DEF ReadStatus

LEMMA ReceiveKeepsInv ==
  ASSUME ImportInv, PapaInv', NEW c \in Clients, Receive(c)
  PROVE  ImportInv'
<1>1. /\ Conversing(c) /\ client[c] \in Users /\ conn[c] \in Links /\ TypeOK /\ ServerSide
      /\ import[c] \in Seq(Bytes)
      /\ client[c] = [pc |-> client[c].pc, file |-> client[c].file]
      /\ conn[c] = [end |-> conn[c].end, up |-> conn[c].up, down |-> conn[c].down]
  BY ClientFacts
<1>2. client[c].pc = "receive" /\ ~ Left(c) /\ UNCHANGED server
  BY DEF Receive, Left
<1>3. PICK d : d = conn[c].down
  OBVIOUS
<1>4. PICK r : r = Received(c)
  OBVIOUS
<1>5. d \in Seq({Found} \cup Bytes) /\ Len(d) \in Nat /\ r \in 0 .. Len(d)
  <2>1. d \in Seq({Found} \cup Bytes)
    BY <1>1, <1>3 DEF Links
  <2> QED
    BY <1>3, <1>4, <2>1, LenProperties, OldAssumption DEF Received
<1>6. CASE /\ r > 0
           /\ import' = [import EXCEPT ![c] = @ \o SubSeq(d, 1, r)]
           /\ conn' = [conn EXCEPT ![c].down = SubSeq(@, r + 1, Len(@))]
           /\ UNCHANGED client
  <2>1. PICK a : a = SubSeq(d, 1, r)
    OBVIOUS
  <2>2. PICK b : b = SubSeq(d, r + 1, Len(d))
    OBVIOUS
  <2>3. PICK g : g = import[c]
    OBVIOUS
  <2>4. /\ a \in Seq({Found} \cup Bytes) /\ b \in Seq({Found} \cup Bytes) /\ a \o b = d
        /\ g \in Seq(Bytes) /\ g \in Seq({Found} \cup Bytes)
    <3>1. a \in Seq({Found} \cup Bytes) /\ b \in Seq({Found} \cup Bytes) /\ a \o b = d
      BY <1>5, <2>1, <2>2, ReadCuts
    <3>2. g \in Seq({Found} \cup Bytes)
      <4>1. \A j \in 1 .. Len(g) : g[j] \in {Found} \cup Bytes
        BY <1>1, <2>3, ElementOfSeq
      <4>2. g \in [1 .. Len(g) -> Bytes] /\ Len(g) \in Nat
        BY <1>1, <2>3, LenProperties
      <4> QED
        BY <4>1, <4>2, SeqDef
    <3> QED
      BY <1>1, <2>3, <3>1, <3>2
  <2>5. (g \o a) \o b = g \o d
    <3>1. \A x, y, z \in Seq({Found} \cup Bytes) : (x \o y) \o z = x \o (y \o z)
      BY ConcatAssociative
    <3> QED
      BY <2>4, <3>1
  <2>6. PICK m : m = g \o a
    OBVIOUS
  <2>7. d # <<>>
    BY <1>5, <1>6
  <2>8. \E j \in Offsets(c) : g \o d = Prefix(client[c].file, j)
    <3>1. \E j \in Offsets(c) : Streamed(c, j)
      <4>1. CASE Ended(c)
        BY <1>1, <1>3, <2>7, <4>1 DEF Conversing, HasEnded, Unanswered
      <4>2. CASE ~ Ended(c)
        <5>1. conn[c].end = "open"
          BY <1>1, <1>2, <4>2 DEF Conversing, Unread, Links, Ended
        <5>2. PICK e \in Slots : exec[e].serves = c
          BY <1>1, <5>1 DEF ServerSide, Serving
        <5>3. TalksTo(e, c) /\ exec[e].pc \in Talking
          BY <1>1, <5>2, OldAssumption DEF Conversing, ServerSide, Serving
        <5> QED
          BY <1>2, <5>3 DEF TalksTo, Talking, Unread, TypeRead
      <4> QED
        BY <4>1, <4>2
    <3> QED
      BY <1>2, <1>3, <2>3, <3>1 DEF Streamed
  <2>9. m \in Seq(Bytes)
    <3>1. PICK j \in Offsets(c) : g \o d = Prefix(client[c].file, j)
      BY <2>8
    <3>2. client[c].file \in DOMAIN Size /\ j \in 0 .. Size[client[c].file]
      BY DEF Offsets
    <3>3. m \o b \in Seq(Bytes)
      <4>1. Prefix(client[c].file, j) \in Seq(Bytes)
        BY <3>2, PrefixIsBytes
      <4>2. m \o b = Prefix(client[c].file, j)
        BY <2>5, <2>6, <3>1
      <4> QED
        BY <4>1, <4>2
    <3>4. m \in Seq({Found} \cup Bytes)
      BY <2>4, <2>6, ConcatProperties
    <3> QED
      BY <2>4, <3>3, <3>4, PartsOfBytes
  <2>10. PICK l : l = [conn[c] EXCEPT !.down = b]
    OBVIOUS
  <2>11. l \in Links /\ l.end = conn[c].end /\ l.down = b
    BY <1>1, <2>4, <2>10 DEF Links
  <2>12. conn' = [conn EXCEPT ![c] = l]
    BY <1>1, <1>3, <1>6, <2>2, <2>10 DEF TypeOK
  <2>13. import' = [import EXCEPT ![c] = m]
    BY <1>6, <2>1, <2>3, <2>6
  <2>14. PICK k : k = client[c]
    OBVIOUS
  <2>15. /\ k \in Users /\ k.pc = "receive" /\ k.file = client[c].file
         /\ client' = [client EXCEPT ![c] = k]
    BY <1>1, <1>2, <1>6, <2>14 DEF TypeOK
  <2>16. \A j \in Offsets(c) : Streamed(c, j) => m \o l.down = Prefix(client[c].file, j)
    BY <1>2, <1>3, <2>3, <2>5, <2>6, <2>11 DEF Streamed
  <2>17. client[c].pc \in {"status", "receive"} /\ conn[c].down # <<>> /\ UNCHANGED server
    BY <1>2, <1>3, <2>7
  <2> QED
    BY <2>9, <2>11, <2>12, <2>13, <2>15, <2>16, <2>17, ReadsOn
<1>7. CASE r = 0 /\ Leaves(c, "done") /\ UNCHANGED import
  <2>1. Len(d) = 0 /\ Ended(c)
    BY <1>3, <1>4, <1>5, <1>7, OldAssumption DEF Receive, Received
  <2>2. d = <<>>
    BY <1>5, <2>1, EmptySeq
  <2>3. import[c] \o <<>> = import[c]
    BY <1>1, ConcatEmptySeq
  <2>4. \A j : Streamed(c, j) => import[c] = Prefix(client[c].file, j)
    BY <1>2, <1>3, <2>2, <2>3 DEF Streamed
  <2>5. HasEnded(c)
    BY <1>1, <2>1 DEF Conversing
  <2>6. Copied(c)
    BY <1>2, <2>4, <2>5 DEF HasEnded, Copied, Unanswered
  <2> QED
    BY <1>2, <1>7, <2>6, LeavesKeepsInv
<1> QED
  BY <1>3, <1>4, <1>6, <1>7 DEF Receive

-----------------------------------------------------------------------------
(* The theorems.                                                           *)

LEMMA ImportInit == Init => ImportInv
<1> SUFFICES ASSUME Init
             PROVE  ImportInv
  OBVIOUS
<1>1. <<>> \in Seq(Parts) /\ <<>> \in Seq({Found} \cup Bytes) /\ <<>> \in Seq(Bytes)
      /\ <<>> \in Seq(Clients)
  BY EmptySeq
<1>2. 1 \in 1 .. NPROC + 1
  BY OldAssumption
<1>3. TypeOK
  BY <1>1, <1>2 DEF Init, TypeOK, At, With, Shell, Link
<1>4. PapaInv
  BY PapaInit
<1>5. ServerSide
  BY DEF Init, ServerSide, Serving, Queueing, NotYetForked, At, With, Link, Talking
<1>6. ASSUME NEW c \in Clients
      PROVE  Conversing(c)
  BY OldAssumption DEF Init, Conversing, Left, Ended, Shell, Link, At, With
<1> QED
  BY <1>3, <1>4, <1>5, <1>6 DEF ImportInv

LEMMA ImportStep == ImportInv /\ [Next]_vars => ImportInv'
<1> SUFFICES ASSUME ImportInv, [Next]_vars
             PROVE  ImportInv'
  OBVIOUS
<1>1. PapaInv'
  BY PapaStep DEF ImportInv
<1>2. CASE MainStep
  BY <1>1, <1>2, MainKeepsImport
<1>3. CASE CtrlC
  BY <1>1, <1>3, SignalKeepsImport DEF CtrlC
<1>4. CASE \E p \in {0} \cup Slots : DieOfSignal(p) \/ KillOne(p)
  <2> SUFFICES ASSUME NEW p \in {0} \cup Slots, DieOfSignal(p) \/ KillOne(p)
               PROVE  ImportInv'
    BY <1>4
  <2>1. CASE KillOne(p)
    BY <1>1, <2>1, SignalKeepsImport DEF KillOne
  <2>2. CASE DieOfSignal(p) /\ p = 0
    BY <1>1, <2>2, MainEndsKeepsInv DEF DieOfSignal
  <2>3. CASE DieOfSignal(p) /\ p # 0
    <3>1. p \in Slots /\ ExecutantEnds(p) /\ UNCHANGED <<client, import>>
      BY <2>3 DEF DieOfSignal
    <3>2. exec[p].pc # "none"
      BY <2>3 DEF DieOfSignal, ImportInv, PapaInv, SignalsReachTheLiving, Pool
    <3> QED
      BY <1>1, <3>1, <3>2, ExecutantEndsKeepsInv
  <2> QED
    BY <2>1, <2>2, <2>3
<1>5. CASE \E e \in Slots : ExecutantStep(e) \/ AcceptFails(e) \/ GreetingFails(e)
  BY <1>1, <1>5, ExecutantKeepsImport
<1>6. CASE \E c \in Clients :
             \/ Connect(c) \/ ClientStep(c)
             \/ ReadExits(c) \/ ReadnExits(c) \/ ClientStops(c)
  BY <1>1, <1>6, ConnectKeepsInv, SendRequestKeepsInv, ReadStatusKeepsInv,
     ReceiveKeepsInv, ErrorKeepsInv DEF ClientStep
<1>7. CASE UNCHANGED vars
  <2>1. TypeOK /\ ServerSide /\ exec \in [Slots -> Executants]
    BY DEF ImportInv, TypeOK, Executants
  <2>2. UNCHANGED <<mainvars, exec, conn, backlog, client, import, cut>>
    BY <1>7 DEF vars, server
  <2>3. NotYetForked'
    BY <2>1, <2>2 DEF ServerSide, NotYetForked, mainvars
  <2> QED
    BY <1>1, <2>1, <2>2, <2>3, ConnectionsStay
<1> QED
  BY <1>2, <1>3, <1>4, <1>5, <1>6, <1>7 DEF Next

LEMMA ImportAlways == Spec => []ImportInv
<1> QED
  BY ImportInit, ImportStep, PTL DEF Spec

(* What has been sent to a client that receives.                           *)
LEMMA ReceivesOneFile ==
  ASSUME ImportInv, NEW c \in Clients, client[c].pc = "receive"
  PROVE  \/ import[c] = <<>>
         \/ \E k \in Offsets(c) : import[c] \o conn[c].down = Prefix(client[c].file, k)
<1>1. Conversing(c) /\ ServerSide /\ conn[c] \in Links /\ ~ Left(c)
  BY ClientFacts DEF Left
<1>2. CASE Ended(c)
  BY <1>1, <1>2 DEF Conversing, HasEnded, Unanswered, Streamed
<1>3. CASE ~ Ended(c)
  <2>1. conn[c].end = "open"
    BY <1>1, <1>3 DEF Conversing, Unread, Links, Ended
  <2>2. PICK e \in Slots : exec[e].serves = c
    BY <1>1, <2>1 DEF ServerSide, Serving
  <2>3. TalksTo(e, c) /\ exec[e].pc \in Talking
    BY <1>1, <2>2, OldAssumption DEF Conversing, ServerSide, Serving
  <2> QED
    BY <1>1, <2>3 DEF TalksTo, Talking, Unread, TypeRead, Streamed
<1> QED
  BY <1>2, <1>3

LEMMA CopiesOneFile ==
  ASSUME ImportInv, NEW c \in Clients, client[c].pc \in {"receive", "done"}
  PROVE  \/ import[c] = <<>>
         \/ \E k \in Offsets(c) : import[c] = Prefix(client[c].file, k)
<1>1. CASE client[c].pc = "done"
  BY <1>1 DEF ImportInv, Conversing, Copied
<1>2. CASE client[c].pc = "receive" /\ import[c] # <<>>
  <2>1. PICK k \in Offsets(c) : import[c] \o conn[c].down = Prefix(client[c].file, k)
    BY <1>2, ReceivesOneFile
  <2>2. client[c].file \in DOMAIN Size /\ k \in 0 .. Size[client[c].file]
    BY DEF Offsets
  <2>3. import[c] \in Seq(Bytes) /\ conn[c].down \in Seq({Found} \cup Bytes)
    BY ClientFacts DEF Links
  <2>4. import[c] \in Seq({Found} \cup Bytes)
    <3>1. \A j \in 1 .. Len(import[c]) : import[c][j] \in {Found} \cup Bytes
      BY <2>3, ElementOfSeq
    <3>2. import[c] \in [1 .. Len(import[c]) -> Bytes] /\ Len(import[c]) \in Nat
      BY <2>3, LenProperties
    <3> QED
      BY <3>1, <3>2, SeqDef
  <2>5. conn[c].down \in Seq(Bytes)
    <3>1. import[c] \o conn[c].down \in Seq(Bytes)
      BY <2>1, <2>2, PrefixIsBytes
    <3> QED
      BY <2>3, <2>4, <3>1, PartsOfBytes
  <2>6. /\ Len(import[c]) \in 0 .. Size[client[c].file]
        /\ import[c] = Prefix(client[c].file, Len(import[c]))
    BY <2>1, <2>2, <2>3, <2>5, BeginsWith
  <2> QED
    BY <2>2, <2>6 DEF Offsets
<1> QED
  BY <1>1, <1>2

(* The variables of the server of Etape I, of its clients and of their     *)
(* connections have their types, import.txt and what is under way to it    *)
(* included: no step takes a file for another or goes past its end.        *)
THEOREM OldTypes == Spec => []TypeOK
<1>1. ImportInv => TypeOK
  BY DEF ImportInv
<1> QED
  BY <1>1, ImportAlways, PTL

(* From open_importtxt's O_TRUNC to the last Rio_readn of the client,      *)
(* whatever processes are stopped in between, import.txt holds the first   *)
(* bytes of the one file that was asked for.                               *)
THEOREM ImportHoldsOneFile == Spec => []ImportIsOneFile
<1>1. ImportInv => ImportIsOneFile
  <2> SUFFICES ASSUME ImportInv, NEW c \in Clients, client[c].pc \in {"receive", "done"}
               PROVE  /\ Len(import[c]) <= Len(Asked(c))
                      /\ import[c] = SubSeq(Asked(c), 1, Len(import[c]))
    BY DEF ImportIsOneFile
  <2>1. CASE import[c] = <<>>
    <3>1. Len(import[c]) = 0 /\ SubSeq(Asked(c), 1, 0) = <<>>
      BY <2>1, SubSeqEmpty
    <3>2. Len(Asked(c)) \in Nat
      <4>1. CASE client[c].file \in DOMAIN Size
        BY <4>1, FileIsBytes DEF Asked
      <4>2. CASE client[c].file \notin DOMAIN Size
        BY <4>2 DEF Asked
      <4> QED
        BY <4>1, <4>2
    <3> QED
      BY <2>1, <3>1, <3>2
  <2>2. CASE \E k \in Offsets(c) : import[c] = Prefix(client[c].file, k)
    <3>1. PICK k \in Offsets(c) : import[c] = Prefix(client[c].file, k)
      BY <2>2
    <3>2. client[c].file \in DOMAIN Size /\ k \in 0 .. Size[client[c].file]
      BY DEF Offsets
    <3>3. Len(import[c]) = k /\ Len(Asked(c)) = Size[client[c].file]
          /\ Asked(c) = File(client[c].file) /\ Size[client[c].file] \in Nat
      BY <3>1, <3>2, PrefixIsBytes, FileIsBytes DEF Asked
    <3> QED
      BY <3>1, <3>2, <3>3 DEF Prefix
  <2> QED
    BY <2>1, <2>2, CopiesOneFile
<1> QED
  BY <1>1, ImportAlways, PTL

(* The client takes the end of the connection for the end of the file: it  *)
(* is, unless the process at the other end of it ended.                    *)
THEOREM EndMeansEnd == Spec => []EndIsTheEnd
<1>1. ImportInv => EndIsTheEnd
  <2> SUFFICES ASSUME ImportInv, NEW c \in Clients, c \notin cut, client[c].pc = "done"
               PROVE  import[c] = Asked(c)
    BY DEF EndIsTheEnd
  <2>1. PICK k \in Offsets(c) : import[c] = Prefix(client[c].file, k) /\ Whole(c, k)
    BY DEF ImportInv, Conversing, Copied
  <2>2. client[c].file \in DOMAIN Size /\ k = Size[client[c].file]
    BY <2>1 DEF Offsets, Whole
  <2> QED
    BY <2>1, <2>2, PrefixEnds DEF Asked
<1> QED
  BY <1>1, ImportAlways, PTL

-----------------------------------------------------------------------------
(* Who ends.                                                               *)

(* A step that is not of an executant ends it only by a signal.            *)
LEMMA OthersEndNobody ==
  ASSUME ImportInv, NEW e \in Slots, e \in Pool, e \notin Pool',
         \/ MainStep \/ \E P : SIGINT(P)
         \/ \E p \in {0} \cup Slots : DieOfSignal(p)
         \/ \E c \in Clients : \/ Connect(c) \/ ClientStep(c)
                               \/ ReadExits(c) \/ ReadnExits(c) \/ ClientStops(c)
  PROVE  e \in pending
<1>1. exec \in [Slots -> Executants] /\ PapaInv /\ NPROC \in Nat
  BY OldAssumption DEF ImportInv, TypeOK, Executants
<1>2. exec[e].pc \notin {"none", "zombie", "reaped"}
      /\ exec'[e].pc \in {"none", "zombie", "reaped"}
  BY DEF Pool
<1>3. CASE MainStep
  <2>1. CASE Fork
    <3>1. At("accept").pc = "accept"
      BY DEF At, With
    <3> QED
      BY <1>1, <1>2, <2>1, <3>1 DEF Fork
  <2>2. CASE PapaWaits
    <3>1. PICK d : d \in Slots /\ exec[d].pc = "zombie" /\ exec' = [exec EXCEPT ![d] = At("reaped")]
      BY <1>1, <2>2 DEF PapaWaits, PapaInv, LoopInBounds
    <3>2. d # e
      BY <1>2, <3>1
    <3> QED
      BY <1>1, <1>2, <3>1, <3>2
  <2>3. CASE Listen \/ ListenExits \/ SetHandler \/ EnterPapa \/ PapaKills \/ WaitpidExits
             \/ PapaLeaves
    <3>1. exec' = exec
      BY <2>3 DEF Listen, ListenExits, SetHandler, EnterPapa, PapaKills, WaitpidExits,
                  PapaLeaves, MainEnds
    <3> QED
      BY <1>2, <3>1
  <2> QED
    BY <1>3, <2>1, <2>2, <2>3 DEF MainStep
<1>4. CASE \E P : SIGINT(P)
  BY <1>2, <1>4 DEF SIGINT
<1>5. CASE \E p \in {0} \cup Slots : DieOfSignal(p)
  <2>1. PICK p \in {0} \cup Slots : DieOfSignal(p)
    BY <1>5
  <2>2. p # 0
    <3>1. p = 0 => exec' = exec
      BY <2>1 DEF DieOfSignal, MainEnds
    <3> QED
      BY <1>2, <3>1
  <2>3. p \in pending /\ exec' = [exec EXCEPT ![p] = At("zombie")]
    BY <2>1, <2>2 DEF DieOfSignal, ExecutantEnds
  <2> QED
    BY <1>1, <1>2, <2>3
<1>6. CASE \E c \in Clients : \/ Connect(c) \/ ClientStep(c)
                             \/ ReadExits(c) \/ ReadnExits(c) \/ ClientStops(c)
  <2>1. exec' = exec
    BY <1>6 DEF Connect, ClientStep, SendRequest, WriteExits, ReadStatus, Receive, ReadExits,
                ReadnExits, ClientStops, unix_error, server
  <2> QED
    BY <1>2, <2>1
<1> QED
  BY <1>3, <1>4, <1>5, <1>6

(* What an executant does that does not end it, and what it leaves alone.  *)
LEMMA ExecutantsEnd ==
  ASSUME ImportInv, NEW e \in Slots, e \in Pool, e \notin Pool', NEW d \in Slots,
         ExecutantStep(d) \/ AcceptFails(d) \/ GreetingFails(d)
  PROVE  d = e /\ (OpenExits(e) \/ SendFails(e) \/ AcceptFails(e) \/ GreetingFails(e))
<1>1. exec \in [Slots -> Executants]
  BY DEF ImportInv, TypeOK, Executants
<1>2. exec[e].pc \notin {"none", "zombie", "reaped"}
      /\ exec'[e].pc \in {"none", "zombie", "reaped"}
  BY DEF Pool
<1>3. /\ \A pc, c, f : With(pc, c, f).pc = pc /\ At(pc).pc = pc
      /\ \A pc \in STRING : [exec[d] EXCEPT !.pc = pc].pc = pc
      /\ \A n : [exec[d] EXCEPT !.sent = n].pc = exec[d].pc
  BY <1>1 DEF With, At, Executants
<1>4. PICK r : exec' = [exec EXCEPT ![d] = r]
  BY DEF ExecutantStep, Accept, AcceptFails, Greet, GreetingFails, ReadType, ReadName,
         SkipRequest, Returns, OpenFile, OpenExits, SendSome, SendFails, SendEnds,
         ExecutantGoes, ExecutantEnds
<1>5. d = e
  BY <1>1, <1>2, <1>4
<1>6. ~ (Accept(e) \/ Greet(e) \/ ReadType(e) \/ ReadName(e) \/ SkipRequest(e)
         \/ OpenFile(e) \/ SendSome(e) \/ SendEnds(e))
  <2>1. \A x : exec' = [exec EXCEPT ![e] = x] => exec'[e] = x
    BY <1>1
  <2>2. ~ (Accept(e) \/ Greet(e) \/ ReadName(e) \/ SkipRequest(e) \/ SendEnds(e))
    <3>1. ASSUME Accept(e) \/ Greet(e) \/ ReadName(e) \/ SkipRequest(e) \/ SendEnds(e)
          PROVE  \E pc \in {"greeting", "type", "open", "accept"} : \E c, f :
                   exec' = [exec EXCEPT ![e] = With(pc, c, f)]
      <4>1. At("accept") = With("accept", None, None)
        BY DEF At
      <4>2. (SkipRequest(e) \/ SendEnds(e)) => exec' = [exec EXCEPT ![e] = At("accept")]
        BY DEF SkipRequest, SendEnds, Returns
      <4> QED
        BY <3>1, <4>1, <4>2 DEF Accept, Greet, ReadName
    <3>2. ASSUME NEW pc \in {"greeting", "type", "open", "accept"}, NEW c, NEW f,
                 exec' = [exec EXCEPT ![e] = With(pc, c, f)]
          PROVE  FALSE
      <4>1. exec'[e] = With(pc, c, f)
        BY <2>1, <3>2
      <4>2. With(pc, c, f).pc = pc
        BY <1>3
      <4> QED
        BY <1>2, <4>1, <4>2
    <3> QED
      BY <3>1, <3>2
  <2>3. ASSUME NEW x, exec' = [exec EXCEPT ![e] = x]
        PROVE  x.pc \in {"none", "zombie", "reaped"}
    BY <1>2, <2>1, <2>3
  <2>4. ASSUME NEW pc \in {"name", "skip", "send"},
               exec' = [exec EXCEPT ![e] = [exec[e] EXCEPT !.pc = pc]]
        PROVE  FALSE
    <3>1. [exec[e] EXCEPT !.pc = pc].pc = pc
      BY <1>3, <1>5
    <3> QED
      BY <2>3, <2>4, <3>1
  <2>5. ASSUME NEW n,
               exec' = [exec EXCEPT ![e] = [exec[e] EXCEPT !.sent = n]]
        PROVE  FALSE
    <3>1. [exec[e] EXCEPT !.sent = n].pc = exec[e].pc
      BY <1>3, <1>5
    <3> QED
      BY <1>2, <2>3, <2>5, <3>1
  <2>6. \A pc : [exec EXCEPT ![e].pc = pc] = [exec EXCEPT ![e] = [exec[e] EXCEPT !.pc = pc]]
    OBVIOUS
  <2>7. \A n : [exec EXCEPT ![e].sent = n] = [exec EXCEPT ![e] = [exec[e] EXCEPT !.sent = n]]
    OBVIOUS
  <2>8. ~ ReadType(e)
    <3> SUFFICES ASSUME ReadType(e) PROVE FALSE
      OBVIOUS
    <3>1. PICK pc \in {"name", "skip"} : exec' = [exec EXCEPT ![e].pc = pc]
      BY DEF ReadType, ExecutantGoes
    <3> QED
      BY <2>4, <2>6, <3>1
  <2>9. ~ OpenFile(e)
    <3> SUFFICES ASSUME OpenFile(e) PROVE FALSE
      OBVIOUS
    <3>1. exec' = [exec EXCEPT ![e].pc = "send"]
      BY DEF OpenFile, ExecutantGoes
    <3> QED
      BY <2>4, <2>6, <3>1
  <2>10. ~ SendSome(e)
    <3> SUFFICES ASSUME SendSome(e) PROVE FALSE
      OBVIOUS
    <3>1. PICK n \in 1 .. Size[exec[e].file] - exec[e].sent :
            exec' = [exec EXCEPT ![e].sent = exec[e].sent + n]
      BY DEF SendSome
    <3> QED
      BY <2>5, <2>7, <3>1
  <2> QED
    BY <2>2, <2>8, <2>9, <2>10
<1> QED
  BY <1>5, <1>6 DEF ExecutantStep

LEMMA EndsReasonably ==
  ASSUME ImportInv, Next, NEW e \in Pool \ Pool'
  PROVE  \/ e \in pending \/ exec[e].pc \in {"accept", "greeting"}
         \/ Left(exec[e].serves)
         \/ client[exec[e].serves].file \notin DOMAIN Size
<1>1. e \in Slots
  BY DEF Pool
<1>2. CASE \E d \in Slots : ExecutantStep(d) \/ AcceptFails(d) \/ GreetingFails(d)
  <2>1. OpenExits(e) \/ SendFails(e) \/ AcceptFails(e) \/ GreetingFails(e)
    BY <1>1, <1>2, ExecutantsEnd
  <2>2. CASE OpenExits(e)
    <3>1. exec[e].pc = "open" /\ exec[e].file \notin DOMAIN Size
      BY <2>2 DEF OpenExits
    <3>2. PICK c \in Clients : exec[e].serves = c /\ TalksTo(e, c)
      BY <1>1, <3>1, ServedClient DEF Talking
    <3> QED
      BY <3>1, <3>2 DEF TalksTo
  <2> QED
    BY <2>1, <2>2 DEF SendFails, AcceptFails, GreetingFails
<1>3. CASE ~ \E d \in Slots : ExecutantStep(d) \/ AcceptFails(d) \/ GreetingFails(d)
  <2>1. CtrlC => \E P : SIGINT(P)
    BY DEF CtrlC
  <2>2. \A p : KillOne(p) => \E P : SIGINT(P)
    BY DEF KillOne
  <2> QED
    BY <1>1, <1>3, <2>1, <2>2, OthersEndNobody DEF Next
<1> QED
  BY <1>2, <1>3

(* An executant of Etape I never ends under a client that behaves: only by *)
(* a signal, by accept() or a look-up that fails, by the 404 that exits or *)
(* by writing to a client that has left.                                   *)
THEOREM ExecutantsEndForAReason == Spec => EndsForAReason
<1>1. ASSUME ImportInv, [Next]_vars
      PROVE  [\A e \in Pool \ Pool' :
                \/ e \in pending \/ exec[e].pc \in {"accept", "greeting"}
                \/ Left(exec[e].serves)
                \/ client[exec[e].serves].file \notin DOMAIN Size]_vars
  BY <1>1, EndsReasonably
<1> QED
  BY <1>1, ImportAlways, PTL DEF Spec, EndsForAReason

=============================================================================
