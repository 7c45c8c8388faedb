--------------------------- MODULE FTPCalm_proofs ---------------------------
(***************************************************************************)
(* The conversation on a quiet connection, whatever happens on the others: *)
(* where its two ends are in a request and its answer, for any number of   *)
(* clients, executants and files.  Then the calm, where every connection   *)
(* is quiet.                                                               *)
(***************************************************************************)
EXTENDS FTP_proofs

(* Neither end of the connection is where something fails, and it is       *)
(* closed only after a bye.                                                *)
Undisturbed(c) ==
  /\ cpc[c] \in {"off", "top", "prompt", "response", "size", "head", "block", "bye"}
  /\ cpc[c] \in {"head", "block"} => ~ resuming[c]
  /\ ~ reset[c]
  /\ conn[c] = "closed" => cpc[c] = "bye"
  /\ \A e \in Executants : on[e] = c =>
       epc[e] \in {"top", "readreq", "send"} /\ (epc[e] = "send" => ~ again[e])

(* The executant of a client has nothing left to send to it.               *)
Done(e) == epc[e] \in {"top", "readreq"} \/ (epc[e] = "send" /\ left[e] = 0)

Idle(c) == \A e \in Executants : on[e] = c => Done(e)

(* Blocks p to k - 1 of a file.                                            *)
Run(f, p, k) == [j \in 1 .. k - p |-> Block(f, p + j - 1)]

(* k blocks of the file it asked for have been sent to a client: what of   *)
(* the answer it has not read is under way.                                *)
Underway(c, k) ==
  LET f == creq[c].file
      sized == <<Response("SENDING", Blocks[f])>> \o Run(f, 0, k)
  IN  \/ cpc[c] = "response" /\ down[c] = <<Response("FOUND", 0)>> \o sized
      \/ cpc[c] = "size" /\ down[c] = sized
      \/ /\ cpc[c] \in {"head", "block"}
         /\ log[c].file = f /\ paquets[c] \in 0 .. k
         /\ rest[c] = Blocks[f] - paquets[c] /\ down[c] = Run(f, paquets[c], k)

(* What an executant has sent of the file its client asked for.            *)
HasSent(e, c, k) ==
  \/ epc[e] \in {"top", "readreq"} /\ k = Blocks[creq[c].file]
  \/ /\ epc[e] = "send" /\ sending[e] = [file |-> creq[c].file, index |-> k]
     /\ left[e] = Blocks[creq[c].file] - k

(* Where a client can be with a request: it is not read ...                *)
Asked(c) ==
  /\ cpc[c] = "response" /\ up[c] = <<Request(creq[c])>> /\ down[c] = << >>
  /\ ~ OfDirectory(creq[c]) /\ Idle(c)

(* ... it got no answer, or the one that is too short to be read ...       *)
Unanswered(c) ==
  /\ cpc[c] = "response" /\ up[c] = << >> /\ Idle(c)
  /\ \/ creq[c].cmd \in {"put", "ls"} /\ down[c] = << >>
     \/ /\ creq[c].cmd = "get" /\ creq[c].file \notin Files \cup Directories
        /\ down[c] = <<Word("NOT_FOUND")>>

(* ... or the file is being sent.                                          *)
Streamed(c) ==
  /\ up[c] = << >> /\ creq[c].cmd = "get" /\ creq[c].file \in Files /\ conn[c] = "open"
  /\ \A e \in Executants : on[e] = c =>
       \E k \in 0 .. Blocks[creq[c].file] : Underway(c, k) /\ HasSent(e, c, k)

Conversing(c) ==
  /\ cpc[c] = "off" => up[c] = << >> /\ down[c] = << >>
  /\ cpc[c] \in {"top", "prompt"} => up[c] = << >> /\ down[c] = << >> /\ Idle(c)
  /\ cpc[c] = "bye" =>
       down[c] = << >> /\ Idle(c) /\ (conn[c] # "closed" => up[c] = <<ByeWord>>)
  /\ cpc[c] \in {"response", "size", "head", "block"} =>
       /\ creq[c].cmd \in {"get", "put", "ls"}
       /\ Asked(c) \/ Unanswered(c) \/ Streamed(c)

Quietly(c) == Undisturbed(c) /\ Conversing(c)

QuietInv ==
  /\ ConnInv /\ misfiled \subseteq rough
  /\ \A c \in Quiet : Quietly(c)

-----------------------------------------------------------------------------
(* What is under way.                                                      *)

LEMMA RunIsUnits ==
  ASSUME NEW f \in Files, NEW p \in Nat, NEW k \in Nat, p <= k
  PROVE  /\ Run(f, p, k) \in Seq(Units) /\ Len(Run(f, p, k)) = k - p
         /\ \A j \in 1 .. k - p : Run(f, p, k)[j] = Block(f, p + j - 1)
<1>1. k - p \in Nat
  OBVIOUS
<1>2. \A j \in 1 .. k - p : p + j - 1 \in Nat
  BY <1>1
<1>3. \A j \in 1 .. k - p : Block(f, p + j - 1) \in Units
  BY <1>2 DEF Units
<1>4. Run(f, p, k) \in [1 .. k - p -> Units]
  BY <1>3 DEF Run
<1>5. \A j \in 1 .. k - p : Run(f, p, k)[j] = Block(f, p + j - 1)
  BY DEF Run
<1> QED
  BY <1>1, <1>4, <1>5, SeqDef

LEMMA RunGrows ==
  ASSUME NEW f \in Files, NEW p \in Nat, NEW k \in Nat, p <= k
  PROVE  Run(f, p, k) \o <<Block(f, k)>> = Run(f, p, k + 1)
<1>1. PICK b : b = Block(f, k)
  OBVIOUS
<1>2. b \in Units /\ <<b>> \in Seq(Units) /\ Len(<<b>>) = 1 /\ <<b>>[1] = b
  BY <1>1 DEF Units
<1>3. PICK s : s = Run(f, p, k)
  OBVIOUS
<1>4. /\ s \in Seq(Units) /\ Len(s) = k - p
      /\ \A j \in 1 .. k - p : s[j] = Block(f, p + j - 1)
  BY <1>3, RunIsUnits
<1>5. PICK t : t = Run(f, p, k + 1)
  OBVIOUS
<1>6. /\ t \in Seq(Units) /\ Len(t) = (k + 1) - p
      /\ \A j \in 1 .. (k + 1) - p : t[j] = Block(f, p + j - 1)
  <2>1. k + 1 \in Nat /\ p <= k + 1
    OBVIOUS
  <2> QED
    BY <1>5, <2>1, RunIsUnits
<1>7. /\ s \o <<b>> \in Seq(Units) /\ Len(s \o <<b>>) = (k - p) + 1
      /\ \A j \in 1 .. (k - p) + 1 :
           (s \o <<b>>)[j] = IF j <= k - p THEN s[j] ELSE <<b>>[j - (k - p)]
  BY <1>2, <1>4, ConcatProperties
<1>8. \A j \in 1 .. (k - p) + 1 : (s \o <<b>>)[j] = t[j]
  <2> TAKE j \in 1 .. (k - p) + 1
  <2>1. CASE j <= k - p
    <3>1. j \in 1 .. k - p /\ j \in 1 .. (k + 1) - p
      BY <2>1
    <3>2. (s \o <<b>>)[j] = s[j]
      BY <1>7, <2>1
    <3>3. s[j] = Block(f, p + j - 1) /\ t[j] = Block(f, p + j - 1)
      BY <1>4, <1>6, <3>1
    <3> QED
      BY <3>2, <3>3
  <2>2. CASE j = (k - p) + 1
    <3>1. j \in 1 .. (k + 1) - p /\ ~ (j <= k - p) /\ j - (k - p) = 1 /\ p + j - 1 = k
      BY <2>2
    <3>2. t[j] = Block(f, k)
      BY <1>6, <3>1
    <3>3. (s \o <<b>>)[j] = <<b>>[1]
      BY <1>7, <3>1
    <3> QED
      BY <1>1, <1>2, <3>2, <3>3
  <2>3. j <= k - p \/ j = (k - p) + 1
    OBVIOUS
  <2> QED
    BY <2>1, <2>2, <2>3
<1>9. Len(t) = (k - p) + 1
  BY <1>6
<1> QED
  BY <1>1, <1>3, <1>5, <1>6, <1>7, <1>8, <1>9, SeqEqual

LEMMA RunShrinks ==
  ASSUME NEW f \in Files, NEW p \in Nat, NEW k \in Nat, p <= k
  PROVE  /\ Run(f, p, k) = << >> <=> p = k
         /\ p # k => /\ Head(Run(f, p, k)) = Block(f, p)
                     /\ Tail(Run(f, p, k)) = Run(f, p + 1, k)
<1>1. PICK s : s = Run(f, p, k)
  OBVIOUS
<1>2. /\ s \in Seq(Units) /\ Len(s) = k - p
      /\ \A j \in 1 .. k - p : s[j] = Block(f, p + j - 1)
  BY <1>1, RunIsUnits
<1>3. s = << >> <=> p = k
  BY <1>2, EmptySeq
<1>4. ASSUME p # k
      PROVE  Head(s) = Block(f, p) /\ Tail(s) = Run(f, p + 1, k)
  <2>1. s # << >> /\ 1 \in 1 .. k - p /\ p + 1 - 1 = p
    BY <1>3, <1>4
  <2>2. Head(s) = s[1]
    BY <1>2, <2>1
  <2>3. s[1] = Block(f, p)
    BY <1>2, <2>1
  <2>4. PICK t : t = Tail(s)
    OBVIOUS
  <2>5. /\ t \in Seq(Units) /\ Len(t) = (k - p) - 1
        /\ \A j \in 1 .. Len(t) : t[j] = s[j + 1]
    BY <1>2, <2>1, <2>4, HeadTailProperties
  <2>6. PICK v : v = Run(f, p + 1, k)
    OBVIOUS
  <2>7. /\ v \in Seq(Units) /\ Len(v) = k - (p + 1)
        /\ \A j \in 1 .. k - (p + 1) : v[j] = Block(f, (p + 1) + j - 1)
    <3>1. p + 1 \in Nat /\ p + 1 <= k
      BY <1>4
    <3> QED
      BY <2>6, <3>1, RunIsUnits
  <2>8. Len(t) = Len(v)
    BY <2>5, <2>7
  <2>9. \A j \in 1 .. Len(t) : t[j] = v[j]
    <3> TAKE j \in 1 .. Len(t)
    <3>1. /\ j + 1 \in 1 .. k - p /\ j \in 1 .. k - (p + 1)
          /\ p + (j + 1) - 1 = (p + 1) + j - 1
      BY <2>5
    <3> QED
      BY <1>2, <2>5, <2>7, <3>1
  <2> QED
    BY <2>2, <2>3, <2>4, <2>5, <2>6, <2>7, <2>8, <2>9, SeqEqual
<1> QED
  BY <1>1, <1>3, <1>4

LEMMA FirstOf ==
  ASSUME NEW x \in Units, NEW s \in Seq(Units)
  PROVE  /\ <<x>> \o s \in Seq(Units) /\ <<x>> \o s # << >>
         /\ Head(<<x>> \o s) = x /\ Tail(<<x>> \o s) = s
<1>1. <<x>> \in Seq(Units) /\ Len(<<x>>) = 1 /\ <<x>>[1] = x /\ Len(s) \in Nat
  BY LenProperties
<1>2. PICK u : u = <<x>> \o s
  OBVIOUS
<1>3. /\ u \in Seq(Units) /\ Len(u) = 1 + Len(s)
      /\ \A j \in 1 .. 1 + Len(s) : u[j] = IF j <= 1 THEN <<x>>[j] ELSE s[j - 1]
  BY <1>1, <1>2, ConcatProperties
<1>4. u # << >> /\ u[1] = x
  BY <1>1, <1>3
<1>5. Head(u) = x
  BY <1>3, <1>4
<1>6. PICK t : t = Tail(u)
  OBVIOUS
<1>7. t \in Seq(Units) /\ Len(t) = Len(u) - 1 /\ \A j \in 1 .. Len(t) : t[j] = u[j + 1]
  BY <1>3, <1>4, <1>6, HeadTailProperties
<1>8. Len(t) = Len(s)
  BY <1>1, <1>3, <1>7
<1>9. \A j \in 1 .. Len(t) : t[j] = s[j]
  <2> TAKE j \in 1 .. Len(t)
  <2>1. j + 1 \in 1 .. 1 + Len(s) /\ ~ (j + 1 <= 1) /\ (j + 1) - 1 = j
    BY <1>1, <1>8
  <2>2. u[j + 1] = s[(j + 1) - 1]
    BY <1>3, <2>1
  <2> QED
    BY <1>7, <2>1, <2>2
<1> QED
  BY <1>2, <1>3, <1>4, <1>5, <1>6, <1>7, <1>8, <1>9, SeqEqual

(* What an executant has sent before the blocks, and with k of them.       *)
LEMMA AnswerGrows ==
  ASSUME NEW f \in Files, NEW k \in Nat, NEW a \in Units, NEW b \in Units
  PROVE  /\ (<<a>> \o Run(f, 0, k)) \o <<Block(f, k)>> = <<a>> \o Run(f, 0, k + 1)
         /\ (<<b>> \o (<<a>> \o Run(f, 0, k))) \o <<Block(f, k)>>
              = <<b>> \o (<<a>> \o Run(f, 0, k + 1))
<1>1. PICK x : x = <<Block(f, k)>>
  OBVIOUS
<1>2. x \in Seq(Units) /\ <<a>> \in Seq(Units) /\ <<b>> \in Seq(Units)
  <2>1. Block(f, k) \in Units
    BY DEF Units
  <2> QED
    BY <1>1, <2>1
<1>3. PICK s : s = Run(f, 0, k)
  OBVIOUS
<1>4. s \in Seq(Units) /\ s \o x = Run(f, 0, k + 1)
  <2>1. 0 \in Nat /\ 0 <= k
    OBVIOUS
  <2>2. s \in Seq(Units)
    BY <1>3, <2>1, RunIsUnits
  <2> QED
    BY <1>1, <1>3, <2>1, <2>2, RunGrows
<1>5. \A p, q, r \in Seq(Units) : (p \o q) \o r = p \o (q \o r)
  BY SMTT(20), ConcatAssociative
<1>6. <<a>> \o s \in Seq(Units)
  BY <1>2, <1>4, ConcatProperties
<1>7. (<<a>> \o s) \o x = <<a>> \o (s \o x)
  BY <1>2, <1>4, <1>5
<1>8. (<<b>> \o (<<a>> \o s)) \o x = <<b>> \o ((<<a>> \o s) \o x)
  BY <1>2, <1>5, <1>6
<1> QED
  BY <1>1, <1>3, <1>4, <1>7, <1>8

LEMMA AnswerBegins ==
  ASSUME NEW f \in Files, NEW a \in Units, NEW b \in Units
  PROVE  << >> \o <<b, a>> = <<b>> \o (<<a>> \o Run(f, 0, 0))
<1>1. Run(f, 0, 0) = << >>
  BY RunShrinks
<1>2. <<a>> \in Seq(Units) /\ <<b>> \in Seq(Units) /\ <<b, a>> \in Seq(Units)
  OBVIOUS
<1>3. << >> \o <<b, a>> = <<b, a>> /\ <<a>> \o << >> = <<a>>
  BY <1>2, ConcatEmptySeq
<1>4. Append(<<b>>, a) = <<b>> \o <<a>>
  BY <1>2, AppendIsConcat
<1>5. Append(<<b>>, a) = <<b, a>>
  <2>1. /\ Append(<<b>>, a) \in Seq(Units) /\ Len(Append(<<b>>, a)) = 2
        /\ Append(<<b>>, a)[1] = b /\ Append(<<b>>, a)[2] = a
    <3>1. Len(<<b>>) = 1 /\ <<b>>[1] = b
      OBVIOUS
    <3> QED
      BY <1>2, <3>1, AppendProperties
  <2>2. Len(<<b, a>>) = 2 /\ <<b, a>>[1] = b /\ <<b, a>>[2] = a
    OBVIOUS
  <2>3. \A j \in 1 .. 2 : j = 1 \/ j = 2
    OBVIOUS
  <2>4. \A j \in 1 .. 2 : Append(<<b>>, a)[j] = <<b, a>>[j]
    BY <2>1, <2>2, <2>3
  <2> QED
    BY <1>2, <2>1, <2>2, <2>4, SeqEqual
<1> QED
  BY <1>1, <1>3, <1>4, <1>5

(* A response is read whole.                                               *)
LEMMA ReadsResponse ==
  ASSUME NEW s \in {"FOUND", "SENDING"}, NEW n \in Nat, NEW t \in Seq(Units)
  PROVE  EightBytes(<<Response(s, n)>> \o t)
           = {[status |-> s, filesize |-> n, unread |-> t]}
<1>1. PICK u : u = Response(s, n)
  OBVIOUS
<1>2. u \in Units /\ u.kind = "response" /\ u.status = s /\ u.filesize = n
  BY <1>1 DEF Units, Response
<1>3. PICK d : d = <<u>> \o t
  OBVIOUS
<1>4. d # << >> /\ Head(d) = u /\ Tail(d) = t
  BY <1>2, <1>3, FirstOf
<1>5. EightBytes(d) = {[status |-> s, filesize |-> n, unread |-> t]}
  BY <1>2, <1>4 DEF EightBytes
<1> QED
  BY <1>1, <1>3, <1>5

LEMMA ReadsNothing == EightBytes(<< >>) = {} /\ EightBytes(<<Word("NOT_FOUND")>>) = {}
<1>1. EightBytes(<< >>) = {}
  BY DEF EightBytes
<1>2. PICK u : u = Word("NOT_FOUND")
  OBVIOUS
<1>3. u.kind = "word" /\ <<u>> # << >> /\ Head(<<u>>) = u /\ Len(<<u>>) = 1
  BY <1>2 DEF Word
<1>4. EightBytes(<<u>>) = {}
  BY <1>3 DEF EightBytes
<1> QED
  BY <1>1, <1>2, <1>4

-----------------------------------------------------------------------------
(* Who has to do with whom.                                                *)

LEMMA QuietFacts ==
  ASSUME QuietInv, NEW c \in Quiet
  PROVE  /\ ClientTypes /\ ExecTypes /\ NetTypes /\ Attending /\ Queued
         /\ c \in Clients /\ Undisturbed(c) /\ Conversing(c)
BY TypeParts DEF QuietInv, Quietly, ConnInv, Quiet

(* A connection that neither its client nor its executant has to do with.  *)
Untouched(d) ==
  /\ cpc'[d] = cpc[d] /\ creq'[d] = creq[d] /\ rest'[d] = rest[d]
  /\ paquets'[d] = paquets[d] /\ log'[d] = log[d] /\ resuming'[d] = resuming[d]
  /\ up'[d] = up[d] /\ down'[d] = down[d] /\ conn'[d] = conn[d] /\ reset'[d] = reset[d]
  /\ \A x \in Executants : on'[x] = d =>
       /\ on[x] = d /\ epc'[x] = epc[x] /\ left'[x] = left[x]
       /\ sending'[x] = sending[x] /\ again'[x] = again[x]

LEMMA Elsewhere ==
  ASSUME NEW d \in Clients, Quietly(d), Untouched(d)
  PROVE  Quietly(d)'
<1>0. Undisturbed(d) /\ Conversing(d)
  BY DEF Quietly
<1>1. Idle(d) => Idle(d)'
  BY DEF Idle, Done, Untouched
<1>2. \A k : Underway(d, k) => Underway(d, k)'
  BY DEF Underway, Untouched
<1>3. Asked(d) => Asked(d)'
  BY <1>1 DEF Asked, Untouched, OfDirectory
<1>4. Unanswered(d) => Unanswered(d)'
  BY <1>1 DEF Unanswered, Untouched
<1>5. Streamed(d) => Streamed(d)'
  <2> SUFFICES ASSUME Streamed(d)
               PROVE  Streamed(d)'
    OBVIOUS
  <2>1. \A x \in Executants : on'[x] = d =>
          \E k \in 0 .. Blocks[creq[d].file] : Underway(d, k)' /\ HasSent(x, d, k)'
    <3> SUFFICES ASSUME NEW x \in Executants, on'[x] = d
                 PROVE  \E k \in 0 .. Blocks[creq[d].file] : Underway(d, k)' /\ HasSent(x, d, k)'
      OBVIOUS
    <3>1. PICK k \in 0 .. Blocks[creq[d].file] : Underway(d, k) /\ HasSent(x, d, k)
      BY DEF Streamed, Untouched
    <3>2. Underway(d, k)'
      BY <1>2, <3>1
    <3>3. HasSent(x, d, k)'
      BY <3>1 DEF HasSent, Untouched
    <3> QED
      BY <3>2, <3>3
  <2> QED
    BY <2>1 DEF Streamed, Untouched
<1>6. Conversing(d)'
  BY <1>0, <1>1, <1>3, <1>4, <1>5 DEF Conversing, Untouched
<1>7. Undisturbed(d)'
  BY <1>0 DEF Undisturbed, Untouched
<1> QED
  BY <1>6, <1>7 DEF Quietly

(* A client and its user touch no connection but its own ...               *)
LEMMA ClientsKeepApart ==
  ASSUME TypeInv, NEW c \in Clients, NEW d \in Clients \ {c},
         ClientStep(c) \/ UserStep(c) \/ Interrupt(c) \/ AskDirectory(c)
  PROVE  Untouched(d)
<1>1. ClientTypes /\ NetTypes
  BY TypeParts
<1>2. SUFFICES /\ cpc'[d] = cpc[d] /\ creq'[d] = creq[d] /\ rest'[d] = rest[d]
               /\ paquets'[d] = paquets[d] /\ log'[d] = log[d]
               /\ resuming'[d] = resuming[d] /\ up'[d] = up[d] /\ down'[d] = down[d]
               /\ conn'[d] = conn[d] /\ reset'[d] = reset[d]
               /\ UNCHANGED execvars
  BY DEF Untouched, execvars
<1>3. CASE ClientTurn(c) \/ ClientReadLog(c) \/ ClientHead(c) \/ ClientRemoveLog(c)
  BY <1>1, <1>3 DEF ClientTurn, ClientReadLog, ClientHead, ClientRemoveLog, ClientExits,
     ClientCloses, Goes, ClientTypes, NetTypes, netvars
<1>4. CASE ReadResponse(c) \/ ReadSize(c) \/ OpenExits(c) \/ ResponseFails(c)
  BY <1>1, <1>4 DEF ReadResponse, ReadSize, OpenExits, ResponseFails, ClientExits,
     ClientCloses, Goes, ClientTypes, NetTypes
<1>5. CASE ClientBlock(c)
  <2>1. log' = [log EXCEPT ![c].at = paquets[c] + 1] \/ log' = log
    BY <1>5 DEF ClientBlock
  <2>2. log'[d] = log[d]
    BY <1>1, <2>1 DEF ClientTypes
  <2>3. cpc' = [cpc EXCEPT ![c] = cpc'[c]]
    BY <1>1, <1>5 DEF ClientBlock, Returned, Goes, ClientTypes
  <2> QED
    BY <1>1, <1>5, <2>2, <2>3 DEF ClientBlock, ClientTypes, NetTypes
<1>6. CASE ClientStrayWord(c) \/ ClientBlockEnds(c) \/ ClientReadFails(c)
  BY <1>1, <1>6 DEF ClientStrayWord, ClientBlockEnds, ClientReadFails, Returned, ClientExits,
     ClientCloses, Goes, ClientTypes, NetTypes, clientvars, netvars
<1>7. CASE SaveLog(c) \/ CloseSocket(c) \/ Interrupt(c)
  BY <1>1, <1>7 DEF SaveLog, CloseSocket, Interrupt, ClientCloses, Goes, ClientTypes, NetTypes,
     netvars
<1>8. CASE Launch(c) \/ TypeIgnored(c) \/ TypeBye(c)
  BY <1>1, <1>8 DEF Launch, TypeIgnored, TypeBye, ClientCloses, Goes, ClientTypes, NetTypes,
     netvars
<1>9. CASE TypeRequest(c) \/ AskDirectory(c)
  <2>1. UNCHANGED execvars /\ \E r \in Commands : Sends(c, r)
    BY <1>9 DEF TypeRequest, AskDirectory, Typed
  <2> QED
    BY <1>1, <2>1 DEF Sends, ClientExits, ClientCloses, Goes, ClientTypes, NetTypes
<1> QED
  BY <1>3, <1>4, <1>5, <1>6, <1>7, <1>8, <1>9 DEF ClientStep, UserStep

(* ... nor does an executant, but the one it takes from the backlog.       *)
LEMMA ExecutantsKeepApart ==
  ASSUME ConnInv, NEW e \in Executants, ExecStep(e) \/ AcceptFails(e),
         NEW d \in Clients, on[e] # d, on'[e] # d
  PROVE  Untouched(d)
<1>1. ExecTypes /\ NetTypes /\ Attending /\ Queued
  BY TypeParts DEF ConnInv
<1>2. UNCHANGED clientvars
  <2>1. AcceptFails(e) => UNCHANGED clientvars
    BY Zenon DEF AcceptFails
  <2> QED
    BY <2>1, ExecLeavesClients
<1>3. SUFFICES /\ up'[d] = up[d] /\ down'[d] = down[d] /\ conn'[d] = conn[d]
               /\ reset'[d] = reset[d]
               /\ \A x \in Executants \ {e} :
                    /\ on'[x] = on[x] /\ epc'[x] = epc[x] /\ left'[x] = left[x]
                    /\ sending'[x] = sending[x] /\ again'[x] = again[x]
  BY <1>2 DEF Untouched, clientvars
<1>4. Dies(e) => /\ up'[d] = up[d] /\ down'[d] = down[d] /\ conn'[d] = conn[d]
                 /\ reset'[d] = reset[d] /\ UNCHANGED <<on, left, sending, again>>
                 /\ \A x \in Executants \ {e} : epc'[x] = epc[x]
  BY <1>1 DEF Dies, ServerCloses, Moves, ExecTypes, NetTypes
<1>5. CASE AcceptClient(e)
  <2>1. on'[e] = Head(backlog)
    BY <1>1, <1>5 DEF AcceptClient, ExecTypes
  <2> QED
    BY <1>1, <1>5, <2>1 DEF AcceptClient, Moves, ExecTypes, NetTypes
<1>6. CASE AcceptFails(e)
  <2>1. CASE UNCHANGED <<on, netvars, history>>
    BY <1>1, <1>6, <2>1 DEF AcceptFails, Moves, ExecTypes, netvars
  <2>2. CASE ~ UNCHANGED <<on, netvars, history>>
    <3>1. /\ on' = [on EXCEPT ![e] = Head(backlog)]
          /\ conn' = [conn EXCEPT ![Head(backlog)] = "closed"]
          /\ reset' = [reset EXCEPT ![Head(backlog)] = reset[Head(backlog)] \/ up[Head(backlog)] # << >>]
          /\ up' = [up EXCEPT ![Head(backlog)] = << >>]
          /\ UNCHANGED down
      BY <1>6, <2>2, Zenon DEF AcceptFails
    <3>2. Head(backlog) # d
      BY <1>1, <3>1 DEF ExecTypes
    <3> QED
      BY <1>1, <1>6, <3>1, <3>2 DEF AcceptFails, Moves, ExecTypes, NetTypes
  <2> QED
    BY <2>1, <2>2
<1>7. CASE ExecTurn(e) \/ SendEnds(e) \/ ExecRemoveLog(e)
  BY <1>1, <1>7 DEF ExecTurn, SendEnds, ExecRemoveLog, Moves, ExecTypes, netvars
<1>8. CASE ExecReadLog(e) \/ ReadEnd(e) \/ SendFails(e)
  BY <1>1, <1>4, <1>8 DEF ExecReadLog, ReadEnd, SendFails, Moves, ExecTypes, netvars
<1>9. CASE ReadBye(e)
  BY <1>1, <1>9 DEF ReadBye, Moves, ExecTypes, NetTypes
<1>10. CASE SendBlock(e)
  <2>1. CASE DiesWriting(e)
    BY <1>4, <2>1 DEF DiesWriting
  <2>2. CASE ~ DiesWriting(e)
    <3>1. /\ down' = down \/ \E s : down' = [down EXCEPT ![on[e]] = s]
          /\ UNCHANGED <<epc, on, again, conn, up, reset>>
          /\ left' = [left EXCEPT ![e] = left[e] - 1]
          /\ sending' = [sending EXCEPT ![e].index = sending[e].index + 1]
      BY <1>10, <2>2 DEF SendBlock, Writes
    <3> QED
      BY <1>1, <3>1 DEF ExecTypes, NetTypes
  <2> QED
    BY <2>1, <2>2
<1>11. CASE ServeRequest(e)
  <2>1. CASE DiesWriting(e)
    BY <1>4, <2>1 DEF DiesWriting
  <2>2. CASE ~ DiesWriting(e)
    <3>1. /\ down' = down \/ \E s : down' = [down EXCEPT ![on[e]] = s]
          /\ \E s : up' = [up EXCEPT ![on[e]] = s]
          /\ \E at : Moves(e, at)
          /\ UNCHANGED <<on, conn, reset>>
          /\ left' = left \/ \E n : left' = [left EXCEPT ![e] = n]
          /\ sending' = sending \/ \E f : sending' = [sending EXCEPT ![e] = f]
          /\ again' = again \/ \E b : again' = [again EXCEPT ![e] = b]
      BY <1>11, <2>2, Zenon DEF ServeRequest
    <3> QED
      BY <1>1, <3>1 DEF Moves, ExecTypes, NetTypes
  <2> QED
    BY <2>1, <2>2
<1> QED
  BY <1>5, <1>6, <1>7, <1>8, <1>9, <1>10, <1>11 DEF ExecStep

(* A step of the client of a quiet connection.                             *)
LEMMA ClientActs ==
  ASSUME QuietInv, NEW c \in Quiet, UNCHANGED <<execvars, conn>>, ~ reset'[c],
         cpc[c] \notin {"off", "bye"},
         cpc'[c] \in {"top", "prompt", "response", "size", "head", "block", "bye"},
         cpc'[c] \in {"head", "block"} => ~ resuming'[c],
         Conversing(c)'
  PROVE  Quietly(c)'
BY QuietFacts DEF Quietly, Undisturbed, execvars

(* A step of its executant.                                                *)
LEMMA ExecActs ==
  ASSUME QuietInv, NEW c \in Quiet, NEW e \in Executants, on[e] = c,
         UNCHANGED <<clientvars, on, conn, reset>>,
         epc'[e] \in {"top", "readreq", "send"}, epc'[e] = "send" => ~ again'[e],
         \A x \in Executants \ {e} : epc'[x] = epc[x] /\ again'[x] = again[x],
         Conversing(c)'
  PROVE  Quietly(c)'
<1>1. Undisturbed(c)
  BY QuietFacts
<1>2. \A x \in Executants : on'[x] = c =>
        epc'[x] \in {"top", "readreq", "send"} /\ (epc'[x] = "send" => ~ again'[x])
  BY <1>1 DEF Undisturbed
<1>3. Undisturbed(c)'
  BY <1>1, <1>2 DEF Undisturbed, clientvars
<1> QED
  BY <1>3 DEF Quietly

(* The executant of a quiet connection.                                    *)
LEMMA ItsExecutant ==
  ASSUME QuietInv, NEW c \in Quiet, NEW e \in Executants, on[e] = c
  PROVE  /\ conn[c] = "open" /\ cpc[c] # "off" /\ Conversing(c) /\ ~ reset[c]
         /\ \A x \in Executants : on[x] = c => x = e
<1>1. c \in Clients /\ c # NoOne /\ epc[e] # "dead"
  BY QuietFacts, FTPAssumption DEF Undisturbed
<1> QED
  BY <1>1, QuietFacts DEF Attending, Queued, Undisturbed

-----------------------------------------------------------------------------
(* Steps of a client and of its user.                                      *)

(* A client between two requests: it looks for .log, or its user types     *)
(* what it ignores.                                                        *)
LEMMA TurnsQuietly ==
  ASSUME QuietInv, NEW c \in Quiet, c \notin rough', ClientTurn(c) \/ TypeIgnored(c)
  PROVE  Quietly(c)'
<1>1. ClientTypes /\ c \in Clients /\ Undisturbed(c) /\ Conversing(c)
  BY QuietFacts
<1>2. cpc[c] \in {"top", "prompt"} /\ up[c] = << >> /\ down[c] = << >> /\ Idle(c)
  BY <1>1 DEF ClientTurn, TypeIgnored, Conversing
<1>3. cpc'[c] \in {"top", "prompt"}
  <2>1. CASE ClientTurn(c)
    <3>1. ~ existslog
      BY <2>1 DEF ClientTurn, LooksForLog, Roughens
    <3> QED
      BY <1>1, <2>1, <3>1 DEF ClientTurn, Goes, ClientTypes
  <2>2. CASE TypeIgnored(c)
    BY <1>1, <2>2 DEF TypeIgnored, Goes, ClientTypes
  <2> QED
    BY <2>1, <2>2
<1>4. UNCHANGED <<execvars, netvars>>
  BY DEF ClientTurn, TypeIgnored
<1>5. UNCHANGED <<execvars, conn, up, down, reset>>
  BY <1>4 DEF netvars
<1>6. Conversing(c)'
  BY <1>2, <1>3, <1>5 DEF Conversing, Idle, Done, execvars
<1> QED
  BY <1>1, <1>2, <1>3, <1>5, <1>6, ClientActs DEF Undisturbed

LEMMA RequestIsQuiet ==
  ASSUME QuietInv, NEW c \in Quiet, TypeRequest(c)
  PROVE  Quietly(c)'
<1>1. ClientTypes /\ NetTypes /\ c \in Clients /\ Undisturbed(c) /\ Conversing(c)
  BY QuietFacts
<1>2. cpc[c] = "prompt" /\ conn[c] # "closed" /\ up[c] = << >> /\ down[c] = << >> /\ Idle(c)
  BY <1>1 DEF TypeRequest, MayType, Conversing, Undisturbed
<1>3. PICK r \in Commands :
        /\ r.cmd \in {"get", "put", "ls"} /\ ~ OfDirectory(r)
        /\ cpc' = [cpc EXCEPT ![c] = "response"]
        /\ creq' = [creq EXCEPT ![c] = r]
        /\ up' = [up EXCEPT ![c] = Append(up[c], Request(r))]
        /\ UNCHANGED <<conn, down, reset>>
  BY <1>2 DEF TypeRequest, Sends, Typed, Goes
<1>4. UNCHANGED execvars
  BY DEF TypeRequest
<1>5. /\ cpc'[c] = "response" /\ creq'[c] = r
      /\ up'[c] = Append(<< >>, Request(r)) /\ down'[c] = << >>
  BY <1>1, <1>2, <1>3 DEF ClientTypes, NetTypes
<1>6. up'[c] = <<Request(r)>>
  <2>1. \A x : Append(<< >>, x) = <<x>>
    OBVIOUS
  <2> QED
    BY <1>5, <2>1
<1>7. Idle(c)'
  BY <1>2, <1>4 DEF Idle, Done, execvars
<1>8. Asked(c)'
  BY <1>3, <1>5, <1>6, <1>7 DEF Asked, OfDirectory
<1>9. Conversing(c)'
  BY <1>3, <1>5, <1>8 DEF Conversing
<1> QED
  BY <1>1, <1>2, <1>3, <1>4, <1>5, <1>9, ClientActs DEF Undisturbed

LEMMA ByeIsQuiet ==
  ASSUME QuietInv, NEW c \in Quiet, TypeBye(c)
  PROVE  Quietly(c)'
<1>1. ClientTypes /\ NetTypes /\ c \in Clients /\ Undisturbed(c) /\ Conversing(c)
  BY QuietFacts
<1>2. cpc[c] = "prompt" /\ conn[c] # "closed" /\ up[c] = << >> /\ down[c] = << >> /\ Idle(c)
  BY <1>1 DEF TypeBye, Conversing, Undisturbed
<1>3. /\ cpc' = [cpc EXCEPT ![c] = "bye"]
      /\ up' = [up EXCEPT ![c] = Append(up[c], ByeWord)]
      /\ down' = [down EXCEPT ![c] = << >>]
      /\ reset' = [reset EXCEPT ![c] = reset[c] \/ down[c] # << >>]
      /\ UNCHANGED <<conn, execvars>>
  BY <1>2 DEF TypeBye, Goes, ClientCloses
<1>4. /\ cpc'[c] = "bye" /\ up'[c] = Append(<< >>, ByeWord) /\ down'[c] = << >>
      /\ ~ reset'[c]
  BY <1>1, <1>2, <1>3 DEF ClientTypes, NetTypes, Undisturbed
<1>5. up'[c] = <<ByeWord>>
  <2>1. \A x : Append(<< >>, x) = <<x>>
    OBVIOUS
  <2> QED
    BY <1>4, <2>1
<1>6. Conversing(c)'
  BY <1>2, <1>3, <1>4, <1>5 DEF Conversing, Idle, Done, execvars
<1> QED
  BY <1>2, <1>3, <1>4, <1>6, ClientActs

LEMMA LaunchIsQuiet ==
  ASSUME QuietInv, NEW c \in Quiet, Launch(c)
  PROVE  Quietly(c)'
<1>1. /\ ClientTypes /\ ExecTypes /\ NetTypes /\ Attending /\ Queued
      /\ c \in Clients /\ Undisturbed(c) /\ Conversing(c)
  BY QuietFacts
<1>2. cpc[c] = "off" /\ conn[c] = "none" /\ up[c] = << >> /\ down[c] = << >>
  BY <1>1 DEF Launch, Queued, Conversing
<1>3. cpc'[c] = "top" /\ conn'[c] = "queued"
  BY <1>1 DEF Launch, Goes, ClientTypes, NetTypes
<1>4. UNCHANGED <<execvars, up, down, reset>>
  BY DEF Launch
<1>5. \A e \in Executants : on[e] # c
  BY <1>1, <1>2, FTPAssumption DEF Attending
<1>6. \A e \in Executants : on'[e] # c
  BY <1>4, <1>5 DEF execvars
<1>7. Conversing(c)'
  BY <1>2, <1>3, <1>4, <1>6 DEF Conversing, Idle
<1>8. Undisturbed(c)'
  BY <1>1, <1>3, <1>4, <1>6 DEF Undisturbed
<1> QED
  BY <1>7, <1>8 DEF Quietly

LEMMA Streaming ==
  ASSUME QuietInv, NEW c \in Quiet, Streamed(c)
  PROVE  /\ creq[c].file \in Files /\ Blocks[creq[c].file] \in Nat
         /\ \E e \in Executants, k \in 0 .. Blocks[creq[c].file] :
              /\ on[e] = c /\ Underway(c, k) /\ HasSent(e, c, k)
              /\ \A x \in Executants : on[x] = c => x = e
<1>1. Attending /\ c \in Clients
  BY QuietFacts
<1>2. creq[c].file \in Files /\ Blocks[creq[c].file] \in Nat
  BY FTPAssumption DEF Streamed
<1>3. PICK e \in Executants : on[e] = c
  BY <1>1 DEF Attending, Streamed
<1>4. \A x \in Executants : on[x] = c => x = e
  BY <1>1, <1>3, FTPAssumption DEF Attending
<1>5. PICK k \in 0 .. Blocks[creq[c].file] : Underway(c, k) /\ HasSent(e, c, k)
  BY <1>3 DEF Streamed
<1> QED
  BY <1>2, <1>3, <1>4, <1>5

(* A client reads, of what its executant has sent.                         *)
LEMMA ReadsWhatWasSent ==
  ASSUME NEW c \in Clients, NEW e \in Executants,
         NEW k \in 0 .. Blocks[creq[c].file],
         Streamed(c), on[e] = c, HasSent(e, c, k),
         \A x \in Executants : on[x] = c => x = e,
         UNCHANGED <<execvars, conn>>, creq'[c] = creq[c], up'[c] = up[c],
         cpc'[c] \in {"size", "head", "block"}, Underway(c, k)'
  PROVE  Conversing(c)'
<1>1. \A x \in Executants : on'[x] = c =>
        \E j \in 0 .. Blocks[creq'[c].file] : Underway(c, j)' /\ HasSent(x, c, j)'
  <2> SUFFICES ASSUME NEW x \in Executants, on'[x] = c
               PROVE  \E j \in 0 .. Blocks[creq'[c].file] : Underway(c, j)' /\ HasSent(x, c, j)'
    OBVIOUS
  <2>1. x = e
    BY DEF execvars
  <2>2. HasSent(x, c, k)'
    BY <2>1 DEF HasSent, execvars
  <2> QED
    BY <2>2
<1>2. Streamed(c)'
  BY <1>1 DEF Streamed
<1> QED
  BY <1>2 DEF Streamed, Conversing

LEMMA ResponseIsQuiet ==
  ASSUME QuietInv, NEW c \in Quiet,
         ReadResponse(c) \/ ReadSize(c) \/ OpenExits(c) \/ ResponseFails(c)
  PROVE  /\ Quietly(c)'
         /\ \/ cpc'[c] = "size"
            \/ cpc'[c] = "head" /\ paquets'[c] = 0
<1>1. ClientTypes /\ NetTypes /\ c \in Clients /\ Undisturbed(c) /\ Conversing(c)
  BY QuietFacts
<1>2. ~ ResponseFails(c)
  BY <1>1 DEF ResponseFails, Undisturbed
<1>3. ~ OpenExits(c)
  <2>1. cpc[c] = "size" => creq[c].file \in Files
    BY <1>1 DEF Conversing, Asked, Unanswered, Streamed
  <2> QED
    BY <2>1, FTPAssumption DEF OpenExits
<1>4. EightBytes(down[c]) # {} /\ cpc[c] \in {"response", "size"}
  BY <1>2, <1>3 DEF ReadResponse, ReadSize
<1>5. Streamed(c)
  BY <1>1, <1>4, ReadsNothing DEF Conversing, Asked, Unanswered
<1>6. PICK e \in Executants, k \in 0 .. Blocks[creq[c].file] :
        /\ on[e] = c /\ Underway(c, k) /\ HasSent(e, c, k)
        /\ \A x \in Executants : on[x] = c => x = e
  BY <1>5, Streaming
<1>7. PICK f \in Files : f = creq[c].file
  BY <1>5, Streaming
<1>8. PICK n \in Nat : n = Blocks[f]
  BY <1>7, FTPAssumption
<1>9. k \in 0 .. n /\ k \in Nat /\ Run(f, 0, k) \in Seq(Units)
  <2>1. k \in 0 .. n /\ k \in Nat /\ 0 \in Nat /\ 0 <= k
    BY <1>7, <1>8
  <2> QED
    BY <2>1, RunIsUnits
<1>10. PICK sized : sized = <<Response("SENDING", n)>> \o Run(f, 0, k)
  OBVIOUS
<1>11. sized \in Seq(Units)
  <2>1. Response("SENDING", n) \in Units
    BY DEF Units
  <2> QED
    BY <1>9, <1>10, <2>1, FirstOf
<1>12. CASE ReadResponse(c)
  <2>1. down[c] = <<Response("FOUND", 0)>> \o sized
    BY <1>6, <1>7, <1>8, <1>10, <1>12 DEF ReadResponse, Underway
  <2>2. EightBytes(down[c]) = {[status |-> "FOUND", filesize |-> 0, unread |-> sized]}
    BY <1>11, <2>1, ReadsResponse
  <2>3. /\ cpc' = [cpc EXCEPT ![c] = "size"] /\ down' = [down EXCEPT ![c] = sized]
        /\ UNCHANGED <<creq, resuming, execvars, conn, up, reset>>
    <3>1. PICK r : r = [status |-> "FOUND", filesize |-> 0, unread |-> sized]
      OBVIOUS
    <3>2. r.status = "FOUND" /\ r.unread = sized /\ EightBytes(down[c]) = {r}
      BY <2>2, <3>1
    <3> QED
      BY <1>12, <3>2 DEF ReadResponse, Goes
  <2>4. cpc'[c] = "size" /\ down'[c] = sized
    BY <1>1, <2>3 DEF ClientTypes, NetTypes
  <2>5. Underway(c, k)'
    BY <1>7, <1>8, <1>10, <2>3, <2>4 DEF Underway
  <2>6. Conversing(c)'
    BY <1>1, <1>5, <1>6, <2>3, <2>4, <2>5, ReadsWhatWasSent
  <2>7. ~ reset'[c]
    BY <1>1, <2>3 DEF Undisturbed
  <2> QED
    BY <1>4, <2>3, <2>4, <2>6, <2>7, ClientActs
<1>13. CASE ReadSize(c)
  <2>1. down[c] = sized
    BY <1>6, <1>7, <1>8, <1>10, <1>13 DEF ReadSize, Underway
  <2>2. PICK r : r = [status |-> "SENDING", filesize |-> n, unread |-> Run(f, 0, k)]
    OBVIOUS
  <2>3. EightBytes(down[c]) = {r}
    <3>1. EightBytes(<<Response("SENDING", n)>> \o Run(f, 0, k))
            = {[status |-> "SENDING", filesize |-> n, unread |-> Run(f, 0, k)]}
      <4>1. PICK t \in Seq(Units) : t = Run(f, 0, k)
        BY <1>9
      <4>2. EightBytes(<<Response("SENDING", n)>> \o t)
              = {[status |-> "SENDING", filesize |-> n, unread |-> t]}
        BY ReadsResponse
      <4> QED
        BY <4>1, <4>2
    <3> QED
      BY <1>10, <2>1, <2>2, <3>1
  <2>4. PICK g :
          /\ cpc' = [cpc EXCEPT ![c] = "head"] /\ down' = [down EXCEPT ![c] = Run(f, 0, k)]
          /\ rest' = [rest EXCEPT ![c] = n] /\ paquets' = [paquets EXCEPT ![c] = 0]
          /\ log' = [log EXCEPT ![c] = [file |-> creq[c].file, size |-> n, at |-> g]]
          /\ resuming' = [resuming EXCEPT ![c] = FALSE]
          /\ UNCHANGED <<creq, execvars, conn, up, reset>>
    <3>1. r.status = "SENDING" /\ r.filesize = n /\ r.unread = Run(f, 0, k)
      BY <2>2
    <3> QED
      BY <1>13, <2>3, <3>1 DEF ReadSize, Goes
  <2>5. /\ cpc'[c] = "head" /\ down'[c] = Run(f, 0, k) /\ rest'[c] = n /\ paquets'[c] = 0
        /\ log'[c].file = f /\ ~ resuming'[c]
    BY <1>1, <1>7, <2>4 DEF ClientTypes, NetTypes
  <2>6. Underway(c, k)'
    <3>1. n = n - 0 /\ 0 \in 0 .. k
      BY <1>9
    <3> QED
      BY <1>7, <1>8, <2>4, <2>5, <3>1 DEF Underway
  <2>7. Conversing(c)'
    BY <1>1, <1>5, <1>6, <2>4, <2>5, <2>6, ReadsWhatWasSent
  <2>8. ~ reset'[c]
    BY <1>1, <2>4 DEF Undisturbed
  <2> QED
    BY <1>4, <2>4, <2>5, <2>7, <2>8, ClientActs
<1> QED
  BY <1>2, <1>3, <1>12, <1>13

(* In client2server, what is under way is a run of blocks.                 *)
LEMMA Copying ==
  ASSUME QuietInv, NEW c \in Quiet, cpc[c] \in {"head", "block"}
  PROVE  /\ Streamed(c) /\ ~ resuming[c] /\ ~ reset[c] /\ conn[c] = "open"
         /\ \E f \in Files, n \in Nat, k \in Nat, e \in Executants :
              /\ f = creq[c].file /\ n = Blocks[f] /\ k <= n /\ k \in 0 .. Blocks[creq[c].file]
              /\ on[e] = c /\ Underway(c, k) /\ HasSent(e, c, k)
              /\ \A x \in Executants : on[x] = c => x = e
              /\ log[c].file = f /\ paquets[c] \in Nat /\ paquets[c] <= k
              /\ rest[c] = n - paquets[c] /\ down[c] = Run(f, paquets[c], k)
<1>1. Undisturbed(c) /\ Conversing(c)
  BY QuietFacts
<1>2. Streamed(c) /\ ~ resuming[c] /\ ~ reset[c] /\ conn[c] = "open"
  BY <1>1 DEF Undisturbed, Conversing, Asked, Unanswered, Streamed
<1>3. PICK e \in Executants, k \in 0 .. Blocks[creq[c].file] :
        /\ on[e] = c /\ Underway(c, k) /\ HasSent(e, c, k)
        /\ \A x \in Executants : on[x] = c => x = e
  BY <1>2, Streaming
<1>4. creq[c].file \in Files /\ Blocks[creq[c].file] \in Nat
  BY <1>2, Streaming
<1>5. k \in Nat /\ k <= Blocks[creq[c].file]
  BY <1>4
<1>6. /\ log[c].file = creq[c].file /\ paquets[c] \in 0 .. k
      /\ rest[c] = Blocks[creq[c].file] - paquets[c]
      /\ down[c] = Run(creq[c].file, paquets[c], k)
  BY <1>3 DEF Underway
<1>7. paquets[c] \in Nat /\ paquets[c] <= k
  BY <1>5, <1>6
<1> QED
  BY <1>2, <1>3, <1>4, <1>5, <1>6, <1>7

LEMMA HeadIsQuiet ==
  ASSUME QuietInv, NEW c \in Quiet, ClientHead(c)
  PROVE  Quietly(c)'
<1>1. ClientTypes /\ c \in Clients /\ Undisturbed(c)
  BY QuietFacts
<1>2. cpc[c] = "head" /\ Streamed(c) /\ ~ resuming[c]
  BY Copying DEF ClientHead
<1>3. PICK e \in Executants, k \in 0 .. Blocks[creq[c].file] :
        /\ on[e] = c /\ Underway(c, k) /\ HasSent(e, c, k)
        /\ \A x \in Executants : on[x] = c => x = e
  BY <1>2, Streaming
<1>4. /\ cpc' = [cpc EXCEPT ![c] = "block"]
      /\ UNCHANGED <<creq, rest, paquets, log, resuming, execvars, netvars>>
  BY DEF ClientHead, Goes
<1>5. cpc'[c] = "block" /\ UNCHANGED <<conn, up, down, reset>>
  BY <1>1, <1>4 DEF ClientTypes, netvars
<1>6. Underway(c, k)'
  BY <1>2, <1>3, <1>4, <1>5 DEF Underway
<1>7. Conversing(c)'
  BY <1>1, <1>2, <1>3, <1>4, <1>5, <1>6, ReadsWhatWasSent
<1>8. ~ reset'[c] /\ ~ resuming'[c]
  BY <1>1, <1>2, <1>4, <1>5 DEF Undisturbed
<1> QED
  BY <1>2, <1>4, <1>5, <1>7, <1>8, ClientActs

(* The last block leaves nothing under way, and an executant that is done. *)
LEMMA EndsInSync ==
  ASSUME NEW c \in Clients, NEW e \in Executants, HasSent(e, c, Blocks[creq[c].file]),
         Blocks[creq[c].file] \in Nat, \A x \in Executants : on[x] = c => x = e,
         UNCHANGED execvars, cpc'[c] = "top", up'[c] = << >>, down'[c] = << >>
  PROVE  Conversing(c)'
<1>1. Done(e)'
  BY DEF HasSent, Done, execvars
<1>2. Idle(c)'
  <2>1. \A x \in Executants : on'[x] = c => Done(x)'
    BY <1>1 DEF execvars
  <2> QED
    BY <2>1 DEF Idle
<1> QED
  BY <1>2 DEF Conversing

LEMMA BlockIsQuiet ==
  ASSUME QuietInv, NEW c \in Quiet,
         \/ ClientBlock(c) \/ ClientStrayWord(c)
         \/ ClientBlockEnds(c) \/ ClientReadFails(c)
  PROVE  Quietly(c)' /\ misfiled' = misfiled /\ ~ ClientReadFails(c)
<1>1. ClientTypes /\ NetTypes /\ c \in Clients /\ Undisturbed(c)
  BY QuietFacts
<1>2. cpc[c] = "block" /\ Streamed(c) /\ ~ resuming[c] /\ ~ reset[c] /\ conn[c] = "open"
  BY Copying DEF ClientBlock, ClientStrayWord, ClientBlockEnds, ClientReadFails
<1>3. PICK f \in Files, n \in Nat, k \in Nat, e \in Executants :
        /\ f = creq[c].file /\ n = Blocks[f] /\ k <= n /\ k \in 0 .. Blocks[creq[c].file]
        /\ on[e] = c /\ Underway(c, k) /\ HasSent(e, c, k)
        /\ \A x \in Executants : on[x] = c => x = e
        /\ log[c].file = f /\ paquets[c] \in Nat /\ paquets[c] <= k
        /\ rest[c] = n - paquets[c] /\ down[c] = Run(f, paquets[c], k)
  BY <1>2, Copying
<1>4. PICK p \in Nat : p = paquets[c]
  BY <1>3
<1>5. /\ p <= k /\ rest[c] = n - p /\ down[c] = Run(f, p, k)
      /\ down[c] = << >> <=> p = k
      /\ p # k => Head(down[c]) = Block(f, p) /\ Tail(down[c]) = Run(f, p + 1, k)
  <2>1. p <= k /\ rest[c] = n - p /\ down[c] = Run(f, p, k)
    BY <1>3, <1>4
  <2>2. /\ Run(f, p, k) = << >> <=> p = k
        /\ p # k => /\ Head(Run(f, p, k)) = Block(f, p)
                    /\ Tail(Run(f, p, k)) = Run(f, p + 1, k)
    BY <2>1, RunShrinks
  <2> QED
    BY <2>1, <2>2
<1>6. up[c] = << >> /\ HasSent(e, c, k)
  BY <1>2, <1>3 DEF Streamed
<1>7. Block(f, p).kind = "data"
  BY DEF Block
<1>8. ~ ClientStrayWord(c)
  BY <1>5, <1>7 DEF ClientStrayWord
<1>9. ~ ClientReadFails(c)
  <2>1. n - p >= 0
    BY <1>3, <1>5
  <2> QED
    BY <1>5, <2>1 DEF ClientReadFails
<1>10. CASE ClientBlock(c)
  <2>1. p # k
    BY <1>5, <1>10 DEF ClientBlock
  <2>2. /\ rest' = [rest EXCEPT ![c] = rest[c] - 1]
        /\ paquets' = [paquets EXCEPT ![c] = paquets[c] + 1]
        /\ down' = [down EXCEPT ![c] = Tail(down[c])]
        /\ UNCHANGED <<creq, resuming, execvars, conn, up, reset>>
    BY <1>10 DEF ClientBlock
  <2>3. rest'[c] = n - (p + 1) /\ paquets'[c] = p + 1 /\ down'[c] = Run(f, p + 1, k)
    <3>1. (n - p) - 1 = n - (p + 1)
      OBVIOUS
    <3>2. rest'[c] = rest[c] - 1 /\ paquets'[c] = paquets[c] + 1 /\ down'[c] = Tail(down[c])
      BY <1>1, <2>2 DEF ClientTypes, NetTypes
    <3> QED
      BY <1>4, <1>5, <2>1, <3>1, <3>2
  <2>4. misfiled' = misfiled
    BY <1>3, <1>4, <1>5, <1>10, <2>1 DEF ClientBlock
  <2>5. log'[c].file = f
    <3>1. log' = [log EXCEPT ![c].at = paquets[c] + 1] \/ log' = log
      BY <1>10 DEF ClientBlock
    <3>2. log \in [Clients -> LogType]
      BY <1>1 DEF ClientTypes
    <3>3. [log[c] EXCEPT !.at = paquets[c] + 1].file = log[c].file
      BY <1>1, <3>2 DEF LogType
    <3> QED
      BY <1>1, <1>3, <3>1, <3>2, <3>3
  <2>6. (cpc'[c] = "head" \/ (rest[c] = 1 /\ cpc'[c] = "top"))
    BY <1>1, <1>2, <1>10 DEF ClientBlock, Returned, Goes, ClientTypes
  <2>7. ~ reset'[c] /\ ~ resuming'[c] /\ UNCHANGED <<execvars, conn>>
    BY <1>2, <2>2
  <2>8. CASE cpc'[c] = "head"
    <3>1. p + 1 \in 0 .. k
      BY <1>5, <2>1
    <3>2. creq'[c].file = f
      BY <1>3, <2>2
    <3>3. Underway(c, k)'
      BY <1>3, <2>3, <2>5, <2>8, <3>1, <3>2 DEF Underway
    <3>4. creq'[c] = creq[c] /\ up'[c] = up[c]
      BY <2>2
    <3>5. Conversing(c)'
      BY <1>1, <1>2, <1>3, <2>7, <2>8, <3>3, <3>4, ReadsWhatWasSent
    <3> QED
      BY <1>2, <1>9, <2>4, <2>7, <2>8, <3>5, ClientActs
  <2>9. CASE rest[c] = 1 /\ cpc'[c] = "top"
    <3>1. p + 1 = n /\ k = n
      <4>1. k <= n /\ p <= k /\ p # k /\ n - p = 1
        BY <1>3, <1>5, <2>1, <2>9
      <4> QED
        BY <4>1
    <3>2. down'[c] = << >>
      <4>1. Run(f, n, n) = << >>
        BY RunShrinks
      <4> QED
        BY <2>3, <3>1, <4>1
    <3>3. up'[c] = << >>
      BY <1>6, <2>2
    <3>4. HasSent(e, c, Blocks[creq[c].file]) /\ Blocks[creq[c].file] \in Nat
      BY <1>3, <3>1
    <3>5. Conversing(c)'
      BY <1>1, <1>3, <2>7, <2>9, <3>2, <3>3, <3>4, EndsInSync
    <3> QED
      BY <1>2, <1>9, <2>4, <2>7, <2>9, <3>5, ClientActs
  <2> QED
    BY <2>6, <2>8, <2>9
<1>11. CASE ClientBlockEnds(c)
  <2>1. /\ rest[c] = 0 /\ cpc' = [cpc EXCEPT ![c] = "top"]
        /\ UNCHANGED <<netvars, execvars, history>>
    BY <1>2, <1>11 DEF ClientBlockEnds, Returned, Goes
  <2>2. cpc'[c] = "top"
    BY <1>1, <2>1 DEF ClientTypes
  <2>3. p = n /\ k = n
    BY <1>3, <1>5, <2>1
  <2>4. UNCHANGED <<execvars, conn, up, down, reset, misfiled>>
    BY <2>1 DEF netvars, history
  <2>5. up'[c] = << >> /\ down'[c] = << >> /\ ~ reset'[c]
    BY <1>2, <1>5, <1>6, <2>3, <2>4
  <2>6. HasSent(e, c, Blocks[creq[c].file]) /\ Blocks[creq[c].file] \in Nat
    BY <1>3, <2>3
  <2>7. Conversing(c)'
    BY <1>1, <1>3, <2>2, <2>4, <2>5, <2>6, EndsInSync
  <2> QED
    BY <1>2, <1>9, <2>2, <2>4, <2>5, <2>7, ClientActs
<1> QED
  BY <1>8, <1>9, <1>10, <1>11

LEMMA ClientIsQuiet ==
  ASSUME QuietInv, NEW c \in Quiet, c \notin rough',
         ClientStep(c) \/ UserStep(c) \/ Interrupt(c) \/ AskDirectory(c)
  PROVE  Quietly(c)'
<1>1. cpc[c] \notin {"readlog", "rmlog", "saving", "closing"}
  BY QuietFacts DEF Undisturbed
<1>2. ~ (ClientReadLog(c) \/ ClientRemoveLog(c) \/ SaveLog(c) \/ CloseSocket(c))
  BY <1>1 DEF ClientReadLog, ClientRemoveLog, SaveLog, CloseSocket
<1>3. ~ (Interrupt(c) \/ AskDirectory(c))
  BY DEF Interrupt, AskDirectory, Roughens
<1> QED
  BY <1>2, <1>3, TurnsQuietly, RequestIsQuiet, ByeIsQuiet, LaunchIsQuiet, ResponseIsQuiet,
     HeadIsQuiet, BlockIsQuiet DEF ClientStep, UserStep

-----------------------------------------------------------------------------
(* Steps of an executant.                                                  *)

(* An executant that has sent everything turns, and finds no .log.         *)
LEMMA ExecTurnIsQuiet ==
  ASSUME QuietInv, NEW c \in Quiet, c \notin rough', NEW e \in Executants, on[e] = c,
         ExecTurn(e) \/ SendEnds(e)
  PROVE  Quietly(c)'
<1>1. ExecTypes /\ c \in Clients /\ Undisturbed(c)
  BY QuietFacts
<1>2. epc[e] \in {"top", "send"} /\ (epc[e] = "send" => left[e] = 0 /\ ~ again[e])
  BY <1>1 DEF ExecTurn, SendEnds, Undisturbed
<1>3. /\ conn[c] = "open" /\ cpc[c] # "off" /\ Conversing(c)
      /\ \A x \in Executants : on[x] = c => x = e
  BY ItsExecutant
<1>4. /\ UNCHANGED <<clientvars, on, left, sending, again, netvars>>
      /\ epc' = [epc EXCEPT ![e] = epc'[e]] /\ epc'[e] \in {"top", "readreq"}
  <2>1. CASE ExecTurn(e)
    <3>1. ~ existslog
      BY <2>1 DEF ExecTurn, LooksForLog, Roughens
    <3> QED
      BY <1>1, <2>1, <3>1 DEF ExecTurn, Moves, ExecTypes
  <2>2. CASE SendEnds(e)
    BY <1>1, <1>2, <2>2 DEF SendEnds, Moves, ExecTypes
  <2> QED
    BY <2>1, <2>2
<1>5. \A x \in Executants \ {e} : epc'[x] = epc[x]
  BY <1>1, <1>4 DEF ExecTypes
<1>6. UNCHANGED <<cpc, creq, rest, paquets, log, conn, up, down, reset>>
  BY <1>4 DEF clientvars, netvars
<1>7. Idle(c)'
  <2>1. \A x \in Executants : on'[x] = c => Done(x)'
    BY <1>3, <1>4 DEF Done
  <2> QED
    BY <2>1 DEF Idle
<1>8. Streamed(c) => Streamed(c)'
  <2> SUFFICES ASSUME Streamed(c)
               PROVE  Streamed(c)'
    OBVIOUS
  <2>1. PICK k \in 0 .. Blocks[creq[c].file] : Underway(c, k) /\ HasSent(e, c, k)
    BY DEF Streamed
  <2>2. Blocks[creq[c].file] \in Nat
    BY FTPAssumption DEF Streamed
  <2>3. k = Blocks[creq[c].file]
    BY <1>2, <2>1, <2>2 DEF HasSent
  <2>4. Underway(c, k)'
    BY <1>6, <2>1 DEF Underway
  <2>5. HasSent(e, c, k)'
    BY <1>4, <1>6, <2>3 DEF HasSent
  <2>6. \A x \in Executants : on'[x] = c =>
          \E j \in 0 .. Blocks[creq'[c].file] : Underway(c, j)' /\ HasSent(x, c, j)'
    <3> SUFFICES ASSUME NEW x \in Executants, on'[x] = c
                 PROVE  \E j \in 0 .. Blocks[creq'[c].file] : Underway(c, j)' /\ HasSent(x, c, j)'
      OBVIOUS
    <3>1. x = e /\ k \in 0 .. Blocks[creq'[c].file]
      BY <1>3, <1>4, <1>6
    <3> QED
      BY <2>4, <2>5, <3>1
  <2> QED
    BY <1>6, <2>6 DEF Streamed
<1>9. Conversing(c)'
  BY <1>3, <1>6, <1>7, <1>8 DEF Conversing, Asked, Unanswered, OfDirectory
<1> QED
  BY <1>4, <1>5, <1>6, <1>9, ExecActs

(* One that still has something to send has a client that waits for it.    *)
LEMMA SendsToItsClient ==
  ASSUME QuietInv, NEW c \in Quiet, NEW e \in Executants, on[e] = c,
         epc[e] = "send", left[e] # 0
  PROVE  /\ Streamed(c) /\ cpc[c] \in {"response", "size", "head", "block"}
         /\ creq[c].file \in Files
         /\ \E k \in Nat :
              /\ k < Blocks[creq[c].file] /\ left[e] = Blocks[creq[c].file] - k
              /\ sending[e] = [file |-> creq[c].file, index |-> k]
              /\ Underway(c, k)
<1>1. ExecTypes /\ c \in Clients /\ Undisturbed(c) /\ Conversing(c)
  BY QuietFacts
<1>2. cpc[c] # "off"
  BY ItsExecutant
<1>3. ~ Idle(c)
  BY DEF Idle, Done
<1>4. cpc[c] \in {"response", "size", "head", "block"}
  BY <1>1, <1>2, <1>3 DEF Undisturbed, Conversing
<1>5. Streamed(c)
  BY <1>1, <1>3, <1>4 DEF Conversing, Asked, Unanswered
<1>6. PICK f \in Files : f = creq[c].file
  BY <1>5, Streaming
<1>7. PICK n \in Nat : n = Blocks[f]
  BY <1>6, FTPAssumption
<1>8. PICK k \in 0 .. n : Underway(c, k) /\ HasSent(e, c, k)
  BY <1>5, <1>6, <1>7 DEF Streamed
<1>9. sending[e] = [file |-> f, index |-> k] /\ left[e] = n - k
  BY <1>6, <1>7, <1>8 DEF HasSent
<1>10. k \in Nat /\ k < n
  BY <1>9
<1> QED
  BY <1>4, <1>5, <1>6, <1>7, <1>8, <1>9, <1>10

LEMMA SendIsQuiet ==
  ASSUME QuietInv, NEW c \in Quiet, NEW e \in Executants, on[e] = c, SendBlock(e)
  PROVE  Quietly(c)'
<1>1. ExecTypes /\ NetTypes /\ c \in Clients /\ Undisturbed(c)
  BY QuietFacts
<1>2. epc[e] = "send" /\ left[e] > 0 /\ left[e] # 0 /\ ~ again[e]
  BY <1>1 DEF SendBlock, Undisturbed, ExecTypes
<1>3. conn[c] = "open" /\ \A x \in Executants : on[x] = c => x = e
  BY ItsExecutant
<1>4. Streamed(c) /\ cpc[c] \in {"response", "size", "head", "block"}
  BY <1>2, SendsToItsClient
<1>5. PICK f \in Files : f = creq[c].file
  BY <1>4, Streaming
<1>6. PICK n \in Nat : n = Blocks[f]
  BY <1>5, FTPAssumption
<1>7. PICK k \in Nat :
        /\ k < Blocks[creq[c].file] /\ left[e] = Blocks[creq[c].file] - k
        /\ sending[e] = [file |-> creq[c].file, index |-> k]
        /\ Underway(c, k)
  BY <1>2, SendsToItsClient
<1>8. /\ k < n /\ k + 1 \in 0 .. n
      /\ sending[e] = [file |-> f, index |-> k] /\ left[e] = n - k
  BY <1>5, <1>6, <1>7
<1>9. c \in Alive
  BY <1>1, <1>4 DEF Alive, ClientGone
<1>10. /\ down' = [down EXCEPT ![c] = down[c] \o <<Block(f, k)>>]
      /\ left' = [left EXCEPT ![e] = left[e] - 1]
      /\ sending' = [sending EXCEPT ![e].index = sending[e].index + 1]
      /\ UNCHANGED <<epc, on, again, conn, up, reset, clientvars>>
  <2>1. sending[e].file = f /\ sending[e].index = k
    BY <1>8
  <2> QED
    BY <1>9, <2>1 DEF SendBlock, DiesWriting, Writes
<1>11. down'[c] = down[c] \o <<Block(f, k)>>
  BY <1>1, <1>10 DEF NetTypes
<1>12. left'[e] = n - (k + 1) /\ sending'[e] = [file |-> f, index |-> k + 1]
  <2>1. left'[e] = left[e] - 1
    BY <1>1, <1>10 DEF ExecTypes
  <2>2. (n - k) - 1 = n - (k + 1)
    BY <1>8
  <2>3. PICK s : s = [sending[e] EXCEPT !.index = sending[e].index + 1]
    OBVIOUS
  <2>4. s = [file |-> f, index |-> k + 1]
    BY <1>8, <2>3
  <2>5. sending'[e] = s
    BY <1>1, <1>10, <2>3 DEF ExecTypes
  <2> QED
    BY <1>8, <2>1, <2>2, <2>4, <2>5
<1>13. UNCHANGED <<cpc, creq, rest, paquets, log>>
  BY <1>10 DEF clientvars
<1>14. Underway(c, k + 1)'
  <2>1. PICK a : a = Response("SENDING", n)
    OBVIOUS
  <2>2. PICK b : b = Response("FOUND", 0)
    OBVIOUS
  <2>3. a \in Units /\ b \in Units
    BY <2>1, <2>2 DEF Units
  <2>4. /\ (<<a>> \o Run(f, 0, k)) \o <<Block(f, k)>> = <<a>> \o Run(f, 0, k + 1)
        /\ (<<b>> \o (<<a>> \o Run(f, 0, k))) \o <<Block(f, k)>>
             = <<b>> \o (<<a>> \o Run(f, 0, k + 1))
    BY <2>3, AnswerGrows
  <2>5. CASE cpc[c] = "response" /\ down[c] = <<b>> \o (<<a>> \o Run(f, 0, k))
    BY <1>5, <1>6, <1>11, <1>13, <2>1, <2>2, <2>4, <2>5 DEF Underway
  <2>6. CASE cpc[c] = "size" /\ down[c] = <<a>> \o Run(f, 0, k)
    BY <1>5, <1>6, <1>11, <1>13, <2>1, <2>4, <2>6 DEF Underway
  <2>7. CASE /\ cpc[c] \in {"head", "block"}
             /\ log[c].file = f /\ paquets[c] \in 0 .. k
             /\ rest[c] = n - paquets[c] /\ down[c] = Run(f, paquets[c], k)
    <3>1. PICK p \in Nat : p = paquets[c] /\ p <= k /\ p \in 0 .. k + 1
      BY <1>8, <2>7
    <3>2. Run(f, p, k) \o <<Block(f, k)>> = Run(f, p, k + 1)
      BY <3>1, RunGrows
    <3>3. down'[c] = Run(f, p, k + 1)
      BY <1>11, <2>7, <3>1, <3>2
    <3> QED
      BY <1>5, <1>6, <1>13, <2>7, <3>1, <3>3 DEF Underway
  <2> QED
    BY <1>5, <1>6, <1>7, <2>1, <2>2, <2>5, <2>6, <2>7 DEF Underway
<1>15. HasSent(e, c, k + 1)'
  BY <1>2, <1>5, <1>6, <1>10, <1>12, <1>13 DEF HasSent
<1>16. Streamed(c)'
  <2>1. \A x \in Executants : on'[x] = c =>
          \E j \in 0 .. Blocks[creq'[c].file] : Underway(c, j)' /\ HasSent(x, c, j)'
    <3> SUFFICES ASSUME NEW x \in Executants, on'[x] = c
                 PROVE  \E j \in 0 .. Blocks[creq'[c].file] : Underway(c, j)' /\ HasSent(x, c, j)'
      OBVIOUS
    <3>1. x = e /\ k + 1 \in 0 .. Blocks[creq'[c].file]
      BY <1>3, <1>5, <1>6, <1>8, <1>10, <1>13
    <3> QED
      BY <1>14, <1>15, <3>1
  <2> QED
    BY <1>4, <1>10, <1>13, <2>1 DEF Streamed
<1>17. Conversing(c)'
  BY <1>4, <1>13, <1>16 DEF Conversing, Streamed
<1> QED
  BY <1>2, <1>10, <1>17, ExecActs

(* A request that is read is the one its client waits for an answer to.    *)
LEMMA ServesWhatIsAsked ==
  ASSUME QuietInv, NEW c \in Quiet, NEW e \in Executants, on[e] = c, ServeRequest(e)
  PROVE  /\ Asked(c) /\ creq[c].cmd \in {"get", "put", "ls"} /\ c \in Alive
         /\ Head(up[c]).req = creq[c] /\ Tail(up[c]) = << >>
<1>1. c \in Clients /\ Undisturbed(c)
  BY QuietFacts
<1>2. up[c] # << >> /\ Head(up[c]).kind = "request"
  <2>1. up[on[e]] # << >> /\ Head(up[on[e]]).kind = "request"
    BY Zenon DEF ServeRequest
  <2> QED
    BY <2>1
<1>3. Conversing(c) /\ cpc[c] # "off" /\ conn[c] = "open"
  BY ItsExecutant
<1>4. cpc[c] # "bye"
  <2> SUFFICES ASSUME cpc[c] = "bye"
               PROVE  FALSE
    OBVIOUS
  <2>1. up[c] = <<ByeWord>>
    BY <1>3 DEF Conversing
  <2>2. Head(<<ByeWord>>) = ByeWord /\ ByeWord.kind = "bye"
    BY DEF ByeWord
  <2> QED
    BY <1>2, <2>1, <2>2
<1>5. Asked(c) /\ creq[c].cmd \in {"get", "put", "ls"}
  BY <1>1, <1>2, <1>3, <1>4 DEF Undisturbed, Conversing, Unanswered, Streamed
<1>6. c \in Alive
  BY <1>1, <1>5 DEF Asked, Alive, ClientGone
<1>7. Head(up[c]).req = creq[c] /\ Tail(up[c]) = << >>
  <2>1. PICK x : x = Request(creq[c])
    OBVIOUS
  <2>2. Head(<<x>>) = x /\ Tail(<<x>>) = << >> /\ x.req = creq[c]
    BY <2>1 DEF Request
  <2> QED
    BY <1>5, <2>1, <2>2 DEF Asked
<1> QED
  BY <1>5, <1>6, <1>7

LEMMA ServeIsQuiet ==
  ASSUME QuietInv, NEW c \in Quiet, NEW e \in Executants, on[e] = c, ServeRequest(e)
  PROVE  Quietly(c)'
<1>1. ExecTypes /\ NetTypes /\ c \in Clients /\ Undisturbed(c)
  BY QuietFacts
<1>2. conn[c] = "open" /\ \A x \in Executants : on[x] = c => x = e
  BY ItsExecutant
<1>3. PICK r : r = creq[c]
  OBVIOUS
<1>4. /\ Asked(c) /\ r.cmd \in {"get", "put", "ls"} /\ c \in Alive
      /\ Head(up[c]).req = r /\ Tail(up[c]) = << >>
  BY <1>3, ServesWhatIsAsked
<1>5. cpc[c] = "response" /\ down[c] = << >> /\ ~ OfDirectory(r)
  BY <1>3, <1>4 DEF Asked
<1>6. ~ DiesWriting(e)
  BY <1>4 DEF DiesWriting
<1>7. UNCHANGED <<clientvars, on, conn, reset>> /\ up' = [up EXCEPT ![c] = << >>]
  <2>1. \/ DiesWriting(e)
        \/ /\ UNCHANGED <<clientvars, on, conn, reset>>
           /\ up' = [up EXCEPT ![on[e]] = Tail(up[on[e]])]
    BY Zenon DEF ServeRequest
  <2> QED
    BY <1>4, <1>6, <2>1
<1>8. UNCHANGED <<cpc, creq>> /\ up'[c] = << >>
  BY <1>1, <1>7 DEF clientvars, NetTypes
<1>9. CASE r.cmd = "get" /\ r.file \in Files
  <2>1. PICK f \in Files : f = r.file
    BY <1>9
  <2>2. PICK n \in Nat : n = Blocks[f]
    BY FTPAssumption
  <2>3. PICK a : a = Response("SENDING", n)
    OBVIOUS
  <2>4. PICK b : b = Response("FOUND", 0)
    OBVIOUS
  <2>5. a \in Units /\ b \in Units
    BY <2>3, <2>4 DEF Units
  <2>6. SizesOf(r.file) = {n}
    BY <1>9, <2>1, <2>2, FTPAssumption DEF SizesOf
  <2>7. /\ epc' = [epc EXCEPT ![e] = "send"]
        /\ down' = [down EXCEPT ![c] = down[c] \o <<b, a>>]
        /\ left' = [left EXCEPT ![e] = n]
        /\ sending' = [sending EXCEPT ![e] = [file |-> f, index |-> 0]]
        /\ again' = [again EXCEPT ![e] = FALSE]
    BY <1>4, <1>6, <1>9, <2>1, <2>3, <2>4, <2>6 DEF ServeRequest, Moves
  <2>8. /\ epc'[e] = "send" /\ left'[e] = n /\ sending'[e] = [file |-> f, index |-> 0]
        /\ ~ again'[e]
        /\ \A x \in Executants \ {e} : epc'[x] = epc[x] /\ again'[x] = again[x]
    BY <1>1, <2>7 DEF ExecTypes
  <2>9. down'[c] = << >> \o <<b, a>>
    BY <1>1, <1>5, <2>7 DEF NetTypes
  <2>10. down'[c] = <<b>> \o (<<a>> \o Run(f, 0, 0))
    BY <2>5, <2>9, AnswerBegins
  <2>11. Underway(c, 0)'
    BY <1>3, <1>5, <1>8, <2>1, <2>2, <2>3, <2>4, <2>10 DEF Underway
  <2>12. HasSent(e, c, 0)'
    BY <1>3, <1>8, <2>1, <2>2, <2>8 DEF HasSent
  <2>13. Streamed(c)'
    <3>1. \A x \in Executants : on'[x] = c =>
            \E j \in 0 .. Blocks[creq'[c].file] : Underway(c, j)' /\ HasSent(x, c, j)'
      <4> SUFFICES ASSUME NEW x \in Executants, on'[x] = c
                   PROVE  \E j \in 0 .. Blocks[creq'[c].file] : Underway(c, j)' /\ HasSent(x, c, j)'
        OBVIOUS
      <4>1. x = e /\ 0 \in 0 .. Blocks[creq'[c].file]
        BY <1>2, <1>3, <1>7, <1>8, <2>1, <2>2
      <4> QED
        BY <2>11, <2>12, <4>1
    <3>2. creq'[c].cmd = "get" /\ creq'[c].file \in Files
      BY <1>3, <1>8, <1>9
    <3>3. conn'[c] = "open"
      BY <1>2, <1>7
    <3> QED
      BY <1>8, <3>1, <3>2, <3>3 DEF Streamed
  <2>14. Conversing(c)'
    BY <1>3, <1>5, <1>8, <1>9, <2>13 DEF Conversing
  <2> QED
    BY <1>7, <2>8, <2>14, ExecActs
<1>10. CASE r.cmd # "get" \/ r.file \notin Files
  <2>0. r.cmd = "get" => r.file \notin Files \cup Directories
    BY <1>5, <1>10 DEF OfDirectory
  <2>1. epc' = [epc EXCEPT ![e] = "top"] /\ UNCHANGED again
    BY <1>4, <1>6, <1>10, <2>0 DEF ServeRequest, Moves
  <2>2. epc'[e] = "top" /\ \A x \in Executants \ {e} : epc'[x] = epc[x] /\ again'[x] = again[x]
    BY <1>1, <2>1 DEF ExecTypes
  <2>3. Idle(c)'
    <3>1. \A x \in Executants : on'[x] = c => Done(x)'
      BY <1>2, <1>7, <2>2 DEF Done
    <3> QED
      BY <3>1 DEF Idle
  <2>4. \/ r.cmd \in {"put", "ls"} /\ down'[c] = << >>
        \/ /\ r.cmd = "get" /\ r.file \notin Files \cup Directories
           /\ down'[c] = <<Word("NOT_FOUND")>>
    <3>1. CASE r.cmd \in {"put", "ls"}
      BY <1>4, <1>5, <1>6, <3>1 DEF ServeRequest
    <3>2. CASE r.cmd = "get"
      <4>1. down' = [down EXCEPT ![c] = Append(down[c], Word("NOT_FOUND"))]
        BY <1>4, <1>6, <2>0, <3>2 DEF ServeRequest
      <4>2. down'[c] = Append(<< >>, Word("NOT_FOUND"))
        BY <1>1, <1>5, <4>1 DEF NetTypes
      <4>3. \A x : Append(<< >>, x) = <<x>>
        OBVIOUS
      <4> QED
        BY <2>0, <3>2, <4>2, <4>3
    <3> QED
      BY <1>4, <3>1, <3>2
  <2>5. Unanswered(c)'
    BY <1>3, <1>5, <1>8, <2>3, <2>4 DEF Unanswered
  <2>6. Conversing(c)'
    BY <1>3, <1>4, <1>5, <1>8, <2>5 DEF Conversing
  <2> QED
    BY <1>7, <2>2, <2>6, ExecActs
<1> QED
  BY <1>9, <1>10

(* A bye ends the connection on both sides; the executant accepts again.   *)
LEMMA ReadByeIsQuiet ==
  ASSUME QuietInv, NEW c \in Quiet, NEW e \in Executants, on[e] = c, ReadBye(e)
  PROVE  Quietly(c)' /\ cpc[c] = "bye"
<1>1. /\ ClientTypes /\ ExecTypes /\ NetTypes /\ c \in Clients /\ Undisturbed(c)
      /\ Conversing(c)
  BY QuietFacts
<1>2. cpc[c] # "off" /\ \A x \in Executants : on[x] = c => x = e
  BY ItsExecutant
<1>3. cpc[c] = "bye" /\ down[c] = << >>
  <2>1. c \notin Alive
    BY DEF ReadBye
  <2>2. cpc[c] = "bye"
    BY <1>1, <1>2, <2>1 DEF Alive, ClientGone, Undisturbed
  <2> QED
    BY <1>1, <2>2 DEF Conversing
<1>4. /\ on' = [on EXCEPT ![e] = NoOne] /\ conn' = [conn EXCEPT ![c] = "closed"]
      /\ UNCHANGED <<clientvars, down, reset>>
  BY DEF ReadBye
<1>5. /\ cpc'[c] = "bye" /\ down'[c] = << >> /\ conn'[c] = "closed" /\ ~ reset'[c]
      /\ \A x \in Executants : on'[x] # c
  BY <1>1, <1>2, <1>3, <1>4, FTPAssumption DEF ExecTypes, NetTypes, Undisturbed, clientvars
<1>6. Conversing(c)'
  BY <1>5 DEF Conversing, Idle
<1>7. Undisturbed(c)'
  BY <1>5 DEF Undisturbed
<1> QED
  BY <1>3, <1>6, <1>7 DEF Quietly

LEMMA AcceptIsQuiet ==
  ASSUME QuietInv, NEW c \in Quiet, NEW e \in Executants, AcceptClient(e), on'[e] = c
  PROVE  Quietly(c)'
<1>1. /\ ExecTypes /\ NetTypes /\ Attending /\ Queued
      /\ c \in Clients /\ Undisturbed(c) /\ Conversing(c)
  BY QuietFacts
<1>2. Head(backlog) = c
  BY <1>1 DEF AcceptClient, ExecTypes
<1>3. conn[c] = "queued"
  <2>1. PICK b : b = backlog
    OBVIOUS
  <2>2. b \in Seq(Clients) /\ EachOnce(b) /\ b # << >>
    BY <1>1, <2>1 DEF NetTypes, Queued, AcceptClient
  <2>3. Head(b) \in Waits(b)
    BY <2>2, QueueShrinks
  <2> QED
    BY <1>1, <1>2, <2>1, <2>3 DEF Queued
<1>4. cpc[c] # "off" /\ \A x \in Executants : on[x] # c
  BY <1>1, <1>3, FTPAssumption DEF Attending, Queued
<1>5. /\ epc' = [epc EXCEPT ![e] = "top"] /\ on' = [on EXCEPT ![e] = c]
      /\ conn' = [conn EXCEPT ![c] = "open"]
      /\ UNCHANGED <<clientvars, up, down, reset>>
  BY <1>2 DEF AcceptClient, Moves
<1>6. epc'[e] = "top" /\ conn'[c] = "open" /\ \A x \in Executants : on'[x] = c => x = e
  BY <1>1, <1>4, <1>5 DEF ExecTypes, NetTypes
<1>7. UNCHANGED <<cpc, creq, rest, paquets, log, resuming, up, down, reset>>
  BY <1>5 DEF clientvars
<1>8. Idle(c)'
  BY <1>6 DEF Idle, Done
<1>9. ~ Streamed(c)
  BY <1>3 DEF Streamed
<1>10. Asked(c) => Asked(c)'
  BY <1>7, <1>8 DEF Asked, OfDirectory
<1>11. Unanswered(c) => Unanswered(c)'
  BY <1>7, <1>8 DEF Unanswered
<1>12. cpc[c] = "bye" => up[c] = <<ByeWord>>
  BY <1>1, <1>3 DEF Conversing
<1>13. Conversing(c)'
  BY <1>1, <1>7, <1>8, <1>9, <1>10, <1>11, <1>12 DEF Conversing
<1>14. Undisturbed(c)'
  BY <1>1, <1>6, <1>7 DEF Undisturbed
<1> QED
  BY <1>13, <1>14 DEF Quietly

(* At its end nothing fails.                                               *)
LEMMA NothingFails ==
  ASSUME QuietInv, NEW c \in Quiet, NEW e \in Executants, on[e] = c
  PROVE  /\ ~ ReadEnd(e) /\ ~ SendFails(e)
         /\ ~ ExecReadLog(e) /\ ~ ExecRemoveLog(e)
         /\ ~ AcceptClient(e) /\ ~ AcceptFails(e)
<1>1. ExecTypes /\ Attending /\ c \in Clients /\ Undisturbed(c) /\ Conversing(c)
  BY QuietFacts
<1>2. epc[e] \in {"top", "readreq", "send"} /\ cpc[c] # "off" /\ conn[c] = "open" /\ ~ reset[c]
  BY <1>1, ItsExecutant DEF Undisturbed
<1>3. ~ ExecReadLog(e) /\ ~ ExecRemoveLog(e) /\ ~ AcceptClient(e) /\ ~ AcceptFails(e)
  BY <1>2 DEF ExecReadLog, ExecRemoveLog, AcceptClient, AcceptFails
<1>4. ~ ReadEnd(e)
  <2> SUFFICES ASSUME ReadEnd(e)
               PROVE  FALSE
    OBVIOUS
  <2>1. cpc[c] = "bye"
    BY <1>1, <1>2 DEF ReadEnd, Alive, ClientGone, Undisturbed
  <2>2. up[c] = <<ByeWord>>
    BY <1>1, <1>2, <2>1 DEF Conversing
  <2>3. up[c] = << >>
    BY <1>2 DEF ReadEnd
  <2> QED
    BY <2>2, <2>3
<1>5. ~ SendFails(e)
  <2> SUFFICES ASSUME SendFails(e)
               PROVE  FALSE
    OBVIOUS
  <2>1. epc[e] = "send" /\ left[e] # 0
    BY <1>1 DEF SendFails, ExecTypes
  <2>2. PICK k \in Nat :
          /\ k < Blocks[creq[c].file] /\ left[e] = Blocks[creq[c].file] - k
          /\ sending[e] = [file |-> creq[c].file, index |-> k]
          /\ Underway(c, k)
    BY <2>1, SendsToItsClient
  <2>3. creq[c].file \in Files
    BY <2>1, SendsToItsClient
  <2>4. Blocks[creq[c].file] \in Nat /\ creq[c].file \notin Directories
    BY <2>3, FTPAssumption
  <2>5. sending[e].file = creq[c].file /\ ~ (left[e] < 0)
    BY <2>2, <2>4
  <2> QED
    BY <2>4, <2>5 DEF SendFails
<1> QED
  BY <1>3, <1>4, <1>5

LEMMA ExecIsQuiet ==
  ASSUME QuietInv, NEW c \in Quiet, c \notin rough', NEW e \in Executants,
         on[e] = c \/ on'[e] = c, ExecStep(e) \/ AcceptFails(e)
  PROVE  Quietly(c)'
<1>1. CASE on[e] = c
  BY <1>1, NothingFails, ExecTurnIsQuiet, ServeIsQuiet, ReadByeIsQuiet, SendIsQuiet
     DEF ExecStep
<1>2. CASE on[e] # c
  <2>1. ExecTypes /\ c \in Clients
    BY QuietFacts
  <2>2. on' # on /\ on' # [on EXCEPT ![e] = NoOne]
    BY <1>2, <2>1, FTPAssumption DEF ExecTypes
  <2>3. CASE AcceptClient(e)
    BY <1>2, <2>3, AcceptIsQuiet
  <2>4. CASE AcceptFails(e)
    <3>1. on' = [on EXCEPT ![e] = Head(backlog)] /\ Roughens(Head(backlog))
      BY <2>2, <2>4, Zenon DEF AcceptFails
    <3>2. Head(backlog) = c
      BY <1>2, <2>1, <3>1 DEF ExecTypes
    <3> QED
      BY <3>1, <3>2 DEF Roughens
  <2>5. Dies(e) => on' = on
    BY DEF Dies
  <2>6. ExecTurn(e) \/ ExecReadLog(e) \/ ReadEnd(e) \/ SendFails(e) \/ SendEnds(e)
          \/ ExecRemoveLog(e) => on' = on
    BY <2>5 DEF ExecTurn, ExecReadLog, ReadEnd, SendFails, SendEnds, ExecRemoveLog
  <2>7. ServeRequest(e) => on' = on
    BY <2>5, Zenon DEF ServeRequest, DiesWriting
  <2>8. SendBlock(e) => on' = on
    BY <2>5 DEF SendBlock, DiesWriting
  <2>9. ReadBye(e) => on' = [on EXCEPT ![e] = NoOne]
    BY DEF ReadBye
  <2> QED
    BY <2>2, <2>3, <2>4, <2>6, <2>7, <2>8, <2>9 DEF ExecStep
<1> QED
  BY <1>1, <1>2


-----------------------------------------------------------------------------
(* Connections do not become quiet again, and only a client stores.        *)

LEMMA ClientHistory ==
  ASSUME NEW c \in Clients,
         ClientStep(c) \/ UserStep(c) \/ Interrupt(c) \/ AskDirectory(c)
  PROVE  /\ rough \subseteq rough'
         /\ \/ misfiled' = misfiled
            \/ misfiled' = misfiled \cup {c} /\ (ClientBlock(c) \/ ClientStrayWord(c))
<1>1. CASE ClientTurn(c) \/ Interrupt(c) \/ AskDirectory(c)
  BY <1>1 DEF ClientTurn, Interrupt, AskDirectory, LooksForLog, Roughens, history
<1>2. CASE ClientBlock(c) \/ ClientStrayWord(c)
  BY <1>2 DEF ClientBlock, ClientStrayWord
<1>3. CASE ClientReadLog(c) \/ ReadResponse(c) \/ ReadSize(c) \/ OpenExits(c)
           \/ ResponseFails(c) \/ ClientHead(c)
  <2>1. UNCHANGED history
    BY <1>3 DEF ClientReadLog, ReadResponse, ReadSize, OpenExits, ResponseFails, ClientHead
  <2> QED
    BY <2>1 DEF history
<1>4. CASE ClientBlockEnds(c) \/ ClientReadFails(c) \/ ClientRemoveLog(c) \/ SaveLog(c)
           \/ CloseSocket(c)
  <2>1. UNCHANGED history
    BY <1>4 DEF ClientBlockEnds, ClientReadFails, ClientRemoveLog, SaveLog, CloseSocket
  <2> QED
    BY <2>1 DEF history
<1>5. CASE UserStep(c)
  <2>1. UNCHANGED history
    BY <1>5 DEF UserStep, Launch, TypeIgnored, TypeRequest, TypeBye
  <2> QED
    BY <2>1 DEF history
<1> QED
  BY <1>1, <1>2, <1>3, <1>4, <1>5 DEF ClientStep

LEMMA ExecHistory ==
  ASSUME NEW e \in Executants, ExecStep(e) \/ AcceptFails(e)
  PROVE  rough \subseteq rough' /\ misfiled' = misfiled
<1>1. CASE ExecTurn(e)
  BY <1>1 DEF ExecTurn, LooksForLog, Roughens, history
<1>2. CASE AcceptFails(e)
  <2>1. UNCHANGED history \/ Roughens(Head(backlog))
    BY <1>2, Zenon DEF AcceptFails
  <2> QED
    BY <2>1 DEF Roughens, history
<1>3. CASE ServeRequest(e)
  <2>1. UNCHANGED history
    BY <1>3, Zenon DEF ServeRequest
  <2> QED
    BY <2>1 DEF history
<1>4. CASE AcceptClient(e) \/ ExecReadLog(e) \/ ReadBye(e) \/ ReadEnd(e)
           \/ SendBlock(e) \/ SendFails(e) \/ SendEnds(e) \/ ExecRemoveLog(e)
  <2>1. UNCHANGED history
    BY <1>4 DEF AcceptClient, ExecReadLog, ReadBye, ReadEnd, SendBlock, SendFails, SendEnds,
                ExecRemoveLog
  <2> QED
    BY <2>1 DEF history
<1> QED
  BY <1>1, <1>2, <1>3, <1>4 DEF ExecStep

LEMMA QuietInit == Init => QuietInv
<1> SUFFICES ASSUME Init
             PROVE  QuietInv
  OBVIOUS
<1>1. ASSUME NEW c \in Quiet
      PROVE  Quietly(c)
  <2>1. c \in Clients
    BY DEF Quiet
  <2>2. cpc[c] = "off" /\ ~ reset[c] /\ conn[c] = "none" /\ up[c] = << >> /\ down[c] = << >>
    BY <2>1 DEF Init
  <2>3. \A e \in Executants : on[e] # c
    BY <2>1, FTPAssumption DEF Init
  <2> QED
    BY <2>2, <2>3 DEF Quietly, Undisturbed, Conversing
<1> QED
  BY <1>1, ConnInit DEF Init, QuietInv

LEMMA QuietStep == QuietInv /\ [Next]_vars => QuietInv'
<1> SUFFICES ASSUME QuietInv, [Next]_vars
             PROVE  QuietInv'
  OBVIOUS
<1>1. ConnInv /\ ConnInv' /\ TypeInv
  BY ConnStep DEF QuietInv, ConnInv
<1>2. ASSUME rough \subseteq rough', misfiled' \subseteq rough',
             \A d \in Quiet : d \notin rough' => Quietly(d)'
      PROVE  QuietInv'
  <2>1. \A d \in Quiet' : d \in Quiet /\ d \notin rough'
    BY <1>2 DEF Quiet
  <2> QED
    BY <1>1, <1>2, <2>1 DEF QuietInv
<1>3. ASSUME NEW c \in Clients,
             ClientStep(c) \/ UserStep(c) \/ Interrupt(c) \/ AskDirectory(c)
      PROVE  QuietInv'
  <2>1. rough \subseteq rough'
    BY <1>3, ClientHistory
  <2>2. misfiled' \subseteq rough'
    <3>1. CASE misfiled' = misfiled
      BY <2>1, <3>1 DEF QuietInv
    <3>2. CASE misfiled' # misfiled
      <4>1. misfiled' = misfiled \cup {c} /\ (ClientBlock(c) \/ ClientStrayWord(c))
        BY <1>3, <3>2, ClientHistory
      <4>2. c \notin Quiet
        BY <3>2, <4>1, BlockIsQuiet
      <4> QED
        BY <2>1, <4>1, <4>2 DEF QuietInv, Quiet
    <3> QED
      BY <3>1, <3>2
  <2>3. ASSUME NEW d \in Quiet, d \notin rough'
        PROVE  Quietly(d)'
    <3>1. d \in Clients /\ Quietly(d)
      BY DEF Quiet, QuietInv
    <3>2. CASE d = c
      BY <1>3, <2>3, <3>2, ClientIsQuiet
    <3>3. CASE d # c
      BY <1>1, <1>3, <3>1, <3>3, ClientsKeepApart, Elsewhere
    <3> QED
      BY <3>2, <3>3
  <2> QED
    BY <1>2, <2>1, <2>2, <2>3
<1>4. ASSUME NEW e \in Executants, ExecStep(e) \/ AcceptFails(e)
      PROVE  QuietInv'
  <2>1. rough \subseteq rough' /\ misfiled' = misfiled
    BY <1>4, ExecHistory
  <2>2. ASSUME NEW d \in Quiet, d \notin rough'
        PROVE  Quietly(d)'
    <3>1. d \in Clients /\ Quietly(d)
      BY DEF Quiet, QuietInv
    <3>2. CASE on[e] = d \/ on'[e] = d
      BY <1>4, <2>2, <3>2, ExecIsQuiet
    <3>3. CASE on[e] # d /\ on'[e] # d
      BY <1>1, <1>4, <3>1, <3>3, ExecutantsKeepApart, Elsewhere
    <3> QED
      BY <3>2, <3>3
  <2> QED
    BY <1>2, <2>1, <2>2 DEF QuietInv
<1>5. CASE UNCHANGED vars
  <2>1. UNCHANGED <<cpc, creq, rest, paquets, log, resuming, epc, on, left, sending, again,
                    conn, up, down, reset, misfiled, rough>>
    BY <1>5 DEF vars, clientvars, execvars, netvars, history
  <2>2. \A d \in Clients : Untouched(d)
    BY <2>1 DEF Untouched
  <2>3. \A d \in Quiet : Quietly(d)'
    BY <2>2, Elsewhere DEF QuietInv, Quiet
  <2> QED
    BY <1>2, <2>1, <2>3 DEF QuietInv
<1> QED
  BY <1>3, <1>4, <1>5 DEF Next, CalmNext

-----------------------------------------------------------------------------
(* A client of a quiet connection that prompts (the fgets in main of       *)
(* clientFTP.c) has read everything its executant sent, its executant has  *)
(* read everything it sent, and has nothing left to send, whatever happens *)
(* on the other connections.                                               *)
THEOREM PromptsInSync == Spec => []PromptInSync
<1>1. QuietInv => PromptInSync
  <2> SUFFICES ASSUME QuietInv, NEW c \in Quiet, cpc[c] = "prompt"
               PROVE  /\ up[c] = << >> /\ down[c] = << >>
                      /\ \A e \in Executants : Serving(e, c) =>
                           \/ epc[e] \in {"top", "readreq"}
                           \/ epc[e] = "send" /\ left[e] = 0
    BY DEF PromptInSync
  <2>1. Conversing(c)
    BY QuietFacts
  <2> QED
    BY <2>1 DEF Conversing, Idle, Done, Serving
<1> QED
  BY <1>1, QuietInit, QuietStep, PTL DEF Spec

(* On a quiet connection every block that client2server stores is the one  *)
(* of the file and of the place it is stored at, with any number of        *)
(* clients and of requests on each connection, and whatever is torn on the *)
(* others.                                                                 *)
THEOREM BlocksAreFiled == Spec => []NothingMisfiled
<1>1. QuietInv => NothingMisfiled
  BY DEF QuietInv, NothingMisfiled
<1> QED
  BY <1>1, QuietInit, QuietStep, PTL DEF Spec

(* An executant ends on a connection whose client was interrupted, on      *)
(* which one of the ends found a .log or a directory was asked for, or in  *)
(* accept(): never for what happens on another connection, and a client    *)
(* that leaves with bye gives its executant back.                          *)
THEOREM PoolIsLostAbruptly == Spec => []PoolLostToAbruptEnds
<1>1. QuietInv => PoolLostToAbruptEnds
  <2> SUFFICES ASSUME QuietInv, NEW e \in Executants, epc[e] = "dead",
                      on[e] \notin rough, on[e] # NoOne
               PROVE  FALSE
    BY DEF PoolLostToAbruptEnds
  <2>1. on[e] \in Quiet
    BY DEF QuietInv, ConnInv, TypeInv, TypeOK, Quiet
  <2>2. Undisturbed(on[e])
    BY <2>1, QuietFacts
  <2> QED
    BY <2>2 DEF Undisturbed
<1> QED
  BY <1>1, QuietInit, QuietStep, PTL DEF Spec

(* A client that waits for a file that is being sent, and whose executant  *)
(* has sent all of it, has something to read.                              *)
LEMMA AnswerIsThere ==
  ASSUME NEW c \in Clients, NEW e \in Executants, on[e] = c, epc[e] = "readreq",
         Streamed(c)
  PROVE  ~ Starved(c)
<1>1. PICK f \in Files : f = creq[c].file
  BY DEF Streamed
<1>2. PICK n \in Nat : n = Blocks[f]
  BY FTPAssumption
<1>3. PICK k \in 0 .. n : Underway(c, k) /\ HasSent(e, c, k)
  BY <1>1, <1>2 DEF Streamed
<1>4. k = n
  BY <1>1, <1>2, <1>3 DEF HasSent
<1>5. PICK t : t = Run(f, 0, n)
  OBVIOUS
<1>6. t \in Seq(Units)
  BY <1>5, RunIsUnits
<1>7. PICK a : a = Response("SENDING", n)
  OBVIOUS
<1>8. a \in Units /\ <<a>> \o t \in Seq(Units)
  <2>1. a \in Units
    BY <1>7 DEF Units
  <2> QED
    BY <1>6, <2>1, FirstOf
<1>9. CASE cpc[c] = "response" /\ down[c] = <<Response("FOUND", 0)>> \o (<<a>> \o t)
  <2>1. PICK s : s = <<a>> \o t
    OBVIOUS
  <2>2. EightBytes(<<Response("FOUND", 0)>> \o s)
          = {[status |-> "FOUND", filesize |-> 0, unread |-> s]}
    BY <1>8, <2>1, ReadsResponse
  <2>3. EightBytes(down[c]) # {}
    BY <1>9, <2>1, <2>2
  <2> QED
    BY <1>9, <2>3 DEF Starved
<1>10. CASE cpc[c] = "size" /\ down[c] = <<a>> \o t
  <2>1. EightBytes(<<Response("SENDING", n)>> \o t)
          = {[status |-> "SENDING", filesize |-> n, unread |-> t]}
    BY <1>6, ReadsResponse
  <2>2. EightBytes(down[c]) # {}
    BY <1>7, <1>10, <2>1
  <2> QED
    BY <1>10, <2>2 DEF Starved
<1>11. CASE /\ cpc[c] \in {"head", "block"} /\ paquets[c] \in 0 .. n
            /\ rest[c] = n - paquets[c] /\ down[c] = Run(f, paquets[c], n)
  <2>1. PICK p \in Nat : p = paquets[c] /\ p <= n
    BY <1>11
  <2>2. Run(f, p, n) = << >> <=> p = n
    BY <2>1, RunShrinks
  <2>3. down[c] = << >> => rest[c] = 0
    BY <1>11, <2>1, <2>2
  <2> QED
    BY <1>11, <2>3 DEF Starved
<1>12. \/ cpc[c] = "response" /\ down[c] = <<Response("FOUND", 0)>> \o (<<a>> \o t)
       \/ cpc[c] = "size" /\ down[c] = <<a>> \o t
       \/ /\ cpc[c] \in {"head", "block"} /\ paquets[c] \in 0 .. n
          /\ rest[c] = n - paquets[c] /\ down[c] = Run(f, paquets[c], n)
  <2>1. Underway(c, n) /\ creq[c].file = f /\ Blocks[f] = n
    BY <1>1, <1>2, <1>3, <1>4
  <2> QED
    BY <1>5, <1>7, <2>1 DEF Underway
<1> QED
  BY <1>9, <1>10, <1>11, <1>12

(* On a quiet connection a client and its executant never wait for each    *)
(* other (both in Rio_readn) but after a put, an ls or a get of a file     *)
(* that is not there.                                                      *)
THEOREM UnansweredBlock == Spec => []OnlyUnansweredBlock
<1>1. QuietInv => OnlyUnansweredBlock
  <2> SUFFICES ASSUME QuietInv, NEW c \in Quiet, MutualWait(c)
               PROVE  creq[c].cmd \in {"put", "ls"} \/ creq[c].file \notin Files
    BY DEF OnlyUnansweredBlock
  <2>1. PICK e \in Executants : on[e] = c /\ epc[e] = "readreq"
    BY DEF MutualWait, Waiting
  <2>2. Starved(c) /\ up[c] = << >> /\ cpc[c] \in {"response", "size", "block"}
    BY DEF MutualWait, Starved
  <2>3. ~ Streamed(c)
    BY <2>1, <2>2, AnswerIsThere DEF Quiet
  <2>4. Unanswered(c)
    <3>1. ~ Asked(c)
      BY <2>2 DEF Asked
    <3>2. Conversing(c)
      BY QuietFacts
    <3> QED
      BY <2>2, <2>3, <3>1, <3>2 DEF Conversing
  <2> QED
    BY <2>4 DEF Unanswered
<1> QED
  BY <1>1, QuietInit, QuietStep, PTL DEF Spec

-----------------------------------------------------------------------------
(* The calm: every connection is quiet, and nobody makes a .log.           *)

CalmInv == QuietInv /\ rough = {} /\ dotlog = Absent

LEMMA CalmFacts ==
  ASSUME CalmInv
  PROVE  /\ ClientTypes /\ ExecTypes /\ NetTypes /\ Attending /\ Queued
         /\ QuietInv /\ Quiet = Clients /\ ~ existslog
<1>1. TypeInv /\ Attending /\ Queued
  BY DEF CalmInv, QuietInv, ConnInv
<1> QED
  BY <1>1, TypeParts DEF CalmInv, Quiet, existslog, Absent

LEMMA CalmInit == Init => CalmInv
BY QuietInit DEF CalmInv, Init

LEMMA CalmStep == CalmInv /\ [CalmNext]_vars => CalmInv'
<1> SUFFICES ASSUME CalmInv, [CalmNext]_vars
             PROVE  CalmInv'
  OBVIOUS
<1>1. QuietInv'
  BY QuietStep DEF CalmInv, Next
<1>2. ~ existslog /\ Quiet = Clients
  BY CalmFacts
<1>3. SUFFICES rough' = rough /\ (dotlog' = dotlog \/ dotlog' = Absent)
  BY <1>1 DEF CalmInv
<1>4. ASSUME NEW c \in Clients, ClientStep(c)
      PROVE  rough' = rough /\ (dotlog' = dotlog \/ dotlog' = Absent)
  <2>1. ~ SaveLog(c)
    BY <1>2, CalmFacts, QuietFacts DEF Undisturbed, SaveLog
  <2>2. CASE ClientTurn(c) \/ ClientBlock(c) \/ ClientStrayWord(c) \/ ClientRemoveLog(c)
    BY <1>2, <2>2 DEF ClientTurn, ClientBlock, ClientStrayWord, ClientRemoveLog, RemoveLog,
                      LooksForLog, logvars, history
  <2>3. CASE ClientReadLog(c) \/ ReadResponse(c) \/ ReadSize(c) \/ OpenExits(c)
             \/ ResponseFails(c)
    BY <2>3 DEF ClientReadLog, ReadResponse, ReadSize, OpenExits, ResponseFails,
                logvars, history
  <2>4. CASE ClientHead(c) \/ ClientBlockEnds(c) \/ ClientReadFails(c) \/ CloseSocket(c)
    BY <2>4 DEF ClientHead, ClientBlockEnds, ClientReadFails, CloseSocket, logvars, history
  <2> QED
    BY <1>4, <2>1, <2>2, <2>3, <2>4 DEF ClientStep
<1>5. ASSUME NEW c \in Clients, UserStep(c)
      PROVE  rough' = rough /\ (dotlog' = dotlog \/ dotlog' = Absent)
  BY <1>5 DEF UserStep, Launch, TypeIgnored, TypeRequest, TypeBye, logvars, history
<1>6. ASSUME NEW e \in Executants, ExecStep(e)
      PROVE  rough' = rough /\ (dotlog' = dotlog \/ dotlog' = Absent)
  <2>1. CASE ServeRequest(e)
    <3>1. UNCHANGED logvars /\ UNCHANGED history
      BY <2>1, Zenon DEF ServeRequest
    <3> QED
      BY <3>1 DEF logvars, history
  <2>2. CASE ExecTurn(e) \/ ExecRemoveLog(e)
    BY <1>2, <2>2 DEF ExecTurn, ExecRemoveLog, RemoveLog, LooksForLog, logvars, history
  <2>3. CASE AcceptClient(e) \/ ExecReadLog(e) \/ ReadBye(e) \/ ReadEnd(e)
             \/ SendBlock(e) \/ SendFails(e) \/ SendEnds(e)
    BY <2>3 DEF AcceptClient, ExecReadLog, ReadBye, ReadEnd, SendBlock, SendFails, SendEnds,
                logvars, history
  <2> QED
    BY <1>6, <2>1, <2>2, <2>3 DEF ExecStep
<1>7. CASE UNCHANGED vars
  BY <1>7 DEF vars, logvars, history
<1> QED
  BY <1>4, <1>5, <1>6, <1>7 DEF CalmNext

-----------------------------------------------------------------------------
(* The refinement of FileService.                                          *)

Has(c) == IF cpc[c] \in {"response", "size"} THEN 0 ELSE paquets[c]

Places == [c \in Clients |-> Place(c)]

Stored == [c \in Clients |-> Has(c)]

(* How a step of client c is seen.                                         *)
LEMMA SeenOfClient ==
  ASSUME NEW c \in Clients,
         \A d \in Clients \ {c} : cpc'[d] = cpc[d] /\ paquets'[d] = paquets[d]
  PROVE  /\ Places' = [Places EXCEPT ![c] = Place(c)']
         /\ Stored' = [Stored EXCEPT ![c] = Has(c)']
<1>1. \A d \in Clients \ {c} : Place(d)' = Place(d) /\ Has(d)' = Has(d)
  BY DEF Place, Has
<1>2. \A d \in Clients : Places'[d] = [Places EXCEPT ![c] = Place(c)'][d]
  BY <1>1 DEF Places
<1>3. \A d \in Clients : Stored'[d] = [Stored EXCEPT ![c] = Has(c)'][d]
  BY <1>1 DEF Stored
<1> QED
  BY <1>2, <1>3 DEF Places, Stored

LEMMA SeenOfNobody ==
  ASSUME \A d \in Clients : Place(d)' = Place(d) /\ Has(d)' = Has(d)
  PROVE  Places' = Places /\ Stored' = Stored
  BY DEF Places, Stored

LEMMA WhereItIs ==
  ASSUME NEW c \in Clients
  PROVE  /\ cpc[c] = "off" => Place(c) = "away"
         /\ cpc[c] \in {"top", "prompt"} => Place(c) = "prompt"
         /\ cpc[c] = "bye" => Place(c) = "gone"
         /\ cpc[c] \in {"response", "size", "head", "block"} => Place(c) = "waits"
         /\ cpc[c] \in {"response", "size"} => Has(c) = 0
         /\ cpc[c] \notin {"response", "size"} => Has(c) = paquets[c]
  BY DEF Place, Has, ClientGone

(* What users do.                                                          *)
LEMMA UserIsServed ==
  ASSUME CalmInv, NEW c \in Clients, UserStep(c)
  PROVE  Service!Next
<1>1. ClientTypes /\ Undisturbed(c) /\ Quiet = Clients
  BY CalmFacts, QuietFacts
<1>2. \A d \in Clients \ {c} : cpc'[d] = cpc[d] /\ paquets'[d] = paquets[d]
  <2>1. TypeRequest(c) => \E r \in Commands : Sends(c, r)
    BY DEF TypeRequest, Typed
  <2> QED
    BY <1>1, <2>1 DEF UserStep, Launch, TypeIgnored, TypeBye, Sends, ClientExits, Goes,
                      ClientTypes
<1>3. /\ Places' = [Places EXCEPT ![c] = Place(c)']
      /\ Stored' = [Stored EXCEPT ![c] = Has(c)']
      /\ Places[c] = Place(c) /\ Stored[c] = Has(c)
  BY <1>2, SeenOfClient DEF Places, Stored
<1>4. paquets' = paquets /\ on' = on
  BY DEF UserStep, Launch, TypeIgnored, TypeRequest, TypeBye, Sends, ClientExits, execvars
<1>5. cpc[c] \notin {"response", "size"} => Has(c) = paquets[c]
  BY WhereItIs
<1>6. /\ cpc'[c] \in {"top", "prompt"} => Place(c)' = "prompt" /\ Has(c)' = paquets'[c]
      /\ cpc'[c] = "response" => Place(c)' = "waits" /\ Has(c)' = 0
      /\ cpc'[c] = "bye" => Place(c)' = "gone" /\ Has(c)' = paquets'[c]
  BY DEF Place, Has, ClientGone
<1>7. ASSUME Has(c)' = Has(c)
      PROVE  Stored' = Stored
  BY <1>3, <1>7 DEF Stored
<1>8. CASE Launch(c)
  <2>1. cpc[c] = "off" /\ cpc'[c] = "top" /\ creq' = creq /\ backlog' = Append(backlog, c)
    BY <1>1, <1>8 DEF Launch, Goes, ClientTypes
  <2>2. Place(c) = "away" /\ Place(c)' = "prompt" /\ Has(c)' = Has(c)
    BY <1>4, <1>5, <1>6, <2>1, WhereItIs
  <2>3. Stored' = Stored
    BY <1>7, <2>2
  <2>4. Service!Arrive(c)
    BY <1>3, <1>4, <2>1, <2>2, <2>3 DEF Service!Arrive, Service!Goes, Places, Stored, Has
  <2> QED
    BY <2>4 DEF Service!Next
<1>9. CASE TypeIgnored(c)
  <2>1. /\ cpc[c] = "prompt" /\ cpc'[c] = "top" /\ backlog' = backlog
        /\ \E r \in Commands :
             r.cmd \in {"unknown", "nameless"} /\ creq' = [creq EXCEPT ![c] = r]
    BY <1>1, <1>9 DEF TypeIgnored, Typed, Goes, ClientTypes, netvars
  <2>2. Place(c) = "prompt" /\ Place(c)' = "prompt" /\ Has(c)' = Has(c)
    BY <1>4, <1>5, <1>6, <2>1, WhereItIs
  <2>3. Stored' = Stored /\ Places' = Places
    BY <1>3, <1>7, <2>2 DEF Places
  <2>4. Service!Mistype(c)
    BY <1>3, <1>4, <2>1, <2>2, <2>3 DEF Service!Mistype, Service!Types, Places, Stored, Has
  <2> QED
    BY <2>4 DEF Service!Next
<1>10. CASE TypeRequest(c)
  <2>1. conn[c] # "closed"
    BY <1>1, <1>10 DEF TypeRequest, MayType, Undisturbed
  <2>2. /\ cpc[c] = "prompt" /\ cpc'[c] = "response" /\ backlog' = backlog
        /\ \E r \in Commands :
             r.cmd \in {"get", "put", "ls"} /\ creq' = [creq EXCEPT ![c] = r]
    BY <1>1, <1>10, <2>1 DEF TypeRequest, MayType, Sends, Typed, Goes, ClientTypes
  <2>3. Place(c) = "prompt" /\ Place(c)' = "waits" /\ Has(c)' = 0
    BY <1>6, <2>2, WhereItIs
  <2>4. Service!Ask(c)
    BY <1>3, <1>4, <2>2, <2>3
    DEF Service!Ask, Service!Types, Service!Goes, Places, Stored, Has
  <2> QED
    BY <2>4 DEF Service!Next
<1>11. CASE TypeBye(c)
  <2>1. /\ cpc[c] = "prompt" /\ cpc'[c] = "bye" /\ backlog' = backlog
        /\ \E r \in Commands : r.cmd \in {"bye"} /\ creq' = [creq EXCEPT ![c] = r]
    BY <1>1, <1>11 DEF TypeBye, Typed, Goes, ClientCloses, ClientTypes
  <2>2. Place(c) = "prompt" /\ Place(c)' = "gone" /\ Has(c)' = Has(c)
    BY <1>4, <1>5, <1>6, <2>1, WhereItIs
  <2>3. Stored' = Stored
    BY <1>7, <2>2
  <2>4. Service!Leave(c)
    BY <1>3, <1>4, <2>1, <2>2, <2>3
    DEF Service!Leave, Service!Types, Service!Goes, Places, Stored, Has
  <2> QED
    BY <2>4 DEF Service!Next
<1> QED
  BY <1>8, <1>9, <1>10, <1>11 DEF UserStep

(* What a client does by itself: a block stored, the end of the file, or   *)
(* nothing a user sees.                                                    *)
LEMMA ClientIsServed ==
  ASSUME CalmInv, CalmInv', NEW c \in Clients, ClientStep(c)
  PROVE  [Service!Next]_Service!vars
<1>1. /\ ClientTypes /\ NetTypes /\ Undisturbed(c) /\ Conversing(c)
      /\ QuietInv /\ Quiet = Clients /\ ~ existslog
  BY CalmFacts, QuietFacts
<1>2. ~ (ClientReadLog(c) \/ ClientRemoveLog(c) \/ SaveLog(c) \/ CloseSocket(c)
         \/ OpenExits(c) \/ ResponseFails(c) \/ ClientReadFails(c))
  <2>1. cpc[c] \notin {"readlog", "rmlog", "saving", "closing"}
    BY <1>1 DEF Undisturbed
  <2>2. ~ (ResponseFails(c) \/ ClientReadFails(c))
    BY <1>1, BlockIsQuiet DEF ResponseFails, Undisturbed
  <2>3. ~ OpenExits(c)
    <3> SUFFICES ASSUME OpenExits(c)
                 PROVE  FALSE
      OBVIOUS
    <3>1. cpc'[c] \in {"size", "head"}
      BY <1>1, ResponseIsQuiet
    <3> QED
      BY <1>1, <3>1 DEF OpenExits, ClientExits, Goes, ClientTypes
  <2> QED
    BY <2>1, <2>2, <2>3 DEF ClientReadLog, ClientRemoveLog, SaveLog, CloseSocket
<1>3. CASE ClientTurn(c) \/ ReadResponse(c) \/ ReadSize(c) \/ ClientHead(c)
           \/ ClientStrayWord(c)
  <2>1. on' = on /\ creq' = creq /\ backlog' = backlog
    BY <1>3 DEF ClientTurn, ReadResponse, ReadSize, ClientHead, ClientStrayWord,
                clientvars, execvars, netvars
  <2>2. \A d \in Clients \ {c} : cpc'[d] = cpc[d] /\ paquets'[d] = paquets[d]
    BY <1>1, <1>3 DEF ClientTurn, ReadResponse, ReadSize, ClientHead, ClientStrayWord,
                      Goes, ClientTypes, clientvars
  <2>3. Place(c)' = Place(c) /\ Has(c)' = Has(c)
    <3>1. CASE ClientTurn(c)
      <4>1. cpc[c] = "top" /\ cpc'[c] = "prompt" /\ paquets' = paquets
        BY <1>1, <3>1 DEF ClientTurn, Goes, ClientTypes
      <4> QED
        BY <4>1 DEF Place, Has
    <3>2. CASE ReadResponse(c) \/ ReadSize(c)
      <4>1. cpc[c] \in {"response", "size"}
            /\ (cpc'[c] = "size" \/ (cpc'[c] = "head" /\ paquets'[c] = 0))
        BY <1>1, <3>2, ResponseIsQuiet DEF ReadResponse, ReadSize
      <4> QED
        BY <4>1 DEF Place, Has, ClientGone
    <3>3. CASE ClientHead(c) \/ ClientStrayWord(c)
      <4>1. cpc[c] \in {"head", "block"} /\ cpc'[c] \in {"head", "block"} /\ paquets' = paquets
        BY <1>1, <3>3 DEF ClientHead, ClientStrayWord, Goes, ClientTypes, clientvars
      <4> QED
        BY <4>1 DEF Place, Has, ClientGone
    <3> QED
      BY <1>3, <3>1, <3>2, <3>3
  <2>4. \A d \in Clients : Place(d)' = Place(d) /\ Has(d)' = Has(d)
    <3>1. \A d \in Clients \ {c} : Place(d)' = Place(d) /\ Has(d)' = Has(d)
      BY <2>2 DEF Place, Has
    <3> QED
      BY <2>3, <3>1
  <2>5. Places' = Places /\ Stored' = Stored
    BY <2>4, SeenOfNobody
  <2> QED
    BY <2>1, <2>5 DEF Service!vars, Places, Stored, Has
<1>4. CASE ClientBlock(c) \/ ClientBlockEnds(c)
  <2>1. cpc[c] = "block" /\ Streamed(c) /\ ~ resuming[c] /\ ~ reset[c] /\ conn[c] = "open"
    BY <1>1, <1>4, Copying DEF ClientBlock, ClientBlockEnds
  <2>2. PICK f \in Files, n \in Nat, k \in Nat, e \in Executants :
          /\ f = creq[c].file /\ n = Blocks[f] /\ k <= n /\ on[e] = c
          /\ paquets[c] \in Nat /\ paquets[c] <= k /\ rest[c] = n - paquets[c]
    BY <1>1, <2>1, Copying
  <2>3. creq[c].cmd = "get" /\ on' = on /\ creq' = creq /\ backlog' = backlog
    BY <1>4, <2>1 DEF Streamed, ClientBlock, ClientBlockEnds, Returned, execvars, netvars
  <2>4. Place(c) = "waits" /\ Has(c) = paquets[c]
    BY <2>1, WhereItIs
  <2>5. \A d \in Clients \ {c} : cpc'[d] = cpc[d] /\ paquets'[d] = paquets[d]
    BY <1>1, <1>4, <2>1 DEF ClientBlock, ClientBlockEnds, Returned, Goes, ClientTypes
  <2>6. /\ Places' = [Places EXCEPT ![c] = Place(c)']
        /\ Stored' = [Stored EXCEPT ![c] = Has(c)']
        /\ Places[c] = Place(c) /\ Stored[c] = Has(c)
    BY <2>5, SeenOfClient DEF Places, Stored
  <2>7. Service!Answered(c)
    BY <2>2, <2>3, <2>4, <2>6 DEF Service!Answered, Places, Files
  <2>8. CASE ClientBlock(c)
    <3>1. /\ paquets'[c] = paquets[c] + 1 /\ rest[c] > 0
          /\ cpc'[c] = "head" \/ (rest[c] = 1 /\ cpc'[c] = "top")
      BY <1>1, <2>1, <2>8 DEF ClientBlock, Returned, Goes, ClientTypes
    <3>2. paquets[c] < n /\ (rest[c] = 1 => paquets[c] + 1 = n)
      BY <2>2, <3>1
    <3>3. Stored'[c] = Stored[c] + 1 /\ Stored' = [Stored EXCEPT ![c] = Stored[c] + 1]
      <4>1. Has(c)' = Has(c) + 1
        BY <2>4, <3>1 DEF Has
      <4> QED
        BY <2>6, <4>1 DEF Stored
    <3>4. Places' = Places \/ (Stored'[c] = n /\ Places' = [Places EXCEPT ![c] = "prompt"])
      <4>1. CASE cpc'[c] = "head"
        <5>1. Place(c)' = Place(c)
          BY <2>4, <4>1 DEF Place, ClientGone
        <5> QED
          BY <2>6, <5>1 DEF Places
      <4>2. CASE rest[c] = 1 /\ cpc'[c] = "top"
        <5>1. Place(c)' = "prompt"
          BY <4>2 DEF Place, ClientGone
        <5> QED
          BY <2>4, <2>6, <3>2, <3>3, <4>2, <5>1
      <4> QED
        BY <3>1, <4>1, <4>2
    <3>5. Service!Store(c)
      BY <2>2, <2>3, <2>4, <2>6, <2>7, <3>2, <3>3, <3>4
      DEF Service!Store, Service!Goes, Places, Stored, Has
    <3> QED
      BY <3>5 DEF Service!Next
  <2>9. CASE ClientBlockEnds(c)
    <3>1. rest[c] = 0 /\ cpc'[c] = "top" /\ paquets' = paquets
      BY <1>1, <2>1, <2>9 DEF ClientBlockEnds, Returned, Goes, ClientTypes
    <3>2. paquets[c] = n
      BY <2>2, <3>1
    <3>3. Place(c)' = "prompt" /\ Has(c)' = Has(c)
      BY <2>4, <3>1 DEF Place, Has, ClientGone
    <3>4. Stored' = Stored
      BY <2>6, <3>3 DEF Stored
    <3>5. Service!Finish(c)
      BY <2>2, <2>3, <2>4, <2>6, <2>7, <3>2, <3>3, <3>4
      DEF Service!Finish, Service!Goes, Places, Stored, Has
    <3> QED
      BY <3>5 DEF Service!Next
  <2> QED
    BY <1>4, <2>8, <2>9
<1> QED
  BY <1>2, <1>3, <1>4 DEF ClientStep

(* What an executant does is not seen, but that it takes the next client   *)
(* and lets one that has left go.                                          *)
LEMMA ExecIsServed ==
  ASSUME CalmInv, NEW e \in Executants, ExecStep(e)
  PROVE  [Service!Next]_Service!vars
<1>1. cpc' = cpc /\ creq' = creq /\ paquets' = paquets
  BY ExecLeavesClients DEF clientvars
<1>2. Places' = Places /\ Stored' = Stored
  <2>1. \A d \in Clients : Place(d)' = Place(d) /\ Has(d)' = Has(d)
    BY <1>1 DEF Place, Has
  <2> QED
    BY <2>1, SeenOfNobody
<1>3. CASE AcceptClient(e)
  <2>1. Attending
    BY CalmFacts
  <2>2. /\ on[e] = NoOne /\ backlog # << >>
        /\ on' = [on EXCEPT ![e] = Head(backlog)] /\ backlog' = Tail(backlog)
    BY <1>3, <2>1 DEF AcceptClient, Attending
  <2>3. Service!Attend(e)
    BY <1>1, <1>2, <2>2 DEF Service!Attend, Places, Stored, Has
  <2> QED
    BY <2>3 DEF Service!Next
<1>4. CASE ReadBye(e)
  <2>1. /\ ExecTypes /\ Attending /\ QuietInv /\ Quiet = Clients
        /\ epc[e] \notin {"accept", "dead"}
    BY <1>4, CalmFacts DEF ReadBye, Waiting
  <2>2. on[e] \in Clients
    BY <2>1 DEF Attending, ExecTypes
  <2>3. PICK c \in Clients : c = on[e]
    BY <2>2
  <2>4. cpc[c] = "bye"
    BY <1>4, <2>1, <2>3, ReadByeIsQuiet
  <2>5. Places[c] = "gone"
    BY <2>4, WhereItIs DEF Places
  <2>6. on' = [on EXCEPT ![e] = NoOne] /\ backlog' = backlog
    BY <1>4 DEF ReadBye
  <2>7. Service!Free(e)
    BY <1>1, <1>2, <2>3, <2>5, <2>6 DEF Service!Free, Places, Stored, Has
  <2> QED
    BY <2>7 DEF Service!Next
<1>5. CASE ~ (AcceptClient(e) \/ ReadBye(e))
  <2>1. on' = on /\ backlog' = backlog
    <3>1. Dies(e) => on' = on /\ backlog' = backlog
      BY DEF Dies, ServerCloses
    <3>2. ExecTurn(e) \/ SendEnds(e) \/ ExecRemoveLog(e) => on' = on /\ backlog' = backlog
      BY DEF ExecTurn, SendEnds, ExecRemoveLog, netvars
    <3>3. ExecReadLog(e) \/ ReadEnd(e) => on' = on /\ backlog' = backlog
      BY <3>1 DEF ExecReadLog, ReadEnd, netvars
    <3>4. ServeRequest(e) => on' = on /\ backlog' = backlog
      BY <3>1, Zenon DEF ServeRequest, DiesWriting
    <3>5. SendBlock(e) \/ SendFails(e) => on' = on /\ backlog' = backlog
      BY <3>1 DEF SendBlock, SendFails, DiesWriting, Writes
    <3> QED
      BY <1>5, <3>2, <3>3, <3>4, <3>5 DEF ExecStep
  <2> QED
    BY <1>1, <1>2, <2>1 DEF Service!vars, Places, Stored, Has
<1> QED
  BY <1>3, <1>4, <1>5

(* In the calm, clients and executants together are FileService: a         *)
(* client that prompts after a get has stored every block of the file,     *)
(* clients are accepted in the order they came, and an executant lets its  *)
(* client go only when it has left.                                        *)
THEOREM ServiceAsPromised == CalmSpec => ImplementsService
<1>1. Init => Service!Init
  <2> SUFFICES ASSUME Init
               PROVE  Service!Init
    OBVIOUS
  <2>1. \A c \in Clients : cpc[c] = "off" /\ paquets[c] = 0
    BY DEF Init
  <2>2. Places = [c \in Clients |-> "away"] /\ Stored = [c \in Clients |-> 0]
    BY <2>1, WhereItIs DEF Places, Stored
  <2> QED
    BY <2>2 DEF Init, Service!Init, Places, Stored, Has
<1>2. ASSUME CalmInv, CalmInv', [CalmNext]_vars
      PROVE  [Service!Next]_Service!vars
  <2>1. CASE UNCHANGED vars
    <3>1. UNCHANGED <<cpc, creq, paquets, backlog, on>>
      BY <2>1 DEF vars, clientvars, execvars, netvars
    <3>2. Places' = Places /\ Stored' = Stored
      <4>1. \A d \in Clients : Place(d)' = Place(d) /\ Has(d)' = Has(d)
        BY <3>1 DEF Place, Has
      <4> QED
        BY <4>1, SeenOfNobody
    <3> QED
      BY <3>1, <3>2 DEF Service!vars, Places, Stored, Has
  <2> QED
    BY <1>2, <2>1, UserIsServed, ClientIsServed, ExecIsServed DEF CalmNext
<1> QED
  BY <1>1, <1>2, CalmInit, CalmStep, PTL DEF CalmSpec, ImplementsService, Service!Spec

(* What FileService says of its own states, seen in the conversation.      *)
Whole ==
  \A c \in Clients :
    /\ Places[c] = "away" => creq[c].cmd = "none"
    /\ Places[c] = "prompt" /\ creq[c].cmd = "get" /\ creq[c].file \in Files
         => Stored[c] = Blocks[creq[c].file]

LEMMA WholeStep ==
  ASSUME CalmInv, Whole, [Service!Next]_Service!vars
  PROVE  Whole'
<1>1. /\ creq \in [Clients -> Requests]
      /\ Places = [d \in Clients |-> Places[d]] /\ Stored = [d \in Clients |-> Stored[d]]
  BY CalmFacts DEF ClientTypes, Places, Stored
<1>2. CASE UNCHANGED Service!vars
  <2>1. Places' = Places /\ Stored' = Stored /\ creq' = creq
    BY <1>2 DEF Service!vars, Places, Stored, Has
  <2> QED
    BY <2>1 DEF Whole
<1>3. CASE \E e \in Executants : Service!Attend(e) \/ Service!Free(e)
  <2>1. Places' = Places /\ Stored' = Stored /\ creq' = creq
    BY <1>3 DEF Service!Attend, Service!Free, Places, Stored, Has
  <2> QED
    BY <2>1 DEF Whole
<1>4. ASSUME NEW c \in Clients,
             \/ Service!Arrive(c) \/ Service!Ask(c) \/ Service!Mistype(c)
             \/ Service!Store(c) \/ Service!Finish(c) \/ Service!Leave(c)
      PROVE  Whole'
  <2>1. CASE Service!Arrive(c)
    <3>1. /\ Places[c] = "away" /\ Places' = [Places EXCEPT ![c] = "prompt"]
          /\ creq' = creq /\ Stored' = Stored
      BY <2>1 DEF Service!Arrive, Service!Goes, Places, Stored, Has
    <3> QED
      BY <1>1, <3>1 DEF Whole
  <2>2. CASE Service!Ask(c)
    <3>1. /\ Places' = [Places EXCEPT ![c] = "waits"]
          /\ Stored' = [Stored EXCEPT ![c] = 0]
          /\ \E r \in Commands : creq' = [creq EXCEPT ![c] = r]
      BY <2>2 DEF Service!Ask, Service!Goes, Service!Types, Places, Stored, Has
    <3> QED
      BY <1>1, <3>1 DEF Whole
  <2>3. CASE Service!Mistype(c)
    <3>1. /\ Places[c] = "prompt" /\ Places' = Places /\ Stored' = Stored
          /\ \E r \in Commands : r.cmd \in {"unknown", "nameless"}
                                 /\ creq' = [creq EXCEPT ![c] = r]
      BY <2>3 DEF Service!Mistype, Service!Types, Places, Stored, Has
    <3> QED
      BY <1>1, <3>1 DEF Whole
  <2>4. CASE Service!Store(c)
    <3>1. /\ Places[c] = "waits" /\ creq' = creq
          /\ Stored' = [Stored EXCEPT ![c] = Stored[c] + 1]
          /\ \/ Places' = Places
             \/ Stored'[c] = Blocks[creq[c].file]
                /\ Places' = [Places EXCEPT ![c] = "prompt"]
      BY <2>4 DEF Service!Store, Service!Answered, Service!Goes, Places, Stored, Has
    <3> QED
      BY <1>1, <3>1 DEF Whole
  <2>5. CASE Service!Finish(c)
    <3>1. /\ Places[c] = "waits" /\ creq' = creq /\ Stored' = Stored
          /\ Stored[c] = Blocks[creq[c].file]
          /\ Places' = [Places EXCEPT ![c] = "prompt"]
      BY <2>5 DEF Service!Finish, Service!Answered, Service!Goes, Places, Stored, Has
    <3> QED
      BY <1>1, <3>1 DEF Whole
  <2>6. CASE Service!Leave(c)
    <3>1. /\ Places' = [Places EXCEPT ![c] = "gone"] /\ Stored' = Stored
          /\ \E r \in Commands : creq' = [creq EXCEPT ![c] = r]
      BY <2>6 DEF Service!Leave, Service!Goes, Service!Types, Places, Stored, Has
    <3> QED
      BY <1>1, <3>1 DEF Whole
  <2> QED
    BY <1>4, <2>1, <2>2, <2>3, <2>4, <2>5, <2>6
<1> QED
  BY <1>2, <1>3, <1>4 DEF Service!Next

(* In the calm, a client that is back at its prompt after the get of a     *)
(* file that exists has stored all its blocks: traitement() sent them, and *)
(* client2server() returned after the last, not before.                    *)
THEOREM PromptAfterWholeFile == CalmSpec => []Service!PromptMeansWhole
<1>1. Init => Whole
  <2> SUFFICES ASSUME Init
               PROVE  Whole
    OBVIOUS
  <2>1. \A c \in Clients : cpc[c] = "off" /\ creq[c].cmd = "none"
    BY DEF Init
  <2> QED
    BY <2>1, WhereItIs DEF Whole, Places
<1>2. Whole => Service!PromptMeansWhole
  BY DEF Whole, Service!PromptMeansWhole, Places, Stored, Has, Files
<1> QED
  BY <1>1, <1>2, CalmInit, CalmStep, WholeStep, ServiceAsPromised, PTL
  DEF CalmSpec, ImplementsService, Service!Spec
=============================================================================
