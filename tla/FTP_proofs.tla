----------------------------- MODULE FTP_proofs -----------------------------
(***************************************************************************)
(* The types of a conversation, with ctrl-C at any moment and whatever it  *)
(* leaves in .log, for any number of clients, executants and files.        *)
(***************************************************************************)
EXTENDS FTP, SequenceTheorems, TLAPS

(* A block is a unit of a connection, and so are the two responses and the *)
(* word a client may be answered.                                          *)
Units ==
  {Block(f, k) : f \in Files, k \in Nat}
    \cup {Response(s, n) : s \in {"FOUND", "SENDING"}, n \in Int}
    \cup {Word(s) : s \in {"NOT_FOUND", "other"}}

Asks == {Request(r) : r \in Commands} \cup {ByeWord}

TypeInv ==
  /\ TypeOK
  /\ up \in [Clients -> Seq(Asks)]
  /\ down \in [Clients -> Seq(Units)]
  /\ \A e \in Executants :
       /\ epc[e] = "send" => sending[e].file \in Files \cup Directories
       /\ on[e] = NoOne => epc[e] \in {"accept", "dead"}

-----------------------------------------------------------------------------
(* No .log, an empty one and what is read of it.                           *)
LEMMA NoLogTypes == ZeroLog \in LogType /\ Absent \in [there : BOOLEAN, log : LogType]
                    /\ Emptied \in [there : BOOLEAN, log : LogType]
<1>1. NoFile \in Names /\ Unset \in Names
  BY DEF Names
<1>2. ZeroLog \in LogType /\ [ZeroLog EXCEPT !.file = Unset] \in LogType
  BY <1>1 DEF ZeroLog, LogType
<1> QED
  BY <1>2 DEF Absent, Emptied

(* Eight bytes are a status and a size, and leave units.                   *)
LEMMA EightBytesTypes ==
  ASSUME NEW d \in Seq(Units), NEW r \in EightBytes(d)
  PROVE  /\ r.status \in {"FOUND", "SENDING", "NOT_FOUND", "other"}
         /\ r.filesize \in Int
         /\ r.unread \in Seq(Units)
<1>1. d # << >>
  BY DEF EightBytes
<1>2. PICK u : u = Head(d)
  OBVIOUS
<1>3. u \in Units /\ Tail(d) \in Seq(Units)
  BY <1>1, <1>2, HeadTailProperties
<1>4. CASE \E s \in {"FOUND", "SENDING"}, n \in Int : u = Response(s, n)
  <2>1. PICK s \in {"FOUND", "SENDING"}, n \in Int : u = Response(s, n)
    BY <1>4
  <2>2. u.kind = "response" /\ u.status = s /\ u.filesize = n
    BY <2>1 DEF Response
  <2>3. r = [status |-> s, filesize |-> n, unread |-> Tail(d)]
    BY <1>1, <1>2, <2>2 DEF EightBytes
  <2> QED
    BY <1>3, <2>3
<1>5. CASE \E f \in Files, k \in Nat : u = Block(f, k)
  <2>1. u.kind = "data"
    BY <1>5 DEF Block
  <2>2. \E t \in {d, Tail(d)} : r = [status |-> "other", filesize |-> 0, unread |-> t]
    BY <1>1, <1>2, <2>1 DEF EightBytes
  <2> QED
    BY <1>3, <2>2
<1>6. CASE \E s \in {"NOT_FOUND", "other"} : u = Word(s)
  <2>1. PICK s \in {"NOT_FOUND", "other"} : u = Word(s)
    BY <1>6
  <2>2. u.kind = "word" /\ u.status = s
    BY <2>1 DEF Word
  <2>3. PICK after : after = SubSeq(d, 3, Len(d))
    OBVIOUS
  <2>4. /\ Len(d) # 1
        /\ \E t \in {Tail(d), after, <<Word("other")>> \o after} :
             r = [status |-> s, filesize |-> 0, unread |-> t]
    BY <1>1, <1>2, <2>2, <2>3 DEF EightBytes
  <2>5. after \in Seq(Units)
    <3>1. Len(d) \in Nat /\ \A j \in 3 .. Len(d) : d[j] \in Units
      BY LenProperties, ElementOfSeq
    <3> QED
      BY <2>3, <3>1, SubSeqProperties
  <2>6. <<Word("other")>> \in Seq(Units)
    BY DEF Units
  <2>7. <<Word("other")>> \o after \in Seq(Units)
    BY <2>5, <2>6, ConcatProperties
  <2>8. PICK t \in {Tail(d), after, <<Word("other")>> \o after} :
          r = [status |-> s, filesize |-> 0, unread |-> t]
    BY <2>4
  <2>9. t \in Seq(Units)
    BY <1>3, <2>5, <2>7, <2>8
  <2>10. r.status = s /\ r.filesize = 0 /\ r.unread = t
    BY <2>8
  <2> QED
    BY <2>1, <2>9, <2>10
<1> QED
  BY <1>3, <1>4, <1>5, <1>6 DEF Units

LEMMA TypeInit == Init => TypeInv
<1> SUFFICES ASSUME Init
             PROVE  TypeInv
  OBVIOUS
<1>1. <<>> \in Seq(Clients) /\ <<>> \in Seq(Units) /\ <<>> \in Seq(Asks)
  BY EmptySeq
<1>2. cpc \in [Clients -> ClientPC] /\ epc \in [Executants -> ExecPC]
  BY DEF Init, ClientPC, ExecPC
<1>3. /\ creq \in [Clients -> Requests]
      /\ sending \in [Executants -> [file : Files \cup Directories \cup {NoFile}, index : Nat]]
  BY DEF Init, Requests
<1>4. /\ log \in [Clients -> LogType] /\ global_log \in [Clients -> LogType]
      /\ dotlog \in [there : BOOLEAN, log : LogType]
  BY NoLogTypes DEF Init
<1>5. /\ status \in [Clients -> {"0", "FOUND", "SENDING", "NOT_FOUND", "other"}]
      /\ resuming \in [Clients -> BOOLEAN] /\ again \in [Executants -> BOOLEAN]
      /\ reset \in [Clients -> BOOLEAN]
      /\ conn \in [Clients -> {"none", "queued", "open", "closed"}]
      /\ misfiled \subseteq Clients /\ rough \subseteq Clients
  BY DEF Init
<1>6. /\ rest \in [Clients -> Int] /\ paquets \in [Clients -> Nat]
      /\ left \in [Executants -> Int] /\ on \in [Executants -> Clients \cup {NoOne}]
      /\ linked \subseteq Clients
  BY DEF Init
<1>7. /\ backlog \in Seq(Clients) /\ up \in [Clients -> Seq(Asks)]
      /\ down \in [Clients -> Seq(Units)]
  BY <1>1 DEF Init
<1>8. TypeOK
  BY <1>2, <1>3, <1>4, <1>5, <1>6, <1>7 DEF TypeOK
<1> QED
  BY <1>7, <1>8 DEF TypeInv, Init

Statuses == {"0", "FOUND", "SENDING", "NOT_FOUND", "other"}

(* Parts of the type invariant that most steps leave alone.                *)
LEMMA TypesStay ==
  ASSUME TypeInv, UNCHANGED vars
  PROVE  TypeInv'
BY DEF TypeInv, TypeOK, vars, clientvars, execvars, netvars, logvars, history

LEMMA ClosingTypes ==
  ASSUME TypeInv, NEW c \in Clients
  PROVE  /\ ClientCloses(c) => /\ reset' \in [Clients -> BOOLEAN]
                               /\ down' \in [Clients -> Seq(Units)]
                               /\ UNCHANGED <<backlog, conn>>
         /\ ClientExits(c) => /\ cpc' \in [Clients -> ClientPC]
                              /\ reset' \in [Clients -> BOOLEAN]
                              /\ down' \in [Clients -> Seq(Units)]
                              /\ UNCHANGED <<creq, status, rest, paquets, log, global_log,
                                             resuming, up, backlog, conn>>
<1>1. << >> \in Seq(Units) /\ "exited" \in ClientPC
  BY EmptySeq DEF ClientPC, ClientGone
<1>2. down \in [Clients -> Seq(Units)] /\ cpc \in [Clients -> ClientPC]
      /\ reset \in [Clients -> BOOLEAN]
  BY DEF TypeInv, TypeOK
<1>3. ClientCloses(c) => reset' \in [Clients -> BOOLEAN]
  <2> SUFFICES ASSUME ClientCloses(c)
               PROVE  reset' \in [Clients -> BOOLEAN]
    OBVIOUS
  <2>1. reset' = [reset EXCEPT ![c] = reset[c] \/ down[c] # << >>]
    BY DEF ClientCloses
  <2>2. (reset[c] \/ down[c] # << >>) \in BOOLEAN
    OBVIOUS
  <2> QED
    BY <1>2, <2>1, <2>2
<1>4. ClientCloses(c) => down' \in [Clients -> Seq(Units)] /\ UNCHANGED <<backlog, conn>>
  BY <1>1, <1>2 DEF ClientCloses
<1> QED
  BY <1>1, <1>2, <1>3, <1>4 DEF ClientExits, Goes

ClientTypes ==
  /\ cpc \in [Clients -> ClientPC] /\ creq \in [Clients -> Requests]
  /\ status \in [Clients -> Statuses] /\ rest \in [Clients -> Int]
  /\ paquets \in [Clients -> Nat] /\ log \in [Clients -> LogType]
  /\ global_log \in [Clients -> LogType] /\ resuming \in [Clients -> BOOLEAN]

ExecTypes ==
  /\ epc \in [Executants -> ExecPC] /\ on \in [Executants -> Clients \cup {NoOne}]
  /\ left \in [Executants -> Int]
  /\ sending \in [Executants -> [file : Files \cup Directories \cup {NoFile}, index : Nat]]
  /\ again \in [Executants -> BOOLEAN]
  /\ \A e \in Executants :
       /\ epc[e] = "send" => sending[e].file \in Files \cup Directories
       /\ on[e] = NoOne => epc[e] \in {"accept", "dead"}

NetTypes ==
  /\ backlog \in Seq(Clients) /\ conn \in [Clients -> {"none", "queued", "open", "closed"}]
  /\ reset \in [Clients -> BOOLEAN]
  /\ up \in [Clients -> Seq(Asks)] /\ down \in [Clients -> Seq(Units)]

LogTypes ==
  /\ dotlog \in [there : BOOLEAN, log : LogType] /\ linked \subseteq Clients
  /\ misfiled \subseteq Clients /\ rough \subseteq Clients

LEMMA TypeParts ==
  /\ TypeInv <=> ClientTypes /\ ExecTypes /\ NetTypes /\ LogTypes
  /\ TypeInv' <=> ClientTypes' /\ ExecTypes' /\ NetTypes' /\ LogTypes'
BY DEF TypeInv, TypeOK, Statuses, ClientTypes, ExecTypes, NetTypes, LogTypes

LEMMA PartsStay ==
  /\ ClientTypes /\ UNCHANGED clientvars => ClientTypes'
  /\ ExecTypes /\ UNCHANGED execvars => ExecTypes'
  /\ NetTypes /\ UNCHANGED <<netvars>> => NetTypes'
  /\ LogTypes /\ UNCHANGED <<logvars, history>> => LogTypes'
BY DEF ClientTypes, ExecTypes, NetTypes, LogTypes, clientvars, execvars, netvars, logvars,
       history

LEMMA RoughTypes ==
  ASSUME LogTypes, NEW c \in Clients, UNCHANGED logvars,
         LooksForLog(c) \/ Roughens(c)
  PROVE  LogTypes'
BY DEF LooksForLog, Roughens, LogTypes, logvars, history

LEMMA UserKeepsTypes ==
  ASSUME TypeInv, NEW c \in Clients, UserStep(c) \/ AskDirectory(c)
  PROVE  TypeInv'
<1>1. ClientTypes /\ ExecTypes /\ NetTypes /\ LogTypes
  BY TypeParts
<1>2. \A r \in Commands : r \in Requests /\ Request(r) \in Asks
  BY DEF Requests, Asks
<1>3. ByeWord \in Asks
  BY DEF Asks
<1>4. {"top", "response", "bye"} \subseteq ClientPC
  BY DEF ClientPC, ClientGone
<1>5. ExecTypes' /\ LogTypes'
  <2>1. UNCHANGED <<execvars, logvars>> /\ (UNCHANGED history \/ Roughens(c))
    BY DEF UserStep, Launch, TypeIgnored, TypeRequest, TypeBye, AskDirectory
  <2> QED
    BY <1>1, <2>1, PartsStay, RoughTypes
<1>6. ClientTypes'
  <2>1. CASE Launch(c)
    BY <1>1, <1>4, <2>1 DEF Launch, Goes, ClientTypes
  <2>2. CASE TypeIgnored(c)
    BY <1>1, <1>2, <1>4, <2>2 DEF TypeIgnored, Typed, Goes, ClientTypes
  <2>3. CASE TypeRequest(c) \/ AskDirectory(c)
    <3>1. PICK r \in Commands : Sends(c, r)
      BY <2>3 DEF TypeRequest, AskDirectory, Typed
    <3> QED
      BY <1>1, <1>2, <1>4, <3>1, ClosingTypes DEF Sends, ClientExits, Goes, ClientTypes
  <2>4. CASE TypeBye(c)
    BY <1>1, <1>2, <1>4, <2>4 DEF TypeBye, Typed, Goes, ClientTypes
  <2> QED
    BY <2>1, <2>2, <2>3, <2>4 DEF UserStep
<1>7. NetTypes'
  <2>1. CASE Launch(c)
    BY <1>1, <2>1, AppendProperties DEF Launch, NetTypes
  <2>2. CASE TypeIgnored(c)
    BY <1>1, <2>2, PartsStay DEF TypeIgnored
  <2>3. CASE TypeRequest(c) \/ AskDirectory(c)
    <3>0. PICK r \in Commands : Sends(c, r)
      BY <2>3 DEF TypeRequest, AskDirectory, Typed
    <3>1. CASE ClientExits(c)
      BY <1>1, <3>1, ClosingTypes DEF NetTypes
    <3>2. CASE UNCHANGED <<backlog, conn, down, reset>>
      <4>1. up' = up \/ up' = [up EXCEPT ![c] = Append(up[c], Request(r))]
        BY <3>0 DEF Sends, ClientExits
      <4>2. Append(up[c], Request(r)) \in Seq(Asks)
        BY <1>1, <1>2, AppendProperties DEF NetTypes
      <4> QED
        BY <1>1, <3>2, <4>1, <4>2 DEF NetTypes
    <3> QED
      BY <3>0, <3>1, <3>2 DEF Sends
  <2>4. CASE TypeBye(c)
    <3>1. Append(up[c], ByeWord) \in Seq(Asks)
      BY <1>1, <1>3, AppendProperties DEF NetTypes
    <3>2. up' \in [Clients -> Seq(Asks)]
      BY <1>1, <2>4, <3>1 DEF TypeBye, NetTypes
    <3> QED
      BY <1>1, <2>4, <3>2, ClosingTypes DEF TypeBye, NetTypes
  <2> QED
    BY <2>1, <2>2, <2>3, <2>4 DEF UserStep
<1> QED
  BY <1>5, <1>6, <1>7, TypeParts

LEMMA ReadsTypes ==
  ASSUME TypeInv, NEW c \in Clients, NEW r \in EightBytes(down[c])
  PROVE  /\ r.status \in Statuses /\ r.filesize \in Int /\ r.unread \in Seq(Units)
<1>1. down[c] \in Seq(Units)
  BY DEF TypeInv
<1> QED
  BY <1>1, EightBytesTypes DEF Statuses

LEMMA TailTypes ==
  ASSUME TypeInv, NEW c \in Clients, down[c] # << >>
  PROVE  Head(down[c]) \in Units /\ Tail(down[c]) \in Seq(Units)
<1>1. down[c] \in Seq(Units)
  BY DEF TypeInv
<1> QED
  BY <1>1, HeadTailProperties

(* A client that answers a response, or the end of the connection for one. *)
LEMMA ResponseKeepsTypes ==
  ASSUME TypeInv, NEW c \in Clients,
         ReadResponse(c) \/ ReadSize(c) \/ ResponseFails(c)
  PROVE  TypeInv'
<1>1. ClientTypes /\ ExecTypes /\ NetTypes /\ LogTypes
  BY TypeParts
<1>2. {"top", "size", "head", "exited"} \subseteq ClientPC
  BY DEF ClientPC, ClientGone
<1>3. ExecTypes' /\ LogTypes'
  <2>1. UNCHANGED <<execvars, logvars, history>>
    BY DEF ReadResponse, ReadSize, ResponseFails
  <2> QED
    BY <1>1, <2>1, PartsStay
<1>4. CASE ReadResponse(c)
  <2>1. PICK r \in EightBytes(down[c]) :
          /\ status' = [status EXCEPT ![c] = r.status]
          /\ down' = [down EXCEPT ![c] = r.unread]
          /\ Goes(c, IF r.status = "FOUND" THEN "size" ELSE "top")
    BY <1>4 DEF ReadResponse
  <2>2. r.status \in Statuses /\ r.unread \in Seq(Units)
    BY ReadsTypes
  <2>3. ClientTypes'
    BY <1>1, <1>2, <1>4, <2>1, <2>2 DEF ReadResponse, Goes, ClientTypes
  <2>4. NetTypes'
    BY <1>1, <1>4, <2>1, <2>2 DEF ReadResponse, NetTypes
  <2> QED
    BY <1>3, <2>3, <2>4, TypeParts
<1>5. CASE ReadSize(c)
  <2>1. PICK r \in EightBytes(down[c]) :
          /\ status' = [status EXCEPT ![c] = r.status]
          /\ down' = [down EXCEPT ![c] = r.unread]
          /\ rest' = [rest EXCEPT ![c] = r.filesize]
          /\ \E g \in Garbage :
               log' = [log EXCEPT ![c] =
                         [file |-> creq[c].file, size |-> r.filesize, at |-> g]]
          /\ Goes(c, IF r.status = "SENDING" THEN "head" ELSE "top")
    BY <1>5 DEF ReadSize
  <2>2. r.status \in Statuses /\ r.unread \in Seq(Units) /\ r.filesize \in Int
    BY ReadsTypes
  <2>3. PICK g \in Nat :
          log' = [log EXCEPT ![c] = [file |-> creq[c].file, size |-> r.filesize, at |-> g]]
    BY <2>1, FTPAssumption
  <2>4. creq[c].file \in Names
    BY <1>1 DEF ClientTypes, Requests, Names
  <2>5. log' \in [Clients -> LogType]
    <3>1. [file |-> creq[c].file, size |-> r.filesize, at |-> g] \in LogType
      BY <2>2, <2>3, <2>4 DEF LogType
    <3> QED
      BY <1>1, <2>3, <3>1 DEF ClientTypes
  <2>6. ClientTypes'
    BY <1>1, <1>2, <1>5, <2>1, <2>2, <2>5 DEF ReadSize, Goes, ClientTypes
  <2>7. NetTypes'
    BY <1>1, <1>5, <2>1, <2>2 DEF ReadSize, NetTypes
  <2> QED
    BY <1>3, <2>6, <2>7, TypeParts
<1>6. CASE ResponseFails(c)
  <2>1. CASE ClientExits(c)
    BY <1>1, <1>3, <2>1, ClosingTypes, TypeParts DEF ClientTypes, NetTypes
  <2>2. CASE /\ down[c] # << >>
             /\ status' = [status EXCEPT ![c] = Head(down[c]).status]
             /\ down' = [down EXCEPT ![c] = << >>]
             /\ Goes(c, "top")
             /\ UNCHANGED <<creq, rest, paquets, log, global_log, resuming,
                            backlog, conn, up, reset>>
    <3>1. Head(down[c]).status \in Statuses
      <4>1. EightBytes(down[c]) = {} /\ down[c] # << >> /\ Head(down[c]) \in Units
        BY <1>6, <2>2, TailTypes DEF ResponseFails
      <4>2. PICK u \in Units : u = Head(down[c])
        BY <4>1
      <4>3. CASE \E f \in Files, k \in Nat : u = Block(f, k)
        <5>1. u.kind = "data"
          BY <4>3 DEF Block
        <5>2. [status |-> "other", filesize |-> 0, unread |-> down[c]] \in EightBytes(down[c])
          BY <4>1, <4>2, <5>1 DEF EightBytes
        <5> QED
          BY <4>1, <5>2
      <4>4. CASE \E s \in {"FOUND", "SENDING"}, n \in Int : u = Response(s, n)
        BY <4>2, <4>4 DEF Response, Statuses
      <4>5. CASE \E s \in {"NOT_FOUND", "other"} : u = Word(s)
        BY <4>2, <4>5 DEF Word, Statuses
      <4> QED
        BY <4>3, <4>4, <4>5 DEF Units
    <3>2. ClientTypes'
      BY <1>1, <1>2, <2>2, <3>1 DEF Goes, ClientTypes
    <3>3. NetTypes'
      BY <1>1, <2>2, EmptySeq DEF NetTypes
    <3> QED
      BY <1>3, <3>2, <3>3, TypeParts
  <2> QED
    BY <1>6, <2>1, <2>2 DEF ResponseFails
<1> QED
  BY <1>4, <1>5, <1>6

(* A client in client2server, or where .log sends it there.                *)
LEMMA TransferKeepsTypes ==
  ASSUME TypeInv, NEW c \in Clients,
         \/ ClientTurn(c) \/ ClientReadLog(c) \/ ClientHead(c) \/ ClientBlock(c)
         \/ ClientStrayWord(c) \/ ClientBlockEnds(c) \/ ClientRemoveLog(c)
         \/ OpenExits(c) \/ ClientReadFails(c)
  PROVE  TypeInv'
<1>1. ClientTypes /\ ExecTypes /\ NetTypes /\ LogTypes
  BY TypeParts
<1>2. {"top", "readlog", "prompt", "head", "block", "rmlog", "exited"} \subseteq ClientPC
  BY DEF ClientPC, ClientGone
<1>3. ExecTypes'
  <2>1. UNCHANGED execvars
    BY DEF ClientTurn, ClientReadLog, ClientHead, ClientBlock, ClientStrayWord,
           ClientBlockEnds, ClientRemoveLog, OpenExits, ClientReadFails
  <2> QED
    BY <1>1, <2>1, PartsStay
<1>4. CASE ClientTurn(c)
  <2>1. ClientTypes'
    BY <1>1, <1>2, <1>4 DEF ClientTurn, Goes, ClientTypes
  <2>2. NetTypes' /\ LogTypes'
    BY <1>1, <1>4, PartsStay, RoughTypes DEF ClientTurn
  <2> QED
    BY <1>3, <2>1, <2>2, TypeParts
<1>5. CASE ClientReadLog(c)
  <2>1. LogTypes'
    BY <1>1, <1>5, PartsStay DEF ClientReadLog
  <2>2. CASE ClientExits(c)
    BY <1>1, <1>3, <2>1, <2>2, ClosingTypes, TypeParts DEF ClientTypes, NetTypes
  <2>3. CASE /\ Goes(c, "top")
             /\ UNCHANGED <<rest, paquets, log, resuming, creq, status, global_log, netvars>>
    BY <1>1, <1>2, <1>3, <2>1, <2>3, PartsStay, TypeParts DEF Goes, ClientTypes
  <2>4. CASE /\ Goes(c, "head")
             /\ rest' = [rest EXCEPT ![c] = dotlog.log.size - dotlog.log.at]
             /\ paquets' = [paquets EXCEPT ![c] = dotlog.log.at]
             /\ log' = [log EXCEPT ![c] = dotlog.log]
             /\ resuming' = [resuming EXCEPT ![c] = TRUE]
             /\ UNCHANGED <<creq, status, global_log, netvars>>
    <3>1. /\ dotlog.log \in LogType /\ dotlog.log.at \in Nat
          /\ dotlog.log.size - dotlog.log.at \in Int
      BY <1>1 DEF LogTypes, LogType
    <3> QED
      BY <1>1, <1>2, <1>3, <2>1, <2>4, <3>1, PartsStay, TypeParts DEF Goes, ClientTypes
  <2> QED
    BY <1>5, <2>2, <2>3, <2>4 DEF ClientReadLog
<1>6. CASE ClientHead(c)
  <2>1. ClientTypes'
    BY <1>1, <1>2, <1>6 DEF ClientHead, Goes, ClientTypes
  <2>2. NetTypes' /\ LogTypes'
    BY <1>1, <1>6, PartsStay DEF ClientHead
  <2> QED
    BY <1>3, <2>1, <2>2, TypeParts
<1>7. CASE ClientBlock(c)
  <2>1. Tail(down[c]) \in Seq(Units)
    BY <1>7, TailTypes DEF ClientBlock
  <2>2. NetTypes'
    BY <1>1, <1>7, <2>1 DEF ClientBlock, NetTypes
  <2>3. LogTypes'
    BY <1>1, <1>7 DEF ClientBlock, LogTypes, logvars
  <2>4. paquets' \in [Clients -> Nat] /\ rest' \in [Clients -> Int]
    BY <1>1, <1>7 DEF ClientBlock, ClientTypes
  <2>5. cpc' \in [Clients -> ClientPC]
    BY <1>1, <1>2, <1>7 DEF ClientBlock, Returned, Goes, ClientTypes
  <2>6. log' \in [Clients -> LogType]
    <3>1. log' = [log EXCEPT ![c].at = paquets[c] + 1] \/ log' = log
      BY <1>7 DEF ClientBlock
    <3>2. PICK n \in Nat : n = paquets[c] + 1
      BY <1>1 DEF ClientTypes
    <3>3. log \in [Clients -> LogType]
      BY <1>1 DEF ClientTypes
    <3>4. [log[c] EXCEPT !.at = n] \in LogType
      BY <3>2, <3>3 DEF LogType
    <3> QED
      BY <3>1, <3>2, <3>3, <3>4
  <2>7. ClientTypes'
    BY <1>1, <1>7, <2>4, <2>5, <2>6 DEF ClientBlock, ClientTypes
  <2> QED
    BY <1>3, <2>2, <2>3, <2>7, TypeParts
<1>8. CASE ClientStrayWord(c)
  <2>1. Tail(down[c]) \in Seq(Units)
    BY <1>8, TailTypes DEF ClientStrayWord
  <2>2. NetTypes' /\ LogTypes'
    BY <1>1, <1>8, <2>1 DEF ClientStrayWord, NetTypes, LogTypes, logvars
  <2>3. ClientTypes'
    BY <1>1, <1>8, PartsStay DEF ClientStrayWord
  <2> QED
    BY <1>3, <2>2, <2>3, TypeParts
<1>9. CASE ClientBlockEnds(c)
  <2>1. LogTypes'
    BY <1>1, <1>9, PartsStay DEF ClientBlockEnds
  <2>2. CASE ClientExits(c)
    BY <1>1, <1>3, <2>1, <2>2, ClosingTypes, TypeParts DEF ClientTypes, NetTypes
  <2>3. CASE /\ Returned(c)
             /\ UNCHANGED <<creq, status, rest, paquets, log, global_log, resuming, netvars>>
    BY <1>1, <1>2, <1>3, <2>1, <2>3, PartsStay, TypeParts DEF Returned, Goes, ClientTypes
  <2> QED
    BY <1>9, <2>2, <2>3 DEF ClientBlockEnds
<1>10. CASE ClientRemoveLog(c)
  <2>1. ClientTypes'
    BY <1>1, <1>2, <1>10 DEF ClientRemoveLog, Goes, ClientTypes
  <2>2. NetTypes'
    BY <1>1, <1>10, PartsStay DEF ClientRemoveLog
  <2>3. LogTypes'
    BY <1>1, <1>10, NoLogTypes DEF ClientRemoveLog, RemoveLog, LogTypes, history
  <2> QED
    BY <1>3, <2>1, <2>2, <2>3, TypeParts
<1>11. CASE OpenExits(c) \/ ClientReadFails(c)
  <2>1. ClientExits(c) /\ LogTypes'
    BY <1>1, <1>11, PartsStay DEF OpenExits, ClientReadFails
  <2> QED
    BY <1>1, <1>3, <2>1, ClosingTypes, TypeParts DEF ClientTypes, NetTypes
<1> QED
  BY <1>4, <1>5, <1>6, <1>7, <1>8, <1>9, <1>10, <1>11

LEMMA HandlerKeepsTypes ==
  ASSUME TypeInv, NEW c \in Clients, Interrupt(c) \/ SaveLog(c) \/ CloseSocket(c)
  PROVE  TypeInv'
<1>1. ClientTypes /\ ExecTypes /\ NetTypes /\ LogTypes
  BY TypeParts
<1>2. {"saving", "closing", "killed"} \subseteq ClientPC
  BY DEF ClientPC, ClientGone
<1>3. ExecTypes'
  <2>1. UNCHANGED execvars
    BY DEF Interrupt, SaveLog, CloseSocket
  <2> QED
    BY <1>1, <2>1, PartsStay
<1>4. ClientTypes'
  BY <1>1, <1>2 DEF Interrupt, SaveLog, CloseSocket, Goes, ClientTypes
<1>5. NetTypes'
  <2>1. \/ ClientCloses(c) /\ UNCHANGED up
        \/ UNCHANGED netvars
    BY DEF Interrupt, SaveLog, CloseSocket, netvars
  <2> QED
    BY <1>1, <2>1, ClosingTypes, PartsStay DEF NetTypes
<1>6. LogTypes'
  <2>1. CASE UNCHANGED <<logvars, history>>
    BY <1>1, <2>1, PartsStay
  <2>2. CASE Interrupt(c)
    <3>1. misfiled' \subseteq Clients /\ rough' \subseteq Clients
      BY <1>1, <2>2 DEF Interrupt, Roughens, LogTypes
    <3>2. UNCHANGED logvars \/ (dotlog' = Emptied /\ linked' = linked \cup {c})
      BY <2>2 DEF Interrupt
    <3> QED
      BY <1>1, <3>1, <3>2, NoLogTypes DEF LogTypes, logvars
  <2>3. CASE SaveLog(c)
    <3>1. Saved(global_log[c]) \in [there : BOOLEAN, log : LogType]
      BY <1>1 DEF ClientTypes, Saved
    <3> QED
      BY <1>1, <2>3, <3>1 DEF SaveLog, LogTypes, history
  <2> QED
    BY <2>1, <2>2, <2>3 DEF CloseSocket
<1> QED
  BY <1>3, <1>4, <1>5, <1>6, TypeParts

LEMMA ServingTypes ==
  ASSUME TypeInv, NEW e \in Executants
  PROVE  /\ ServerCloses(on[e]) => NetTypes'
         /\ Dies(e) => ExecTypes' /\ NetTypes'
         /\ \A s \in Seq(Units) : Writes(e, s) => NetTypes'
<1>1. ExecTypes /\ NetTypes
  BY TypeParts
<1>2. << >> \in Seq(Asks)
  BY EmptySeq
<1>3. PICK c : c = on[e]
  OBVIOUS
<1>4. ServerCloses(on[e]) => NetTypes'
  <2> SUFFICES ASSUME ServerCloses(on[e])
               PROVE  NetTypes'
    OBVIOUS
  <2>1. (reset[c] \/ up[c] # << >>) \in BOOLEAN
    OBVIOUS
  <2>2. reset' \in [Clients -> BOOLEAN]
    BY <1>1, <1>3, <2>1 DEF ServerCloses, NetTypes
  <2> QED
    BY <1>1, <1>2, <2>2 DEF ServerCloses, NetTypes
<1>5. Dies(e) => ExecTypes'
  BY <1>1 DEF Dies, Moves, ExecTypes, ExecPC
<1>6. ASSUME NEW s \in Seq(Units), Writes(e, s)
      PROVE  NetTypes'
  <2>1. CASE on[e] \in Clients
    <3>1. down[on[e]] \o s \in Seq(Units)
      BY <1>1, <2>1, ConcatProperties DEF NetTypes
    <3>2. down' \in [Clients -> Seq(Units)]
      BY <1>1, <1>6, <3>1 DEF Writes, NetTypes
    <3> QED
      BY <1>1, <1>6, <3>2 DEF Writes, NetTypes
  <2>2. CASE on[e] \notin Clients
    BY <1>1, <1>6, <2>2 DEF Writes, NetTypes, Alive
  <2> QED
    BY <2>1, <2>2
<1> QED
  BY <1>4, <1>5, <1>6 DEF Dies

LEMMA ServeKeepsTypes ==
  ASSUME TypeInv, NEW e \in Executants, ServeRequest(e)
  PROVE  ExecTypes' /\ NetTypes'
<1>1. ExecTypes /\ NetTypes
  BY TypeParts
<1>2. PICK c : c = on[e]
  OBVIOUS
<1>3. CASE DiesWriting(e)
  BY <1>3, ServingTypes DEF DiesWriting
<1>4. CASE ~ DiesWriting(e)
  <2>1. PICK r : r = Head(up[c]).req
    OBVIOUS
  <2>2. up[c] # << >> /\ up' = [up EXCEPT ![c] = Tail(up[c])]
    <3>1. up[on[e]] # << >>
      BY Zenon DEF ServeRequest
    <3>2. DiesWriting(e) \/ up' = [up EXCEPT ![on[e]] = Tail(up[on[e]])]
      BY Zenon DEF ServeRequest
    <3> QED
      BY <1>2, <1>4, <3>1, <3>2
  <2>3. up' \in [Clients -> Seq(Asks)]
    BY <1>1, <2>2, HeadTailProperties DEF NetTypes
  <2>4. UNCHANGED <<on, backlog, conn, reset>>
    <3>1. DiesWriting(e) \/ UNCHANGED <<on, backlog, conn, reset>>
      BY Zenon DEF ServeRequest
    <3> QED
      BY <1>4, <3>1
  <2>5. CASE r.file \in Files \cup Directories /\ r.cmd = "get"
    <3>0. PICK n \in SizesOf(r.file) :
            /\ Moves(e, "send")
            /\ down' = IF c \notin Alive THEN down
                       ELSE [down EXCEPT ![c] = down[c] \o
                               <<Response("FOUND", 0), Response("SENDING", n)>>]
            /\ left' = [left EXCEPT ![e] = n]
            /\ sending' = [sending EXCEPT ![e] = [file |-> r.file, index |-> 0]]
            /\ again' = [again EXCEPT ![e] = FALSE]
      BY <1>2, <1>4, <2>1, <2>5 DEF ServeRequest
    <3>1. PICK s : s = <<Response("FOUND", 0), Response("SENDING", n)>>
      OBVIOUS
    <3>2. /\ Moves(e, "send") /\ (down' = down \/ down' = [down EXCEPT ![c] = down[c] \o s])
          /\ left' = [left EXCEPT ![e] = n]
          /\ sending' = [sending EXCEPT ![e] = [file |-> r.file, index |-> 0]]
          /\ again' = [again EXCEPT ![e] = FALSE]
      BY <3>0, <3>1
    <3>3. n \in Int
      <4>1. CASE r.file \in Directories
        <5>1. SizesOf(r.file) = DirSizes
          BY <4>1 DEF SizesOf
        <5> QED
          BY <5>1, FTPAssumption
      <4>2. CASE r.file \notin Directories
        <5>1. SizesOf(r.file) = {Blocks[r.file]} /\ r.file \in Files
          BY <2>5, <4>2 DEF SizesOf
        <5>2. Blocks[r.file] \in Nat
          BY <5>1, FTPAssumption
        <5> QED
          BY <5>1, <5>2
      <4> QED
        BY <4>1, <4>2
    <3>4. s \in Seq(Units)
      <4>1. Response("FOUND", 0) \in Units /\ Response("SENDING", n) \in Units
        BY <3>3 DEF Units
      <4> QED
        BY <3>1, <4>1
    <3>5. down' \in [Clients -> Seq(Units)]
      <4>1. c \in Clients => down[c] \o s \in Seq(Units)
        BY <1>1, <3>4, ConcatProperties DEF NetTypes
      <4> QED
        BY <1>1, <3>2, <4>1 DEF NetTypes
    <3>6. ExecTypes'
      <4>1. epc[e] = "readreq"
        BY Zenon DEF ServeRequest, Waiting
      <4> QED
        BY <1>1, <2>4, <2>5, <3>2, <3>3, <4>1 DEF ExecTypes, Moves, ExecPC
    <3> QED
      BY <1>1, <2>3, <2>4, <3>5, <3>6 DEF NetTypes
  <2>6. CASE ~ (r.file \in Files \cup Directories /\ r.cmd = "get")
    <3>1. /\ Moves(e, "top") /\ UNCHANGED <<left, sending, again>>
          /\ down' = down \/ down' = [down EXCEPT ![c] = Append(down[c], Word("NOT_FOUND"))]
      BY <1>2, <1>4, <2>1, <2>6 DEF ServeRequest
    <3>2. down' \in [Clients -> Seq(Units)]
      <4>1. Word("NOT_FOUND") \in Units
        BY DEF Units
      <4>2. c \in Clients => Append(down[c], Word("NOT_FOUND")) \in Seq(Units)
        BY <1>1, <4>1, AppendProperties DEF NetTypes
      <4> QED
        BY <1>1, <3>1, <4>2 DEF NetTypes
    <3>3. ExecTypes'
      <4>1. epc[e] = "readreq"
        BY Zenon DEF ServeRequest, Waiting
      <4> QED
        BY <1>1, <2>4, <3>1, <4>1 DEF ExecTypes, Moves, ExecPC
    <3> QED
      BY <1>1, <2>3, <2>4, <3>2, <3>3 DEF NetTypes
  <2> QED
    BY <2>5, <2>6
<1> QED
  BY <1>3, <1>4

LEMMA ExecKeepsTypes ==
  ASSUME TypeInv, NEW e \in Executants, ExecStep(e) \/ AcceptFails(e)
  PROVE  TypeInv'
<1>1. ClientTypes /\ ExecTypes /\ NetTypes /\ LogTypes
  BY TypeParts
<1>2. ClientTypes'
  <2>1. UNCHANGED clientvars
    BY DEF ExecStep, AcceptClient, AcceptFails, ExecTurn, ExecReadLog, ServeRequest, ReadBye,
           ReadEnd, SendBlock, SendFails, SendEnds, ExecRemoveLog
  <2> QED
    BY <1>1, <2>1, PartsStay
<1>3. LogTypes'
  <2>1. CASE ExecRemoveLog(e)
    BY <1>1, <2>1, NoLogTypes DEF ExecRemoveLog, RemoveLog, LogTypes, history
  <2>2. CASE ExecTurn(e)
    <3>1. on[e] \in Clients
      BY <1>1, <2>2 DEF ExecTurn, ExecTypes
    <3> QED
      BY <1>1, <2>2, <3>1, RoughTypes DEF ExecTurn
  <2>3. CASE AcceptFails(e)
    <3>1. UNCHANGED history \/ (backlog # << >> /\ Roughens(Head(backlog)))
      BY <2>3 DEF AcceptFails
    <3>2. backlog # << >> => Head(backlog) \in Clients
      BY <1>1, HeadTailProperties DEF NetTypes
    <3>3. UNCHANGED logvars
      BY <2>3 DEF AcceptFails
    <3> QED
      BY <1>1, <3>1, <3>2, <3>3, PartsStay, RoughTypes
  <2>4. CASE ~ (ExecRemoveLog(e) \/ ExecTurn(e) \/ AcceptFails(e))
    <3>1. UNCHANGED <<logvars, history>>
      BY <2>4 DEF ExecStep, AcceptClient, ExecReadLog, ServeRequest, ReadBye,
                  ReadEnd, SendBlock, SendFails, SendEnds
    <3> QED
      BY <1>1, <3>1, PartsStay
  <2> QED
    BY <2>1, <2>2, <2>3, <2>4
<1>4. CASE AcceptClient(e)
  <2>1. Head(backlog) \in Clients /\ Tail(backlog) \in Seq(Clients)
    BY <1>1, <1>4, HeadTailProperties DEF AcceptClient, NetTypes
  <2>2. ExecTypes'
    BY <1>1, <1>4, <2>1, FTPAssumption DEF AcceptClient, Moves, ExecTypes, ExecPC
  <2>3. NetTypes'
    BY <1>1, <1>4, <2>1 DEF AcceptClient, NetTypes
  <2> QED
    BY <1>2, <1>3, <2>2, <2>3, TypeParts
<1>5. CASE ExecTurn(e) \/ SendEnds(e) \/ ExecRemoveLog(e)
  <2>1. ExecTypes'
    BY <1>1, <1>5 DEF ExecTurn, SendEnds, ExecRemoveLog, Moves, ExecTypes, ExecPC
  <2>2. NetTypes'
    BY <1>1, <1>5, PartsStay DEF ExecTurn, SendEnds, ExecRemoveLog
  <2> QED
    BY <1>2, <1>3, <2>1, <2>2, TypeParts
<1>6. CASE ExecReadLog(e)
  <2>1. CASE Dies(e)
    BY <1>2, <1>3, <2>1, ServingTypes, TypeParts
  <2>2. CASE Moves(e, "top") /\ UNCHANGED <<left, sending, again, on, netvars>>
    BY <1>1, <1>2, <1>3, <1>6, <2>2, PartsStay, TypeParts DEF ExecReadLog, Moves, ExecTypes, ExecPC
  <2>3. CASE /\ dotlog.log.file \in Files \cup Directories
             /\ Moves(e, "send")
             /\ left' = [left EXCEPT ![e] = dotlog.log.size - dotlog.log.at]
             /\ sending' = [sending EXCEPT ![e] =
                  [file |-> dotlog.log.file, index |-> dotlog.log.at]]
             /\ again' = [again EXCEPT ![e] = TRUE]
             /\ UNCHANGED <<on, netvars>>
    <3>1. dotlog.log.at \in Nat /\ dotlog.log.size - dotlog.log.at \in Int
      BY <1>1 DEF LogTypes, LogType
    <3>2. ExecTypes'
      BY <1>1, <1>6, <2>3, <3>1 DEF ExecReadLog, Moves, ExecTypes, ExecPC
    <3> QED
      BY <1>1, <1>2, <1>3, <2>3, <3>2, PartsStay, TypeParts
  <2> QED
    BY <1>6, <2>1, <2>2, <2>3 DEF ExecReadLog
<1>7. CASE ServeRequest(e)
  BY <1>2, <1>3, <1>7, ServeKeepsTypes, TypeParts
<1>8. CASE ReadBye(e)
  <2>1. ExecTypes'
    BY <1>1, <1>8 DEF ReadBye, Moves, ExecTypes, ExecPC
  <2>2. NetTypes'
    BY <1>1, <1>8, EmptySeq DEF ReadBye, NetTypes
  <2> QED
    BY <1>2, <1>3, <2>1, <2>2, TypeParts
<1>9. CASE ReadEnd(e)
  BY <1>2, <1>3, <1>9, ServingTypes, TypeParts DEF ReadEnd
<1>10. CASE SendBlock(e)
  <2>1. CASE Dies(e)
    BY <1>2, <1>3, <2>1, ServingTypes, TypeParts
  <2>2. CASE /\ Writes(e, <<Block(sending[e].file, sending[e].index)>>)
             /\ left' = [left EXCEPT ![e] = left[e] - 1]
             /\ sending' = [sending EXCEPT ![e].index = sending[e].index + 1]
             /\ UNCHANGED <<epc, on, again>>
    <3>1. sending[e].file \in Files /\ sending[e].index \in Nat /\ epc[e] = "send"
      BY <1>1, <1>10 DEF SendBlock, ExecTypes
    <3>2. <<Block(sending[e].file, sending[e].index)>> \in Seq(Units)
      <4>1. Block(sending[e].file, sending[e].index) \in Units
        BY <3>1 DEF Units
      <4> QED
        BY <4>1
    <3>3. NetTypes'
      BY <2>2, <3>2, ServingTypes
    <3>4. ExecTypes'
      <4>1. left[e] - 1 \in Int /\ sending[e].index + 1 \in Nat
        BY <1>1, <3>1 DEF ExecTypes
      <4> QED
        BY <1>1, <2>2, <4>1 DEF ExecTypes
    <3> QED
      BY <1>2, <1>3, <3>3, <3>4, TypeParts
  <2> QED
    BY <1>10, <2>1, <2>2 DEF SendBlock, DiesWriting
<1>11. CASE SendFails(e)
  BY <1>2, <1>3, <1>11, ServingTypes, TypeParts DEF SendFails
<1>12. CASE AcceptFails(e)
  <2>1. CASE UNCHANGED <<on, netvars>>
    <3>1. ExecTypes'
      BY <1>1, <1>12, <2>1 DEF AcceptFails, Moves, ExecTypes, ExecPC
    <3> QED
      BY <1>1, <1>2, <1>3, <2>1, <3>1, PartsStay, TypeParts
  <2>2. CASE backlog # << >> /\ on' = [on EXCEPT ![e] = Head(backlog)]
    <3>1. Head(backlog) \in Clients /\ Tail(backlog) \in Seq(Clients) /\ << >> \in Seq(Asks)
      BY <1>1, <2>2, HeadTailProperties, EmptySeq DEF NetTypes
    <3>2. ExecTypes'
      BY <1>1, <1>12, <2>2, <3>1 DEF AcceptFails, Moves, ExecTypes, ExecPC
    <3>3. PICK c \in Clients : c = Head(backlog)
      BY <3>1
    <3>4. UNCHANGED <<on, netvars>> \/
            /\ conn' = [conn EXCEPT ![c] = "closed"]
            /\ reset' = [reset EXCEPT ![c] = reset[c] \/ up[c] # << >>]
            /\ up' = [up EXCEPT ![c] = << >>]
            /\ backlog' = Tail(backlog) /\ UNCHANGED down
      BY <1>12, <3>3 DEF AcceptFails
    <3>5. (reset[c] \/ up[c] # << >>) \in BOOLEAN
      OBVIOUS
    <3>6. NetTypes'
      BY <1>1, <3>1, <3>4, <3>5, PartsStay DEF NetTypes
    <3> QED
      BY <1>2, <1>3, <3>2, <3>6, TypeParts
  <2> QED
    BY <1>12, <2>1, <2>2 DEF AcceptFails
<1> QED
  BY <1>4, <1>5, <1>6, <1>7, <1>8, <1>9, <1>10, <1>11, <1>12 DEF ExecStep

LEMMA TypeStep == TypeInv /\ [Next]_vars => TypeInv'
<1> SUFFICES ASSUME TypeInv, [Next]_vars
             PROVE  TypeInv'
  OBVIOUS
<1>1. ASSUME NEW c \in Clients, ClientStep(c)
      PROVE  TypeInv'
  BY <1>1, ResponseKeepsTypes, TransferKeepsTypes, HandlerKeepsTypes DEF ClientStep
<1>2. ASSUME NEW c \in Clients, UserStep(c) \/ AskDirectory(c)
      PROVE  TypeInv'
  BY <1>2, UserKeepsTypes
<1>3. ASSUME NEW c \in Clients, Interrupt(c)
      PROVE  TypeInv'
  BY <1>3, HandlerKeepsTypes
<1>4. ASSUME NEW e \in Executants, ExecStep(e) \/ AcceptFails(e)
      PROVE  TypeInv'
  BY <1>4, ExecKeepsTypes
<1> QED
  BY <1>1, <1>2, <1>3, <1>4, TypesStay DEF Next, CalmNext

(* Clients, executants, what is under way between them and .log have their *)
(* types, whoever is interrupted when: an executant only sends a file of   *)
(* ./Server, and what is read at the wrong place is still a unit.          *)
THEOREM ConversationTypes == Spec => []TypeOK
<1>1. TypeInv => TypeOK
  BY DEF TypeInv
<1> QED
  BY <1>1, TypeInit, TypeStep, PTL DEF Spec

-----------------------------------------------------------------------------
(* Connections: who has them, from the backlog to the end.                 *)

Waits(b) == {b[k] : k \in DOMAIN b}

EachOnce(b) == \A k, l \in DOMAIN b : b[k] = b[l] => k = l

LEMMA QueueGrows ==
  ASSUME NEW b \in Seq(Clients), EachOnce(b), NEW c \in Clients \ Waits(b)
  PROVE  Waits(Append(b, c)) = Waits(b) \cup {c} /\ EachOnce(Append(b, c))
<1>1. PICK t : t = Append(b, c)
  OBVIOUS
<1>2. Len(b) \in Nat /\ DOMAIN b = 1 .. Len(b)
  BY LenProperties
<1>3. /\ t \in Seq(Clients) /\ Len(t) = Len(b) + 1
      /\ \A k \in 1 .. Len(b) : t[k] = b[k]
      /\ t[Len(b) + 1] = c
  BY <1>1, AppendProperties
<1>4. DOMAIN t = 1 .. Len(b) + 1
  BY <1>3, LenProperties
<1>5. \A k \in DOMAIN t : (k \in DOMAIN b /\ t[k] = b[k]) \/ (k = Len(b) + 1 /\ t[k] = c)
  BY <1>2, <1>3, <1>4
<1>6. Len(b) + 1 \in DOMAIN t /\ \A k \in DOMAIN b : k \in DOMAIN t /\ t[k] = b[k]
  BY <1>2, <1>3, <1>4
<1>7. Waits(t) = Waits(b) \cup {c}
  BY <1>3, <1>5, <1>6 DEF Waits
<1>8. EachOnce(t)
  BY <1>5 DEF EachOnce, Waits
<1> QED
  BY <1>1, <1>7, <1>8

LEMMA QueueShrinks ==
  ASSUME NEW b \in Seq(Clients), EachOnce(b), b # << >>
  PROVE  /\ Head(b) \in Clients /\ Head(b) \in Waits(b)
         /\ Waits(Tail(b)) = Waits(b) \ {Head(b)} /\ EachOnce(Tail(b))
<1>1. PICK t : t = Tail(b)
  OBVIOUS
<1>2. PICK c : c = Head(b)
  OBVIOUS
<1>3. Len(b) \in Nat /\ Len(b) >= 1 /\ DOMAIN b = 1 .. Len(b)
  BY EmptySeq, LenProperties
<1>4. c = b[1] /\ 1 \in DOMAIN b /\ c \in Clients
  BY <1>2, <1>3
<1>5. /\ t \in Seq(Clients) /\ Len(t) = Len(b) - 1
      /\ \A k \in 1 .. Len(t) : t[k] = b[k + 1]
  BY <1>1, HeadTailProperties
<1>6. DOMAIN t = 1 .. Len(t) /\ Len(t) \in Nat
  BY <1>5, LenProperties
<1>7. \A k \in DOMAIN t : k \in Nat /\ k + 1 # 1 /\ k + 1 \in DOMAIN b /\ t[k] = b[k + 1]
  BY <1>3, <1>5, <1>6
<1>8. \A m \in DOMAIN b : m # 1 => m - 1 \in DOMAIN t /\ (m - 1) + 1 = m
  BY <1>3, <1>5, <1>6
<1>9. ASSUME NEW x \in Waits(t)
      PROVE  x \in Waits(b) \ {c}
  <2>1. PICK k \in DOMAIN t : x = t[k]
    BY <1>9 DEF Waits
  <2>2. PICK m : m = k + 1
    OBVIOUS
  <2>3. m \in DOMAIN b /\ m # 1 /\ x = b[m]
    BY <1>7, <2>1, <2>2
  <2> QED
    BY <1>4, <2>3 DEF Waits, EachOnce
<1>10. ASSUME NEW x \in Waits(b) \ {c}
       PROVE  x \in Waits(t)
  <2>1. PICK m \in DOMAIN b : x = b[m]
    BY <1>10 DEF Waits
  <2>2. m # 1
    BY <1>4, <1>10, <2>1
  <2>3. PICK k : k = m - 1
    OBVIOUS
  <2>4. k \in DOMAIN t /\ k + 1 = m
    BY <1>8, <2>2, <2>3
  <2>5. t[k] = x
    BY <1>7, <2>1, <2>4
  <2> QED
    BY <2>4, <2>5 DEF Waits
<1>11. EachOnce(t)
  <2> SUFFICES ASSUME NEW k \in DOMAIN t, NEW l \in DOMAIN t, t[k] = t[l]
               PROVE  k = l
    BY DEF EachOnce
  <2>1. PICK m : m = k + 1
    OBVIOUS
  <2>2. PICK n : n = l + 1
    OBVIOUS
  <2>3. m \in DOMAIN b /\ n \in DOMAIN b /\ b[m] = b[n]
    BY <1>7, <2>1, <2>2
  <2>4. m = n
    BY <2>3 DEF EachOnce
  <2> QED
    BY <1>7, <2>1, <2>2, <2>4
<1>12. c \in Waits(b)
  BY <1>4 DEF Waits
<1>13. Waits(t) = Waits(b) \ {c}
  BY <1>9, <1>10
<1> QED
  BY <1>1, <1>2, <1>4, <1>11, <1>12, <1>13

(* A connection that the system has completed waits once, or one executant *)
(* and no other is at its end, until that one closes it.                   *)
OneExecutantEach ==
  \A c \in Clients :
    /\ conn[c] = "queued" <=> \E k \in DOMAIN backlog : backlog[k] = c
    /\ conn[c] = "open" <=> \E e \in Executants : Serving(e, c)
    /\ \A e, d \in Executants : Serving(e, c) /\ Serving(d, c) => e = d

(* An executant that has ended keeps the client it had, if it had one,     *)
(* whose connection is closed.                                             *)
Attending ==
  /\ \A e \in Executants :
       /\ epc[e] = "accept" => on[e] = NoOne
       /\ on[e] = NoOne => epc[e] \in {"accept", "dead"}
       /\ on[e] # NoOne => conn[on[e]] = IF epc[e] = "dead" THEN "closed" ELSE "open"
  /\ \A e, d \in Executants : on[e] = on[d] /\ e # d => on[e] = NoOne
  /\ \A c \in Clients : conn[c] = "open" => \E e \in Executants : on[e] = c

Queued ==
  /\ EachOnce(backlog)
  /\ \A c \in Clients : conn[c] = "queued" <=> c \in Waits(backlog)
  /\ \A c \in Clients : conn[c] = "none" <=> cpc[c] = "off"

ConnInv == TypeInv /\ Attending /\ Queued

(* What a client that is there does, and its user, leaves both as they are.*)
LEMMA ClientKeepsConn ==
  ASSUME ConnInv, NEW c \in Clients,
         \/ ClientStep(c) \/ Interrupt(c)
         \/ TypeIgnored(c) \/ TypeRequest(c) \/ AskDirectory(c) \/ TypeBye(c)
  PROVE  UNCHANGED <<backlog, conn, on, epc>> /\ \A d \in Clients : cpc'[d] = "off" <=> cpc[d] = "off"
<1>1. cpc \in [Clients -> ClientPC]
  BY DEF ConnInv, TypeInv, TypeOK
<1>2. ASSUME cpc[c] # "off", NEW at, at # "off", Goes(c, at)
      PROVE  \A d \in Clients : cpc'[d] = "off" <=> cpc[d] = "off"
  BY <1>1, <1>2 DEF Goes
<1>3. UNCHANGED <<backlog, conn, on, epc>>
  <2>1. CASE ClientTurn(c) \/ ClientReadLog(c) \/ ClientHead(c) \/ ClientRemoveLog(c)
    BY <2>1 DEF ClientTurn, ClientReadLog, ClientHead, ClientRemoveLog, ClientExits,
                ClientCloses, execvars, netvars
  <2>2. CASE ReadResponse(c) \/ ReadSize(c) \/ OpenExits(c) \/ ResponseFails(c)
    BY <2>2 DEF ReadResponse, ReadSize, OpenExits, ResponseFails, ClientExits, ClientCloses, execvars
  <2>3. CASE ClientBlock(c) \/ ClientStrayWord(c) \/ ClientBlockEnds(c) \/ ClientReadFails(c)
    BY <2>3 DEF ClientBlock, ClientStrayWord, ClientBlockEnds, ClientReadFails, ClientExits, ClientCloses,
                execvars, netvars
  <2>4. CASE SaveLog(c) \/ CloseSocket(c) \/ Interrupt(c)
    BY <2>4 DEF SaveLog, CloseSocket, Interrupt, ClientCloses, execvars, netvars
  <2>5. CASE TypeIgnored(c) \/ TypeRequest(c) \/ AskDirectory(c) \/ TypeBye(c)
    BY <2>5 DEF TypeIgnored, TypeRequest, AskDirectory, MayType, Sends, TypeBye, ClientExits, ClientCloses, execvars, netvars
  <2> QED
    BY <2>1, <2>2, <2>3, <2>4, <2>5 DEF ClientStep
<1>4. CASE UNCHANGED cpc
  BY <1>3, <1>4
<1>5. ASSUME ~ UNCHANGED cpc
      PROVE  cpc[c] # "off" /\ \E at : at # "off" /\ Goes(c, at)
  <2>1. CASE ClientTurn(c) \/ ClientReadLog(c) \/ ClientHead(c) \/ ClientRemoveLog(c)
    BY <2>1 DEF ClientTurn, ClientReadLog, ClientHead, ClientRemoveLog, ClientExits
  <2>2. CASE ReadResponse(c) \/ ReadSize(c) \/ OpenExits(c) \/ ResponseFails(c)
    BY <2>2 DEF ReadResponse, ReadSize, OpenExits, ResponseFails, ClientExits
  <2>3. CASE ClientBlock(c) \/ ClientStrayWord(c) \/ ClientBlockEnds(c) \/ ClientReadFails(c)
    BY <1>5, <2>3 DEF ClientBlock, ClientStrayWord, ClientBlockEnds, ClientReadFails, Returned, ClientExits,
                      clientvars
  <2>4. CASE SaveLog(c) \/ CloseSocket(c) \/ Interrupt(c)
    BY <2>4 DEF SaveLog, CloseSocket, Interrupt, Alive
  <2>5. CASE TypeIgnored(c) \/ TypeRequest(c) \/ AskDirectory(c) \/ TypeBye(c)
    BY <2>5 DEF TypeIgnored, TypeRequest, AskDirectory, MayType, Sends, TypeBye, ClientExits
  <2> QED
    BY <2>1, <2>2, <2>3, <2>4, <2>5 DEF ClientStep
<1> QED
  BY <1>2, <1>3, <1>4, <1>5

LEMMA NothingConnects ==
  ASSUME ConnInv, TypeInv', UNCHANGED <<backlog, conn, on, epc>>,
         \A d \in Clients : cpc'[d] = "off" <=> cpc[d] = "off"
  PROVE  ConnInv'
<1>1. Attending'
  BY DEF ConnInv, Attending
<1>2. Queued'
  BY DEF ConnInv, Queued
<1> QED
  BY <1>1, <1>2 DEF ConnInv

LEMMA LaunchQueues ==
  ASSUME ConnInv, TypeInv', NEW c \in Clients, Launch(c)
  PROVE  ConnInv'
<1>1. ClientTypes /\ ExecTypes /\ NetTypes /\ Attending /\ Queued
  BY TypeParts DEF ConnInv
<1>2. conn[c] = "none" /\ on' = on /\ epc' = epc
  BY <1>1 DEF Launch, Queued, execvars
<1>3. /\ cpc'[c] = "top" /\ conn'[c] = "queued"
      /\ \A d \in Clients \ {c} : cpc'[d] = cpc[d] /\ conn'[d] = conn[d]
  BY <1>1 DEF Launch, Goes, ClientTypes, NetTypes
<1>4. c \notin Waits(backlog)
  BY <1>1, <1>2 DEF Queued
<1>5. Waits(backlog') = Waits(backlog) \cup {c} /\ EachOnce(backlog')
  <2>1. PICK b : b = backlog
    OBVIOUS
  <2>2. b \in Seq(Clients) /\ EachOnce(b) /\ c \notin Waits(b)
    BY <1>1, <1>4, <2>1 DEF NetTypes, Queued
  <2>3. PICK t : t = Append(b, c)
    OBVIOUS
  <2>4. Waits(t) = Waits(b) \cup {c} /\ EachOnce(t)
    BY <2>2, <2>3, QueueGrows
  <2>5. backlog' = t
    BY <2>1, <2>3 DEF Launch
  <2> QED
    BY <2>1, <2>4, <2>5
<1>6. Queued'
  <2>1. \A d \in Clients : /\ conn'[d] = "queued" <=> d \in Waits(backlog')
                           /\ conn'[d] = "none" <=> cpc'[d] = "off"
    BY <1>1, <1>3, <1>5 DEF Queued
  <2> QED
    BY <1>5, <2>1 DEF Queued
<1>7. Attending'
  <2>1. \A e \in Executants : on[e] # NoOne => on[e] \in Clients \ {c}
    BY <1>1, <1>2 DEF Attending, ExecTypes
  <2> QED
    BY <1>1, <1>2, <1>3, <2>1 DEF Attending
<1> QED
  BY <1>6, <1>7 DEF ConnInv

(* An executant that accepts takes the first of the backlog, whom no other *)
(* executant has had.                                                      *)
LEMMA AcceptAttends ==
  ASSUME ConnInv, TypeInv', NEW e \in Executants, AcceptClient(e)
  PROVE  ConnInv'
<1>1. ClientTypes /\ ExecTypes /\ NetTypes /\ Attending /\ Queued
  BY TypeParts DEF ConnInv
<1>2. PICK b : b = backlog
  OBVIOUS
<1>3. PICK c : c = Head(b)
  OBVIOUS
<1>4. PICK t : t = Tail(b)
  OBVIOUS
<1>5. b \in Seq(Clients) /\ EachOnce(b) /\ b # << >>
  BY <1>1, <1>2 DEF NetTypes, Queued, AcceptClient
<1>6. c \in Clients /\ c \in Waits(b) /\ Waits(t) = Waits(b) \ {c} /\ EachOnce(t)
  BY <1>3, <1>4, <1>5, QueueShrinks
<1>7. conn[c] = "queued" /\ on[e] = NoOne /\ \A x \in Executants : on[x] # c
  BY <1>1, <1>2, <1>6, FTPAssumption DEF Attending, Queued, AcceptClient
<1>8. /\ epc' = [epc EXCEPT ![e] = "top"] /\ on' = [on EXCEPT ![e] = c]
      /\ conn' = [conn EXCEPT ![c] = "open"] /\ backlog' = t /\ cpc' = cpc
  BY <1>2, <1>3, <1>4 DEF AcceptClient, Moves, clientvars
<1>9. /\ epc'[e] = "top" /\ on'[e] = c
      /\ \A x \in Executants \ {e} : epc'[x] = epc[x] /\ on'[x] = on[x]
      /\ conn'[c] = "open" /\ \A d \in Clients \ {c} : conn'[d] = conn[d]
  BY <1>1, <1>6, <1>8 DEF ExecTypes, NetTypes
<1>10. Queued'
  <2>1. \A d \in Clients : /\ conn'[d] = "queued" <=> d \in Waits(t)
                           /\ conn'[d] = "none" <=> cpc'[d] = "off"
    BY <1>1, <1>2, <1>6, <1>7, <1>8, <1>9 DEF Queued
  <2> QED
    BY <1>6, <1>8, <2>1 DEF Queued
<1>11. Attending'
  <2>1. \A x \in Executants :
          /\ epc'[x] = "accept" => on'[x] = NoOne
          /\ on'[x] = NoOne => epc'[x] \in {"accept", "dead"}
          /\ on'[x] # NoOne => conn'[on'[x]] = IF epc'[x] = "dead" THEN "closed" ELSE "open"
    <3> TAKE x \in Executants
    <3>1. CASE x = e
      BY <1>6, <1>9, <3>1, FTPAssumption
    <3>2. CASE x # e
      <4>1. on[x] # NoOne => on[x] \in Clients \ {c}
        BY <1>1, <1>7 DEF ExecTypes
      <4> QED
        BY <1>1, <1>9, <3>2, <4>1 DEF Attending
    <3> QED
      BY <3>1, <3>2
  <2>2. \A x, y \in Executants : on'[x] = on'[y] /\ x # y => on'[x] = NoOne
    BY <1>1, <1>7, <1>9 DEF Attending
  <2>3. \A d \in Clients : conn'[d] = "open" => \E x \in Executants : on'[x] = d
    <3> SUFFICES ASSUME NEW d \in Clients, conn'[d] = "open"
                 PROVE  \E x \in Executants : on'[x] = d
      OBVIOUS
    <3>1. CASE d = c
      BY <1>9, <3>1
    <3>2. CASE d # c
      <4>1. PICK x \in Executants : on[x] = d
        BY <1>1, <1>9, <3>2 DEF Attending
      <4>2. x # e
        BY <1>7, <4>1, FTPAssumption
      <4> QED
        BY <1>9, <4>1, <4>2
    <3> QED
      BY <3>1, <3>2
  <2> QED
    BY <2>1, <2>2, <2>3 DEF Attending
<1> QED
  BY <1>10, <1>11 DEF ConnInv

(* One that fails to accept is lost, with the first of the backlog or with *)
(* nobody.                                                                 *)
LEMMA FailureAttends ==
  ASSUME ConnInv, TypeInv', NEW e \in Executants, AcceptFails(e)
  PROVE  ConnInv'
<1>1. ClientTypes /\ ExecTypes /\ NetTypes /\ Attending /\ Queued
  BY TypeParts DEF ConnInv
<1>2. on[e] = NoOne /\ epc[e] = "accept" /\ epc' = [epc EXCEPT ![e] = "dead"] /\ cpc' = cpc
  BY <1>1 DEF AcceptFails, Attending, Moves, clientvars
<1>3. epc'[e] = "dead" /\ \A x \in Executants \ {e} : epc'[x] = epc[x]
  BY <1>1, <1>2 DEF ExecTypes
<1>4. CASE UNCHANGED <<on, netvars>>
  <2>1. Attending'
    BY <1>1, <1>2, <1>3, <1>4 DEF Attending, netvars
  <2>2. Queued'
    BY <1>1, <1>2, <1>4 DEF Queued, netvars
  <2> QED
    BY <2>1, <2>2 DEF ConnInv
<1>5. CASE backlog # << >> /\ on' = [on EXCEPT ![e] = Head(backlog)]
           /\ conn' = [conn EXCEPT ![Head(backlog)] = "closed"] /\ backlog' = Tail(backlog)
  <2>1. PICK b : b = backlog
    OBVIOUS
  <2>2. PICK c : c = Head(b)
    OBVIOUS
  <2>3. PICK t : t = Tail(b)
    OBVIOUS
  <2>4. b \in Seq(Clients) /\ EachOnce(b) /\ b # << >>
    BY <1>1, <1>5, <2>1 DEF NetTypes, Queued
  <2>5. c \in Clients /\ c \in Waits(b) /\ Waits(t) = Waits(b) \ {c} /\ EachOnce(t)
    BY <2>2, <2>3, <2>4, QueueShrinks
  <2>6. conn[c] = "queued" /\ \A x \in Executants : on[x] # c
    BY <1>1, <2>1, <2>5, FTPAssumption DEF Attending, Queued
  <2>7. /\ on' = [on EXCEPT ![e] = c] /\ conn' = [conn EXCEPT ![c] = "closed"] /\ backlog' = t
    BY <1>5, <2>1, <2>2, <2>3
  <2>8. /\ on'[e] = c /\ conn'[c] = "closed"
        /\ \A x \in Executants \ {e} : on'[x] = on[x]
        /\ \A d \in Clients \ {c} : conn'[d] = conn[d]
    BY <1>1, <2>5, <2>7 DEF ExecTypes, NetTypes
  <2>9. Queued'
    <3>1. \A d \in Clients : /\ conn'[d] = "queued" <=> d \in Waits(t)
                             /\ conn'[d] = "none" <=> cpc'[d] = "off"
      BY <1>1, <1>2, <2>1, <2>5, <2>6, <2>8 DEF Queued
    <3> QED
      BY <2>5, <2>7, <3>1 DEF Queued
  <2>10. \A x \in Executants :
           /\ epc'[x] = "accept" => on'[x] = NoOne
           /\ on'[x] = NoOne => epc'[x] \in {"accept", "dead"}
           /\ on'[x] # NoOne => conn'[on'[x]] = IF epc'[x] = "dead" THEN "closed" ELSE "open"
    <3> TAKE x \in Executants
    <3>1. CASE x = e
      BY <1>3, <2>8, <3>1
    <3>2. CASE x # e
      <4>1. on[x] # NoOne => on[x] \in Clients \ {c}
        BY <1>1, <2>6 DEF ExecTypes
      <4> QED
        BY <1>1, <1>3, <2>8, <3>2, <4>1 DEF Attending
    <3> QED
      BY <3>1, <3>2
  <2>11. \A x, y \in Executants : on'[x] = on'[y] /\ x # y => on'[x] = NoOne
    BY <1>1, <2>6, <2>8 DEF Attending
  <2>12. \A d \in Clients : conn'[d] = "open" => \E x \in Executants : on'[x] = d
    <3> SUFFICES ASSUME NEW d \in Clients, conn'[d] = "open"
                 PROVE  \E x \in Executants : on'[x] = d
      OBVIOUS
    <3>1. conn[d] = "open"
      BY <2>8
    <3>2. PICK x \in Executants : on[x] = d
      BY <1>1, <3>1 DEF Attending
    <3>3. x # e
      BY <1>2, <3>2, FTPAssumption
    <3> QED
      BY <2>8, <3>2, <3>3
  <2>13. Attending'
    BY <2>10, <2>11, <2>12 DEF Attending
  <2> QED
    BY <2>9, <2>13 DEF ConnInv
<1> QED
  BY <1>4, <1>5 DEF AcceptFails

(* One that is at its client's end goes on with it, ends, or closes the    *)
(* connection and accepts.                                                 *)
LEMMA ExecKeepsConn ==
  ASSUME ConnInv, TypeInv', NEW e \in Executants, cpc' = cpc, backlog' = backlog,
         NEW c \in Clients, on[e] = c, epc[e] \notin {"accept", "dead"},
         NEW at \in ExecPC, epc' = [epc EXCEPT ![e] = at],
         \/ at \notin {"accept", "dead"} /\ UNCHANGED <<on, conn>>
         \/ at = "dead" /\ on' = on /\ conn' = [conn EXCEPT ![c] = "closed"]
         \/ at = "accept" /\ on' = [on EXCEPT ![e] = NoOne]
            /\ conn' = [conn EXCEPT ![c] = "closed"]
  PROVE  ConnInv'
<1>1. ClientTypes /\ ExecTypes /\ NetTypes /\ Attending /\ Queued
  BY TypeParts DEF ConnInv
<1>2. conn[c] = "open" /\ \A x \in Executants \ {e} : on[x] # c
  BY <1>1, FTPAssumption DEF Attending
<1>3. /\ epc'[e] = at /\ conn'[c] = IF at \in {"accept", "dead"} THEN "closed" ELSE "open"
      /\ on'[e] = IF at = "accept" THEN NoOne ELSE c
      /\ \A x \in Executants \ {e} : epc'[x] = epc[x] /\ on'[x] = on[x]
      /\ \A d \in Clients \ {c} : conn'[d] = conn[d]
  BY <1>1, <1>2 DEF ExecTypes, NetTypes
<1>4. Queued'
  <2>1. \A d \in Clients : /\ conn'[d] = "queued" <=> conn[d] = "queued"
                           /\ conn'[d] = "none" <=> conn[d] = "none"
    BY <1>2, <1>3
  <2> QED
    BY <1>1, <2>1 DEF Queued
<1>5. Attending'
  <2>1. \A x \in Executants :
          /\ epc'[x] = "accept" => on'[x] = NoOne
          /\ on'[x] = NoOne => epc'[x] \in {"accept", "dead"}
          /\ on'[x] # NoOne => conn'[on'[x]] = IF epc'[x] = "dead" THEN "closed" ELSE "open"
    <3> TAKE x \in Executants
    <3>1. CASE x = e
      BY <1>3, <3>1, FTPAssumption
    <3>2. CASE x # e
      <4>1. on[x] # NoOne => on[x] \in Clients \ {c}
        BY <1>1, <1>2, <3>2 DEF ExecTypes
      <4> QED
        BY <1>1, <1>3, <3>2, <4>1 DEF Attending
    <3> QED
      BY <3>1, <3>2
  <2>2. \A x, y \in Executants : on'[x] = on'[y] /\ x # y => on'[x] = NoOne
    BY <1>1, <1>2, <1>3 DEF Attending
  <2>3. \A d \in Clients : conn'[d] = "open" => \E x \in Executants : on'[x] = d
    <3> SUFFICES ASSUME NEW d \in Clients, conn'[d] = "open"
                 PROVE  \E x \in Executants : on'[x] = d
      OBVIOUS
    <3>1. conn[d] = "open"
      BY <1>2, <1>3
    <3>2. PICK x \in Executants : on[x] = d
      BY <1>1, <3>1 DEF Attending
    <3>3. CASE x = e
      BY <1>3, <3>2, <3>3
    <3>4. CASE x # e
      BY <1>3, <3>2, <3>4
    <3> QED
      BY <3>3, <3>4
  <2> QED
    BY <2>1, <2>2, <2>3 DEF Attending
<1> QED
  BY <1>4, <1>5 DEF ConnInv

(* An executant leaves clients where they are.                              *)
LEMMA ExecLeavesClients ==
  ASSUME NEW e \in Executants, ExecStep(e)
  PROVE  UNCHANGED clientvars
<1>1. AcceptClient(e) \/ ExecTurn(e) \/ ExecReadLog(e) => UNCHANGED clientvars
  BY DEF AcceptClient, ExecTurn, ExecReadLog
<1>2. ServeRequest(e) => UNCHANGED clientvars
  BY Zenon DEF ServeRequest
<1>3. ReadBye(e) \/ ReadEnd(e) \/ SendFails(e) => UNCHANGED clientvars
  BY DEF ReadBye, ReadEnd, SendFails
<1>4. SendBlock(e) \/ SendEnds(e) \/ ExecRemoveLog(e) => UNCHANGED clientvars
  BY DEF SendBlock, SendEnds, ExecRemoveLog
<1> QED
  BY <1>1, <1>2, <1>3, <1>4 DEF ExecStep

LEMMA ExecStepKeepsConn ==
  ASSUME ConnInv, TypeInv', NEW e \in Executants, ExecStep(e)
  PROVE  ConnInv'
<1>1. ExecTypes /\ Attending
  BY TypeParts DEF ConnInv
<1>2. CASE AcceptClient(e)
  BY <1>2, AcceptAttends
<1>3. CASE ~ AcceptClient(e)
  <2>1. epc[e] \notin {"accept", "dead"} /\ cpc' = cpc
    <3>1. ServeRequest(e) => Waiting(e)
      BY Zenon DEF ServeRequest
    <3>2. ExecTurn(e) \/ ExecReadLog(e) => epc[e] \in {"top", "readlog"}
      BY DEF ExecTurn, ExecReadLog
    <3>3. ReadBye(e) \/ ReadEnd(e) => Waiting(e)
      BY DEF ReadBye, ReadEnd
    <3>4. SendBlock(e) \/ SendFails(e) \/ SendEnds(e) \/ ExecRemoveLog(e)
            => epc[e] \in {"send", "rmlog"}
      BY DEF SendBlock, SendFails, SendEnds, ExecRemoveLog
    <3>5. epc[e] \in {"top", "readlog", "readreq", "send", "rmlog"}
      BY <1>3, <3>1, <3>2, <3>3, <3>4 DEF ExecStep, Waiting
    <3> QED
      BY <3>5, ExecLeavesClients DEF clientvars
  <2>2. PICK c \in Clients : on[e] = c
    BY <1>1, <2>1 DEF Attending, ExecTypes
  <2>3. ASSUME NEW at \in ExecPC \ {"accept", "dead"}, Moves(e, at),
               UNCHANGED <<on, backlog, conn>>
        PROVE  ConnInv'
    BY <2>1, <2>2, <2>3, ExecKeepsConn DEF Moves
  <2>4. ASSUME Dies(e)
        PROVE  ConnInv'
    BY <2>1, <2>2, <2>4, ExecKeepsConn DEF Dies, Moves, ServerCloses, ExecPC
  <2>5. CASE ReadBye(e)
    BY <2>1, <2>2, <2>5, ExecKeepsConn DEF ReadBye, Moves, ExecPC
  <2>6. CASE ExecTurn(e) \/ SendEnds(e) \/ ExecRemoveLog(e)
    BY <2>3, <2>6 DEF ExecTurn, SendEnds, ExecRemoveLog, ExecPC, netvars
  <2>7. CASE ExecReadLog(e) \/ ReadEnd(e) \/ SendFails(e)
    BY <2>3, <2>4, <2>7 DEF ExecReadLog, ReadEnd, SendFails, ExecPC, netvars
  <2>8. CASE ServeRequest(e)
    <3>1. \/ DiesWriting(e)
          \/ (Moves(e, "send") \/ Moves(e, "top")) /\ UNCHANGED <<on, backlog, conn>>
      BY <2>8, Zenon DEF ServeRequest
    <3> QED
      BY <2>3, <2>4, <3>1 DEF DiesWriting, ExecPC
  <2>9. CASE SendBlock(e)
    <3>1. Dies(e) \/ UNCHANGED <<epc, on, backlog, conn>>
      BY <2>9 DEF SendBlock, DiesWriting, Writes
    <3> QED
      BY <2>1, <2>4, <3>1, NothingConnects
  <2> QED
    BY <1>3, <2>5, <2>6, <2>7, <2>8, <2>9 DEF ExecStep
<1> QED
  BY <1>2, <1>3

LEMMA ConnInit == Init => ConnInv
<1> SUFFICES ASSUME Init
             PROVE  ConnInv
  OBVIOUS
<1>1. Attending
  BY DEF Init, Attending
<1>2. Waits(backlog) = {} /\ EachOnce(backlog)
  BY DEF Init, Waits, EachOnce
<1>3. Queued
  BY <1>2 DEF Init, Queued
<1> QED
  BY <1>1, <1>3, TypeInit DEF ConnInv

LEMMA ConnStep == ConnInv /\ [Next]_vars => ConnInv'
<1> SUFFICES ASSUME ConnInv, [Next]_vars
             PROVE  ConnInv'
  OBVIOUS
<1>1. TypeInv'
  BY TypeStep DEF ConnInv
<1>2. ASSUME NEW c \in Clients,
             ClientStep(c) \/ UserStep(c) \/ Interrupt(c) \/ AskDirectory(c)
      PROVE  ConnInv'
  BY <1>1, <1>2, LaunchQueues, ClientKeepsConn, NothingConnects DEF UserStep
<1>3. ASSUME NEW e \in Executants, ExecStep(e) \/ AcceptFails(e)
      PROVE  ConnInv'
  BY <1>1, <1>3, ExecStepKeepsConn, FailureAttends
<1>4. CASE UNCHANGED vars
  BY <1>1, <1>4, NothingConnects DEF vars, clientvars, execvars, netvars
<1> QED
  BY <1>2, <1>3, <1>4 DEF Next, CalmNext

(* Whoever is interrupted when, and whatever .log makes executants do: an  *)
(* open connection has one executant at its end and no other, a completed  *)
(* one waits in the backlog once, and none is forgotten between them.      *)
THEOREM ConnectionsAreAttended == Spec => []OneExecutantEach
<1>1. ConnInv => OneExecutantEach
  <2> SUFFICES ASSUME ConnInv
               PROVE  OneExecutantEach
    OBVIOUS
  <2>1. ExecTypes /\ Attending /\ Queued
    BY TypeParts DEF ConnInv
  <2>2. \A c \in Clients : conn[c] = "queued" <=> \E k \in DOMAIN backlog : backlog[k] = c
    BY <2>1 DEF Queued, Waits
  <2>3. \A c \in Clients : conn[c] = "open" <=> \E e \in Executants : Serving(e, c)
    BY <2>1, FTPAssumption DEF Attending, Serving
  <2>4. \A c \in Clients : \A e, d \in Executants : Serving(e, c) /\ Serving(d, c) => e = d
    BY <2>1, FTPAssumption DEF Attending, Serving
  <2> QED
    BY <2>2, <2>3, <2>4 DEF OneExecutantEach
<1> QED
  BY <1>1, ConnInit, ConnStep, PTL DEF Spec

=============================================================================
