----------------------- MODULE BlockTransfer_proofs -----------------------
(***************************************************************************)
(* What is proved of BlockTransfer for every block size, every capacity of *)
(* the connection, every set of file sizes and every value the count of    *)
(* packets may hold when it was never set.                                 *)
(***************************************************************************)
EXTENDS BlockTransfer, SequenceTheorems, TLAPS

USE BlockAssumption DEF BlockAssumption

(* A whole number of blocks is a natural number of bytes.                  *)
LEMMA BlocksAreNat == \A p \in Nat : BUFFER_SIZE * p \in Nat
  BY SMT

(* Some bytes of the connection or of a buffer, moved to the end of        *)
(* another: the only way bytes travel in rio_readn and rio_writen.         *)
LEMMA TakeType ==
  ASSUME NEW s \in Seq(Nat), NEW b \in Seq(Nat), NEW k \in 1 .. Len(s)
  PROVE  /\ SubSeq(s, 1, k) \in Seq(Nat)
         /\ Len(SubSeq(s, 1, k)) = k
         /\ SubSeq(s, k + 1, Len(s)) \in Seq(Nat)
         /\ Len(SubSeq(s, k + 1, Len(s))) = Len(s) - k
         /\ b \o SubSeq(s, 1, k) \in Seq(Nat)
         /\ Len(b \o SubSeq(s, 1, k)) = Len(b) + k
         /\ \A i \in 1 .. Len(b) : (b \o SubSeq(s, 1, k))[i] = b[i]
         /\ \A i \in Len(b) + 1 .. Len(b) + k :
              (b \o SubSeq(s, 1, k))[i] = s[i - Len(b)]
         /\ \A i \in 1 .. Len(s) - k :
              SubSeq(s, k + 1, Len(s))[i] = s[k + i]
  BY SMTT(20)

LEMMA PutType ==
  ASSUME NEW s \in Seq(Nat), NEW b \in Seq(Nat), NEW d \in 0 .. Len(b),
         NEW k \in 1 .. Len(b) - d, NEW p, p = [i \in 1 .. k |-> b[d + i]]
  PROVE  /\ s \o p \in Seq(Nat)
         /\ Len(s \o p) = Len(s) + k
         /\ \A i \in 1 .. Len(s) : (s \o p)[i] = s[i]
         /\ \A i \in Len(s) + 1 .. Len(s) + k :
              (s \o p)[i] = b[d + i - Len(s)]
<1>1. \A i \in 1 .. k : b[d + i] \in Nat
  BY SMT
<1>2. p \in Seq(Nat) /\ Len(p) = k
  BY <1>1
<1>3. \A i \in 1 .. k : p[i] = b[d + i]
  OBVIOUS
<1>4. /\ s \o p \in Seq(Nat)
      /\ Len(s \o p) = Len(s) + k
      /\ \A i \in 1 .. Len(s) + k :
           (s \o p)[i] = IF i <= Len(s) THEN s[i] ELSE p[i - Len(s)]
  BY <1>2, ConcatProperties
<1>5. Len(s) \in Nat /\ Len(b) \in Nat
  OBVIOUS
<1>6. ASSUME NEW i \in Len(s) + 1 .. Len(s) + k
      PROVE  (s \o p)[i] = b[d + i - Len(s)]
  <2>1. i - Len(s) \in 1 .. k /\ i \in 1 .. Len(s) + k /\ ~ (i <= Len(s))
    BY <1>5
  <2>2. (s \o p)[i] = p[i - Len(s)]
    BY <1>4, <2>1
  <2>3. p[i - Len(s)] = b[d + (i - Len(s))]
    BY <1>3, <2>1
  <2>4. d + (i - Len(s)) = d + i - Len(s)
    BY <1>5
  <2> QED
    BY <2>2, <2>3, <2>4
<1> QED
  BY SMTT(20), <1>4, <1>5, <1>6

(* The last bytes of a buffer, handed to the connection k at a time.       *)
LEMMA AppendType ==
  ASSUME NEW s \in Seq(Nat), NEW b \in Seq(Nat), NEW left \in 0 .. Len(b),
         NEW k \in 1 .. left
  PROVE  /\ s \o [i \in 1 .. k |-> b[Len(b) - left + i]] \in Seq(Nat)
         /\ Len(s \o [i \in 1 .. k |-> b[Len(b) - left + i]]) = Len(s) + k
<1> DEFINE d == Len(b) - left
           p == [i \in 1 .. k |-> b[d + i]]
<1>1. d \in 0 .. Len(b) /\ k \in 1 .. Len(b) - d
  OBVIOUS
<1>2. p = [i \in 1 .. k |-> b[d + i]]
  OBVIOUS
<1> HIDE DEF p, d
<1>3. s \o p \in Seq(Nat) /\ Len(s \o p) = Len(s) + k
  BY SMTT(20), <1>1, <1>2, PutType
<1> QED
  BY <1>3 DEF p, d

(* Every variable keeps its type: buffers and the connection hold bytes,   *)
(* never more than the connection can hold, and positions are offsets.     *)
LEMMA TypeInit == Init => TypeOK
<1> SUFFICES ASSUME Init PROVE TypeOK
  OBVIOUS
<1> USE DEF Init
<1>1. filesize \in Nat
  OBVIOUS
<1>2. /\ << >> \in Seq(Nat)
      /\ Len(<< >>) = 0
  OBVIOUS
<1>3. /\ FillLog \in LogType
      /\ ZeroLog \in LogType
  BY DEF FillLog, ZeroLog, LogType
<1>4. dst \in [0 .. filesize - 1 -> Int]
  BY DEF NoBytes, Hole
<1>5. spc \in ServerPC /\ cpc \in ClientPC
  BY DEF ServerPC, ClientPC
<1>6. sbuf \in Seq(Nat) /\ sleft \in 0 .. Len(sbuf)
  BY <1>2
<1>7. sock \in Seq(Nat) /\ Len(sock) <= SockSize
  BY <1>2
<1>8. clog \in LogType /\ global_log \in LogType /\ logfile \in LogType
  BY <1>3
<1>9. /\ resumed \in BOOLEAN /\ logexists \in BOOLEAN
      /\ exact \in BOOLEAN /\ overtaken \in BOOLEAN
  OBVIOUS
<1>10. /\ filesize \in Sizes
       /\ sremaining \in Int /\ spos \in Nat
       /\ cremaining \in Int /\ cpaquets \in Int /\ cpos \in Nat
       /\ cbuf \in Seq(Nat)
  BY <1>1, <1>2
<1> QED
  BY <1>4, <1>5, <1>6, <1>7, <1>8, <1>9, <1>10, Zenon DEF TypeOK

(* So does a write, whole or short.                                        *)
LEMMA WrittenType ==
  ASSUME TypeOK, NEW k \in 1 .. sleft, Written(k)
  PROVE  /\ sleft' \in 0 .. Len(sbuf') /\ sbuf' \in Seq(Nat)
         /\ sremaining' \in Int /\ spos' \in Nat /\ spc' \in ServerPC
<1>1. sbuf' = sbuf /\ spos' = spos /\ sleft' = sleft - k
  BY DEF Written
<1>2. sremaining' \in Int /\ spc' \in ServerPC
  <2>1. CASE sleft = k
    BY <2>1 DEF Written, TypeOK, ServerPC, AfterSend
  <2>2. CASE sleft # k
    BY <2>2 DEF Written, TypeOK
  <2> QED
    BY <2>1, <2>2
<1> QED
  BY <1>1, <1>2 DEF TypeOK

(* Storing the buffer keeps the types of what it changes.                  *)
LEMMA StoreType ==
  ASSUME TypeOK, StoreBuffer, UNCHANGED filesize
  PROVE  /\ dst' \in [0 .. filesize' - 1 -> Int]
         /\ cpos' \in Nat /\ cremaining' \in Int /\ cpaquets' \in Int
         /\ cbuf' \in Seq(Nat)
<1>1. ASSUME NEW o \in 0 .. filesize - 1
      PROVE  (IF cpos <= o /\ o < cpos + Len(cbuf)
              THEN cbuf[o - cpos + 1] ELSE dst[o]) \in Int
  <2>1. CASE cpos <= o /\ o < cpos + Len(cbuf)
    <3>1. o - cpos + 1 \in 1 .. Len(cbuf)
      BY <2>1 DEF TypeOK
    <3> QED
      BY SMTT(20), <2>1, <3>1 DEF TypeOK
  <2> QED
    BY <2>1 DEF TypeOK
<1> QED
  BY <1>1 DEF StoreBuffer, TypeOK

LEMMA TypeStep == TypeOK /\ [Next]_vars => TypeOK'
<1> SUFFICES ASSUME TypeOK, [Next]_vars PROVE TypeOK'
  OBVIOUS
<1> USE DEF TypeOK, ServerPC, ClientPC, clientvars, servervars, diskvars,
            history
<1>1. CASE ServerReadBlock
  BY <1>1 DEF ServerReadBlock, Fill, Readable, Min2
<1>2. CASE ServerReadTail
  <2>1. CASE Readable(spos, sremaining) = 0
    BY <1>2, <2>1 DEF ServerReadTail, Fill, AfterSend
  <2>2. CASE Readable(spos, sremaining) > 0
    <3> DEFINE n == Readable(spos, sremaining)
    <3>1. n \in Nat \ {0}
      BY <2>2 DEF Readable, Min2
    <3>2. Fill(n, "tailwrite")
      BY <1>2, <2>2 DEF ServerReadTail
    <3> HIDE DEF n
    <3>3. /\ sleft' \in 0 .. Len(sbuf') /\ sbuf' \in Seq(Nat)
          /\ spos' \in Nat /\ spc' \in ServerPC
      BY <3>1, <3>2 DEF Fill
    <3> QED
      BY <1>2, <3>3 DEF ServerReadTail
  <2> QED
    BY <1>2, <2>1, <2>2 DEF ServerReadTail
<1>3. CASE ServerWrite
  <2>1. PICK k \in 1 .. Min2(sleft, SockSize - Len(sock)) :
          /\ sock' = sock \o [i \in 1 .. k |-> sbuf[Len(sbuf) - sleft + i]]
          /\ Written(k)
    BY <1>3 DEF ServerWrite
  <2>2. k \in 1 .. sleft /\ Len(sock) + k <= SockSize
    BY DEF Min2
  <2>3. sock' \in Seq(Nat) /\ Len(sock') <= SockSize
    <3>1. /\ sock \in Seq(Nat) /\ sbuf \in Seq(Nat)
          /\ sleft \in 0 .. Len(sbuf) /\ k \in 1 .. sleft
      BY <2>2
    <3>2. /\ sock \o [i \in 1 .. k |-> sbuf[Len(sbuf) - sleft + i]] \in Seq(Nat)
          /\ Len(sock \o [i \in 1 .. k |-> sbuf[Len(sbuf) - sleft + i]])
               = Len(sock) + k
      BY ONLY <3>1, AppendType, Zenon
    <3> QED
      BY <2>1, <2>2, <3>2, Zenon
  <2>4. /\ sleft' \in 0 .. Len(sbuf') /\ sbuf' \in Seq(Nat)
        /\ sremaining' \in Int /\ spos' \in Nat /\ spc' \in ServerPC
    BY <2>1, <2>2, WrittenType
  <2> QED
    BY <1>3, <2>3, <2>4 DEF ServerWrite
<1>4. CASE ServerWriteToClosed
  <2>1. CASE spc' = "gone" /\ UNCHANGED <<sremaining, spos, sbuf, sleft>>
    BY <1>4, <2>1 DEF ServerWriteToClosed
  <2>2. ASSUME NEW k \in 1 .. sleft, Written(k)
        PROVE  /\ sleft' \in 0 .. Len(sbuf') /\ sbuf' \in Seq(Nat)
               /\ sremaining' \in Int /\ spos' \in Nat /\ spc' \in ServerPC
    BY <2>2, WrittenType
  <2> QED
    BY <1>4, <2>1, <2>2 DEF ServerWriteToClosed
<1>5. CASE ServerRemoveLog
  BY <1>5 DEF ServerRemoveLog
<1>6. CASE ServerStop \/ ServerReadFails
  BY <1>6 DEF ServerStop, ServerReadFails
<1>7. CASE ClientNextBlock
  BY <1>7 DEF ClientNextBlock
<1>8. CASE ClientLeaveLoop
  BY <1>8 DEF ClientLeaveLoop
<1>9. CASE ClientRead
  <2>1. PICK k \in 1 .. Min2(Wanted, Len(sock)) :
          /\ cbuf' = cbuf \o SubSeq(sock, 1, k)
          /\ sock' = SubSeq(sock, k + 1, Len(sock))
    BY <1>9 DEF ClientRead
  <2>2. k \in 1 .. Len(sock)
    BY DEF Min2, Wanted
  <2>3. /\ cbuf' \in Seq(Nat)
        /\ sock' \in Seq(Nat) /\ Len(sock') <= SockSize
    <3>1. sock \in Seq(Nat) /\ cbuf \in Seq(Nat) /\ Len(sock) <= SockSize
      OBVIOUS
    <3>2. /\ cbuf' \in Seq(Nat)
          /\ sock' \in Seq(Nat) /\ Len(sock') = Len(sock) - k
      BY ONLY <2>1, <2>2, <3>1, TakeType
    <3>3. k \in Nat /\ Len(sock) \in Nat /\ SockSize \in Nat
      BY <2>2, <3>1
    <3> QED
      BY ONLY <3>1, <3>2, <3>3
  <2> QED
    BY <1>9, <2>3 DEF ClientRead
<1>10. CASE ClientStoreBlock
  <2>1. CASE cbuf # << >>
    <3>1. StoreBuffer
      BY <1>10, <2>1 DEF ClientStoreBlock
    <3>2. clog' \in LogType
      <4>1. clog' = CountLog(cpaquets + 1)
        BY <1>10, <2>1, Zenon DEF ClientStoreBlock
      <4> QED
        BY <4>1 DEF CountLog, LogType
    <3>3. exact' \in BOOLEAN
      BY <1>10, <2>1, Zenon DEF ClientStoreBlock
    <3> QED
      BY <1>10, <3>1, <3>2, <3>3, StoreType DEF ClientStoreBlock
  <2>2. CASE cbuf = << >>
    BY <1>10, <2>2 DEF ClientStoreBlock
  <2> QED
    BY <2>1, <2>2
<1>11. CASE ClientStoreTail
  <2>1. CASE cbuf # << >>
    <3>1. StoreBuffer
      BY <1>11, <2>1 DEF ClientStoreTail
    <3> QED
      BY <1>11, <3>1, StoreType DEF ClientStoreTail, AfterReceive
  <2>2. CASE cbuf = << >>
    BY <1>11, <2>2 DEF ClientStoreTail, AfterReceive
  <2> QED
    BY <2>1, <2>2
<1>12. CASE ClientRemoveLog
  BY <1>12 DEF ClientRemoveLog
<1>13. CASE Interrupt
  <2>1. CASE cpc' = "saving" /\ UNCHANGED sock
    BY <1>13, <2>1 DEF Interrupt
  <2>2. CASE cpc' = "dead" /\ sock' = << >>
    BY <1>13, <2>2 DEF Interrupt
  <2> QED
    BY <1>13, <2>1, <2>2 DEF Interrupt
<1>14. CASE SaveLog
  BY <1>14, Zenon DEF SaveLog
<1>15. CASE CloseSocket \/ ClientReadFails \/ Leave
  <2>1. cpc' \in ClientPC /\ sock' = << >>
    BY <1>15 DEF CloseSocket, ClientReadFails, Leave
  <2>2. /\ UNCHANGED <<filesize, servervars, cremaining, cpaquets, cpos, cbuf,
                       clog, global_log, resumed, diskvars, history>>
    BY <1>15 DEF CloseSocket, ClientReadFails, Leave
  <2> QED
    BY <2>1, <2>2
<1>16. CASE Resume
  BY <1>16 DEF Resume, NewProcesses, Restart, StartAt, StartFrom, CountLog,
     LogType, ZeroLog
<1>17. CASE GetAgain
  <2>1. dst' \in [0 .. filesize' - 1 -> Int] /\ sremaining' \in Int
    BY <1>17 DEF GetAgain, NoBytes, Hole
  <2>2. clog' \in LogType /\ global_log' \in LogType
    <3>1. FillLog \in LogType /\ ZeroLog \in LogType
      BY DEF FillLog, ZeroLog, LogType
    <3>2. clog' = FillLog /\ global_log' \in {ZeroLog, global_log}
      BY <1>17, Zenon DEF GetAgain, NewProcesses, SameProcesses
    <3> QED
      BY <3>1, <3>2
  <2>3. Restart
    BY <1>17 DEF GetAgain, NewProcesses, SameProcesses
  <2>4. /\ sbuf' \in Seq(Nat) /\ sleft' \in 0 .. Len(sbuf')
        /\ sock' \in Seq(Nat) /\ Len(sock') <= SockSize
        /\ cbuf' \in Seq(Nat) /\ spc' \in ServerPC /\ cpc' \in ClientPC
    BY <2>3 DEF Restart
  <2>5. exact' \in BOOLEAN /\ overtaken' \in BOOLEAN /\ resumed' \in BOOLEAN
    BY <1>17, Zenon DEF GetAgain
  <2> QED
    BY <1>17, <2>1, <2>2, <2>4, <2>5 DEF GetAgain
<1>18. CASE UNCHANGED vars
  BY <1>18 DEF vars
<1> QED
  BY <1>1, <1>2, <1>3, <1>4, <1>5, <1>6, <1>7, <1>8, <1>9, <1>10, <1>11,
     <1>12, <1>13, <1>14, <1>15, <1>16, <1>17, <1>18 DEF Next, Server, Client

(* The variables of the two processes and of the client's disk keep their  *)
(* types, for every file, block size and pipe capacity: no offset or count *)
(* that clientFTP.c or serverFTP.c computes becomes negative.              *)
THEOREM TypeCorrect == Spec => []TypeOK
  BY TypeInit, TypeStep, PTL DEF Spec

-----------------------------------------------------------------------------
(***************************************************************************)
(* The bytes.  StreamInStep alone is not inductive: that the connection    *)
(* receives the right bytes next depends on what the executant has in its  *)
(* buffer, which ServerInStep says.                                        *)
(***************************************************************************)

LEMMA StreamInit == Init => StreamInv
  BY DEF Init, StreamInv, ServerInStep, StreamInStep, NoMisplacedByte,
         Received, NoBytes, Hole

(* Storing a buffer in step with the file puts its bytes where they belong *)
(* and leaves the client in step with the connection.                      *)
LEMMA StoreInStep ==
  ASSUME TypeOK, StreamInStep, NoMisplacedByte, StoreBuffer, ~ Closed, ~ Closed',
         UNCHANGED <<filesize, sock, spc, spos, sleft>>
  PROVE  StreamInStep' /\ NoMisplacedByte'
<1>1. \A i \in 1 .. Len(cbuf) : cbuf[i] = cpos + i - 1
  BY DEF StreamInStep
<1>2. cbuf' = << >> /\ cpos' = cpos + Len(cbuf) /\ Len(cbuf') = 0
  BY DEF StoreBuffer
<1>3. StreamInStep'
  BY <1>2 DEF StreamInStep, Received, TypeOK
<1>4. ASSUME NEW o \in 0 .. filesize - 1
      PROVE  dst'[o] \in {Hole, o}
  <2>1. CASE cpos <= o /\ o < cpos + Len(cbuf)
    <3>1. o - cpos + 1 \in 1 .. Len(cbuf)
      BY <2>1 DEF TypeOK
    <3>2. cbuf[o - cpos + 1] = cpos + (o - cpos + 1) - 1
      BY <1>1, <3>1
    <3>3. cpos + (o - cpos + 1) - 1 = o
      BY DEF TypeOK
    <3> QED
      BY <2>1, <3>2, <3>3 DEF StoreBuffer
  <2>2. CASE ~ (cpos <= o /\ o < cpos + Len(cbuf))
    BY <2>2 DEF StoreBuffer, NoMisplacedByte
  <2> QED
    BY <2>1, <2>2
<1> QED
  BY <1>3, <1>4 DEF NoMisplacedByte

(* Reading a block keeps the buffer in step with the descriptor.           *)
LEMMA FillInStep ==
  ASSUME TypeOK, NEW n \in Nat \ {0}, NEW at, Fill(n, at), at # "head",
         spc = "head", StreamInv, at # "gone",
         UNCHANGED <<filesize, sock, cpc, cpos, cbuf, dst>>
  PROVE  StreamInv'
<1>1. /\ \A i \in 1 .. n : sbuf'[i] = spos + i - 1
      /\ Len(sbuf') = n /\ sleft' = n /\ spos' = spos + n /\ spc' = at
  BY DEF Fill
<1>2. ServerInStep'
  BY <1>1 DEF ServerInStep, TypeOK
<1>3. StreamInStep'
  BY <1>1 DEF StreamInv, ServerInStep, StreamInStep, Received, Closed, TypeOK
<1>4. NoMisplacedByte'
  BY DEF StreamInv, NoMisplacedByte
<1> QED
  BY <1>2, <1>3, <1>4 DEF StreamInv

LEMMA StreamStep == TypeOK /\ StreamInv /\ [Next]_vars => StreamInv'
<1> SUFFICES ASSUME TypeOK, StreamInv, [Next]_vars PROVE StreamInv'
  OBVIOUS
<1> USE DEF clientvars, servervars, diskvars, history
<1>1. CASE ServerReadBlock
  <2> DEFINE n == Readable(spos, BUFFER_SIZE)
  <2>1. n \in Nat \ {0}
    BY <1>1 DEF ServerReadBlock, Readable, Min2, TypeOK
  <2> HIDE DEF n
  <2> QED
    BY <1>1, <2>1, FillInStep DEF ServerReadBlock, n
<1>2. CASE ServerReadTail
  <2>1. CASE Readable(spos, sremaining) = 0
    BY <1>2, <2>1 DEF ServerReadTail, Fill, AfterSend, StreamInv,
       ServerInStep, StreamInStep, NoMisplacedByte, Received, Closed
  <2>2. CASE Readable(spos, sremaining) > 0
    <3> DEFINE n == Readable(spos, sremaining)
    <3>1. n \in Nat \ {0}
      BY <2>2 DEF Readable, Min2, TypeOK
    <3> HIDE DEF n
    <3> QED
      BY <1>2, <2>2, <3>1, FillInStep DEF ServerReadTail, n
  <2> QED
    BY <1>2, <2>1, <2>2 DEF ServerReadTail
<1>3. CASE ServerWrite
  <2>1. PICK k \in 1 .. Min2(sleft, SockSize - Len(sock)) :
          /\ sock' = sock \o [i \in 1 .. k |-> sbuf[Len(sbuf) - sleft + i]]
          /\ Written(k)
    BY <1>3 DEF ServerWrite
  <2>2. k \in 1 .. sleft
    BY DEF Min2, TypeOK
  <2> DEFINE d == Len(sbuf) - sleft
             p == [i \in 1 .. k |-> sbuf[d + i]]
  <2>3. d \in 0 .. Len(sbuf) /\ k \in 1 .. Len(sbuf) - d
    BY <2>2 DEF TypeOK
  <2>4. /\ Len(sock') = Len(sock) + k
        /\ \A i \in 1 .. Len(sock) : sock'[i] = sock[i]
        /\ \A i \in Len(sock) + 1 .. Len(sock) + k :
             sock'[i] = sbuf[d + i - Len(sock)]
    <3>1. sock \in Seq(Nat) /\ sbuf \in Seq(Nat)
      BY DEF TypeOK
    <3>2. p = [i \in 1 .. k |-> sbuf[d + i]] /\ sock' = sock \o p
      BY <2>1
    <3> HIDE DEF p, d
    <3> QED
      BY ONLY SMTT(20), <2>3, <3>1, <3>2, PutType
  <2>5. /\ sbuf' = sbuf /\ spos' = spos /\ sleft' = sleft - k
        /\ spc' = "head" => sleft' = 0
        /\ spc # "gone" /\ spc # "head"
    BY SMTT(20), <1>3, <2>1, <2>2 DEF Written, ServerWrite, TypeOK
  <2>6. ServerInStep'
    BY <2>5 DEF StreamInv, ServerInStep
  <2>7. UNCHANGED <<filesize, cpc, cpos, cbuf, dst>> /\ ~ Closed
    BY <1>3 DEF ServerWrite
  <2>8. Received + Len(sock) = spos - sleft
    BY <2>5, <2>7 DEF StreamInv, StreamInStep
  <2>9. ASSUME NEW i \in 1 .. Len(sock')
        PROVE  sock'[i] = Received + i - 1
    <3>1. CASE i \in 1 .. Len(sock)
      BY <2>4, <2>7, <3>1 DEF StreamInv, StreamInStep
    <3>2. CASE i \in Len(sock) + 1 .. Len(sock) + k
      <4>1. d + i - Len(sock) \in 1 .. Len(sbuf)
        <5>1. Len(sock) \in Nat /\ Len(sbuf) \in Nat
          BY DEF TypeOK
        <5> HIDE DEF p, d
        <5> QED
          BY ONLY <2>3, <3>2, <5>1
      <4>2. sock'[i] = spos - Len(sbuf) + (d + i - Len(sock)) - 1
        BY <2>4, <3>2, <4>1 DEF StreamInv, ServerInStep
      <4>3. /\ Received \in Int /\ Len(sock) \in Int /\ i \in Int
            /\ spos \in Int /\ sleft \in Int /\ Len(sbuf) \in Int
        BY DEF TypeOK, Received
      <4>4. spos - Len(sbuf) + (d + i - Len(sock)) - 1 = Received + i - 1
        BY <2>8, <4>3
      <4> QED
        BY <4>2, <4>4
    <3> QED
      BY <2>4, <3>1, <3>2 DEF TypeOK
  <2>10. StreamInStep'
    <3>1. Received' = Received /\ Received \in Int
      BY <2>7 DEF Received, TypeOK
    <3>2. \A i \in 1 .. Len(cbuf') : cbuf'[i] = cpos' + i - 1
      BY <2>7 DEF StreamInv, StreamInStep
    <3>3. Received' + Len(sock') = spos' - sleft'
      <4>1. /\ Len(sock) \in Int /\ sleft \in Int /\ spos \in Int
            /\ k \in Int
        BY DEF TypeOK
      <4> HIDE DEF p, d
      <4> QED
        BY <2>4, <2>5, <2>8, <3>1, <4>1
    <3> QED
      BY <2>9, <3>1, <3>2, <3>3 DEF StreamInStep
  <2>11. NoMisplacedByte'
    BY <2>7 DEF StreamInv, NoMisplacedByte
  <2> QED
    BY <2>6, <2>10, <2>11 DEF StreamInv
<1>4. CASE ServerWriteToClosed
  <2>1. /\ sbuf' = sbuf /\ spos' = spos
        /\ spc' = "head" => sleft' = 0
    <3>1. ASSUME NEW k \in 1 .. sleft, Written(k)
          PROVE  /\ sbuf' = sbuf /\ spos' = spos
                 /\ spc' = "head" => sleft' = 0
      BY <1>4, <3>1 DEF ServerWriteToClosed, Written, TypeOK
    <3> QED
      BY <1>4, <3>1 DEF ServerWriteToClosed
  <2> QED
    BY <1>4, <2>1 DEF ServerWriteToClosed, StreamInv, ServerInStep,
       StreamInStep, NoMisplacedByte, Closed
<1>5. CASE ServerRemoveLog
  BY <1>5 DEF ServerRemoveLog, StreamInv, ServerInStep, StreamInStep,
     NoMisplacedByte, Received, Closed
<1>6. CASE ServerStop \/ ServerReadFails
  BY <1>6 DEF ServerStop, ServerReadFails, StreamInv, ServerInStep,
     StreamInStep, NoMisplacedByte, Received, Closed
<1>7. CASE ClientNextBlock \/ ClientLeaveLoop \/ ClientRemoveLog \/ SaveLog
  BY <1>7 DEF ClientNextBlock, ClientLeaveLoop, ClientRemoveLog, SaveLog,
     StreamInv, ServerInStep, StreamInStep, NoMisplacedByte, Received, Closed
<1>8. CASE ClientRead
  <2>1. PICK k \in 1 .. Min2(Wanted, Len(sock)) :
          /\ cbuf' = cbuf \o SubSeq(sock, 1, k)
          /\ sock' = SubSeq(sock, k + 1, Len(sock))
    BY <1>8 DEF ClientRead
  <2>2. k \in 1 .. Len(sock)
    BY DEF Min2, Wanted, TypeOK
  <2>3. /\ Len(cbuf') = Len(cbuf) + k
        /\ \A i \in 1 .. Len(cbuf) : cbuf'[i] = cbuf[i]
        /\ \A i \in Len(cbuf) + 1 .. Len(cbuf) + k :
             cbuf'[i] = sock[i - Len(cbuf)]
        /\ Len(sock') = Len(sock) - k
        /\ \A i \in 1 .. Len(sock) - k : sock'[i] = sock[k + i]
    <3>1. sock \in Seq(Nat) /\ cbuf \in Seq(Nat)
      BY DEF TypeOK
    <3> QED
      BY <2>1, <2>2, <3>1, TakeType
  <2>4. UNCHANGED <<filesize, cpc, cpos, dst, spc, spos, sbuf, sleft>>
        /\ ~ Closed
    BY <1>8 DEF ClientRead, Closed
  <2>5. ASSUME NEW i \in 1 .. Len(cbuf')
        PROVE  cbuf'[i] = cpos + i - 1
    <3>1. CASE i \in 1 .. Len(cbuf)
      BY <2>3, <2>4, <3>1 DEF StreamInv, StreamInStep
    <3>2. CASE i \in Len(cbuf) + 1 .. Len(cbuf) + k
      <4>1. i - Len(cbuf) \in 1 .. Len(sock)
        BY <2>2, <3>2 DEF TypeOK
      <4>2. sock[i - Len(cbuf)] = Received + (i - Len(cbuf)) - 1
        BY <2>4, <4>1 DEF StreamInv, StreamInStep
      <4>3. cbuf'[i] = sock[i - Len(cbuf)]
        BY <2>3, <3>2
      <4>4. cpos \in Int /\ Len(cbuf) \in Int /\ i \in Int
        BY DEF TypeOK
      <4> QED
        BY <4>2, <4>3, <4>4 DEF Received
    <3> QED
      BY <2>3, <3>1, <3>2 DEF TypeOK
  <2>6. ASSUME NEW i \in 1 .. Len(sock')
        PROVE  sock'[i] = cpos + Len(cbuf') + i - 1
    <3>1. k + i \in 1 .. Len(sock) /\ i \in 1 .. Len(sock) - k
      BY <2>2, <2>3 DEF TypeOK
    <3>2. sock[k + i] = Received + (k + i) - 1
      BY <2>4, <3>1 DEF StreamInv, StreamInStep
    <3> QED
      BY <2>3, <3>1, <3>2 DEF Received, TypeOK
  <2>7. StreamInStep'
    <3>1. /\ cpos \in Int /\ Len(cbuf) \in Int /\ Len(sock) \in Int
          /\ Len(cbuf') = Len(cbuf) + k /\ Len(sock') = Len(sock) - k
          /\ cpos' = cpos /\ k \in Int
      BY <2>2, <2>3, <2>4 DEF TypeOK
    <3>2. spc # "gone" => Received' + Len(sock') = spos' - sleft'
      BY <2>4, <3>1 DEF StreamInv, StreamInStep, Received
    <3> QED
      BY <2>4, <2>5, <2>6, <3>1, <3>2 DEF StreamInStep, Received
  <2> QED
    BY <2>4, <2>7 DEF StreamInv, ServerInStep, NoMisplacedByte
<1>9. CASE ClientStoreBlock \/ ClientStoreTail
  <2>1. /\ UNCHANGED <<filesize, sock, spc, spos, sbuf, sleft>>
        /\ ~ Closed /\ ~ Closed'
    BY <1>9 DEF ClientStoreBlock, ClientStoreTail, AfterReceive, Closed
  <2>2. ServerInStep'
    BY <2>1 DEF StreamInv, ServerInStep
  <2>3. CASE cbuf # << >>
    <3>1. StoreBuffer
      BY <1>9, <2>3 DEF ClientStoreBlock, ClientStoreTail
    <3> QED
      BY <2>1, <2>2, <3>1, StoreInStep DEF StreamInv
  <2>4. CASE cbuf = << >>
    BY <1>9, <2>1, <2>2, <2>4 DEF ClientStoreBlock, ClientStoreTail,
       StreamInv, StreamInStep, NoMisplacedByte, Received
  <2> QED
    BY <2>3, <2>4
<1>10. CASE Interrupt \/ CloseSocket \/ ClientReadFails \/ Leave
  BY <1>10 DEF Interrupt, CloseSocket, ClientReadFails, Leave, StreamInv,
     ServerInStep, StreamInStep, NoMisplacedByte, Received, Closed
<1>11. CASE Resume \/ GetAgain
  <2>1. /\ spos' = cpos' /\ sleft' = 0 /\ Len(sbuf') = 0 /\ Len(cbuf') = 0
        /\ Len(sock') = 0 /\ cpos' \in Nat /\ filesize' = filesize
    <3>1. Restart /\ filesize' = filesize
      BY <1>11 DEF Resume, GetAgain, NewProcesses, SameProcesses
    <3>2. spos' = cpos' /\ cpos' \in Nat
      <4>1. CASE GetAgain
        BY <4>1 DEF GetAgain
      <4>2. CASE Resume
        <5>1. PICK p \in Int : StartAt(p)
          BY <4>2 DEF Resume, TypeOK, LogType
        <5>2. cpos' = (IF p < 0 THEN 0 ELSE BUFFER_SIZE * p) /\ spos' = cpos'
          BY <5>1 DEF StartAt, StartFrom
        <5> QED
          BY <5>2, BlocksAreNat
      <4> QED
        BY <1>11, <4>1, <4>2
    <3> QED
      BY <3>1, <3>2 DEF Restart
  <2>2. NoMisplacedByte'
    BY <1>11 DEF Resume, GetAgain, StreamInv, NoMisplacedByte, NoBytes, Hole
  <2> QED
    BY <2>1, <2>2 DEF StreamInv, ServerInStep, StreamInStep, Received
<1>12. CASE UNCHANGED vars
  BY <1>12 DEF vars, StreamInv, ServerInStep, StreamInStep, NoMisplacedByte,
     Received, Closed
<1> QED
  BY <1>1, <1>2, <1>3, <1>4, <1>5, <1>6, <1>7, <1>8, <1>9, <1>10, <1>11,
     <1>12 DEF Next, Server, Client

(* Between two live processes the bytes in flight are the ones between the *)
(* two positions, whatever the interruptions and resumptions before.       *)
THEOREM StreamStaysInStep == Spec => []StreamInStep
<1>1. TypeOK /\ StreamInv /\ [Next]_vars => (TypeOK /\ StreamInv)'
  BY TypeStep, StreamStep
<1>2. StreamInv => StreamInStep
  BY DEF StreamInv
<1> QED
  BY TypeInit, StreamInit, <1>1, <1>2, PTL DEF Spec

(* No byte of the served file is ever stored at the place of another.      *)
THEOREM BytesInPlace == Spec => []NoMisplacedByte
<1>1. TypeOK /\ StreamInv /\ [Next]_vars => (TypeOK /\ StreamInv)'
  BY TypeStep, StreamStep
<1>2. StreamInv => NoMisplacedByte
  BY DEF StreamInv
<1> QED
  BY TypeInit, StreamInit, <1>1, <1>2, PTL DEF Spec

-----------------------------------------------------------------------------
(***************************************************************************)
(* The resume point.  LogHonest needs the counts of the running process to *)
(* agree with its position (CountsAgree), because global_log is a copy of  *)
(* log and .log a copy of global_log, and it needs to know which of the    *)
(* three are of this copy of the file (Stale, overtaken); ReworkBounded    *)
(* needs the lag of global_log, which the next process turns into the      *)
(* bytes of its own file that it will write again.                         *)
(***************************************************************************)

LEMMA Blocks ==
  /\ \A p \in Int : /\ BUFFER_SIZE * p \in Int
                    /\ BUFFER_SIZE * (p + 1) = BUFFER_SIZE * p + BUFFER_SIZE
                    /\ BUFFER_SIZE * (p + 2)
                         = BUFFER_SIZE * p + BUFFER_SIZE + BUFFER_SIZE
  /\ BUFFER_SIZE * 0 = 0
  BY SMT

LEMMA BlocksMonotone ==
  ASSUME NEW p \in Int, NEW q \in Int, p <= q
  PROVE  BUFFER_SIZE * p <= BUFFER_SIZE * q
  BY SMT

LEMMA CopyInit == Init => CopyInv
<1> SUFFICES ASSUME Init PROVE CopyInv
  OBVIOUS
<1>1. StreamInv
  BY StreamInit
<1>2. BufferBounded
  BY DEF Init, BufferBounded
<1>3. CountsAgree
  BY Blocks DEF Init, CountsAgree, Copied, FillLog, NoBytes, Hole
<1>4. LogsAgree
  BY DEF Init, LogsAgree, PointsInto, LagsByTwo, Backed, Usable, ZeroLog
<1>5. LogAway
  BY DEF Init, LogAway
<1> QED
  BY <1>1, <1>2, <1>3, <1>4, <1>5 DEF CopyInv

(* The log away from a client that prompts: only one that was started from *)
(* it has one, and removes it before it prompts.                           *)
LEMMA AwayStep ==
  ASSUME TypeOK, LogAway, [Next]_vars
  PROVE  LogAway'
<1> USE DEF clientvars, servervars, diskvars, history, LogAway, Closed
<1>1. CASE Server \/ ServerStop \/ UNCHANGED vars
  <2>1. UNCHANGED <<cpc, resumed>> /\ (logexists' => logexists)
    BY <1>1 DEF Server, ServerReadBlock, ServerReadTail, ServerReadFails,
       ServerWrite, ServerWriteToClosed, ServerRemoveLog, ServerStop, vars,
       TypeOK
  <2> QED
    BY <2>1
<1>2. CASE ClientNextBlock \/ ClientLeaveLoop \/ ClientRead \/ ClientReadFails
  BY <1>2 DEF ClientNextBlock, ClientLeaveLoop, ClientRead, ClientReadFails
<1>3. CASE ClientStoreBlock \/ ClientStoreTail
  BY <1>3 DEF ClientStoreBlock, ClientStoreTail, AfterReceive
<1>4. CASE ClientRemoveLog \/ SaveLog \/ CloseSocket \/ Leave
  BY <1>4 DEF ClientRemoveLog, SaveLog, CloseSocket, Leave
<1>5. CASE Interrupt
  BY <1>5 DEF Interrupt
<1>6. CASE Resume \/ GetAgain
  BY <1>6 DEF Resume, GetAgain, NewProcesses, SameProcesses, Restart
<1> QED
  BY <1>1, <1>2, <1>3, <1>4, <1>5, <1>6 DEF Next, Client

(* What the executant does leaves the three parts alone: it can only       *)
(* remove .log.                                                            *)
LEMMA ServerCopyStep ==
  ASSUME BufferBounded, CountsAgree, LogsAgree,
         UNCHANGED <<filesize, clientvars, dst, logfile, history>>,
         logexists' => logexists
  PROVE  BufferBounded' /\ CountsAgree' /\ LogsAgree'
<1> USE DEF clientvars, history
<1>1. BufferBounded'
  BY DEF BufferBounded, MoreThanABlock
<1>2. CountsAgree'
  BY DEF CountsAgree, Copied, Receiving
<1>3. LogsAgree'
  BY DEF LogsAgree, PointsInto, LagsByTwo, Backed, Usable, Stale, Copied,
     Receiving, Closed
<1> QED
  BY <1>1, <1>2, <1>3

(* So does a client that has left its loops, but for the log it saves.     *)
LEMMA LeftCopyStep ==
  ASSUME CountsAgree, LogsAgree,
         UNCHANGED <<filesize, cremaining, cpaquets, cpos, clog, global_log,
                     dst, exact>>,
         cpc' \notin {"head", "read", "tailread"},
         \/ /\ overtaken' = (overtaken \/ Stale)
            /\ logfile' = global_log
         \/ /\ overtaken' = overtaken
            /\ logexists' => logexists /\ logfile' = logfile
            /\ exact /\ logexists' /\ (cpc' = "closing" \/ Closed')
                 => cpc = "closing" \/ Closed
  PROVE  BufferBounded' /\ CountsAgree' /\ LogsAgree'
<1>1. BufferBounded'
  BY DEF BufferBounded
<1>2. CountsAgree'
  BY DEF CountsAgree, Copied, Receiving
<1>3. SUFFICES ASSUME exact PROVE LogsAgree'
  BY <1>1, <1>2 DEF LogsAgree
<1>4. PointsInto(global_log)' /\ LagsByTwo(global_log)'
  BY <1>3 DEF LogsAgree, PointsInto, LagsByTwo, Usable
<1>5. ~ overtaken' /\ ~ Stale' => Backed(global_log)'
  BY <1>3 DEF LogsAgree, Backed, Copied, Usable, Stale
<1>6. CASE overtaken' = (overtaken \/ Stale) /\ logfile' = global_log
  <2>1. PointsInto(logfile)' /\ LagsByTwo(logfile)'
    BY <1>3, <1>6 DEF LogsAgree, PointsInto, LagsByTwo, Usable
  <2>2. ~ overtaken' => Backed(logfile)'
    BY <1>3, <1>6 DEF LogsAgree, Backed, Copied, Usable
  <2> QED
    BY <1>4, <1>5, <2>1, <2>2 DEF LogsAgree, Receiving
<1>7. CASE /\ overtaken' = overtaken
           /\ logexists' => logexists /\ logfile' = logfile
           /\ logexists' /\ (cpc' = "closing" \/ Closed')
                => cpc = "closing" \/ Closed
  <2>1. ASSUME logexists'
        PROVE  PointsInto(logfile)' /\ (~ overtaken' => Backed(logfile)')
    BY <1>3, <1>7, <2>1 DEF LogsAgree, PointsInto, Backed, Copied, Usable
  <2>2. ASSUME logexists', cpc' = "closing" \/ Closed'
        PROVE  LagsByTwo(logfile)'
    BY <1>3, <1>7, <2>2 DEF LogsAgree, LagsByTwo, Usable
  <2> QED
    BY <1>4, <1>5, <2>1, <2>2 DEF LogsAgree, Receiving
<1> QED
  BY <1>3, <1>6, <1>7

(* Storing a buffer extends what is copied up to the new position, loses   *)
(* nothing and touches nothing beyond.                                     *)
LEMMA StoreCopies ==
  ASSUME TypeOK, StreamInStep, StoreBuffer, ~ Closed, filesize' = filesize
  PROVE  /\ \A n \in Int : Copied(n) => Copied(n)'
         /\ Copied(cpos) => Copied(cpos)'
         /\ \A o \in 0 .. filesize - 1 :
              o >= cpos + Len(cbuf) => dst'[o] = dst[o]
<1>1. /\ cpos \in Nat /\ Len(cbuf) \in Nat /\ filesize \in Nat
      /\ cpos' = cpos + Len(cbuf)
  BY DEF TypeOK, StoreBuffer
<1>2. ASSUME NEW o \in 0 .. filesize - 1, cpos <= o, o < cpos + Len(cbuf)
      PROVE  dst'[o] = o
  <2>1. o - cpos + 1 \in 1 .. Len(cbuf)
    BY <1>1, <1>2
  <2>2. cbuf[o - cpos + 1] = cpos + (o - cpos + 1) - 1
    BY <2>1 DEF StreamInStep
  <2>3. cpos + (o - cpos + 1) - 1 = o
    BY <1>1
  <2> QED
    BY <1>2, <2>2, <2>3 DEF StoreBuffer
<1>3. ASSUME NEW o \in 0 .. filesize - 1, ~ (cpos <= o /\ o < cpos + Len(cbuf))
      PROVE  dst'[o] = dst[o]
  BY <1>3 DEF StoreBuffer
<1>4. \A n \in Int : Copied(n) => Copied(n)'
  BY <1>2, <1>3 DEF Copied
<1>5. Copied(cpos) => Copied(cpos)'
  BY <1>1, <1>2, <1>3 DEF Copied
<1>6. \A o \in 0 .. filesize - 1 : o >= cpos + Len(cbuf) => dst'[o] = dst[o]
  BY <1>1, <1>3
<1> QED
  BY <1>4, <1>5, <1>6

LEMMA NextBlockCopyStep ==
  ASSUME TypeOK, BufferBounded, CountsAgree, LogsAgree, ClientNextBlock
  PROVE  BufferBounded' /\ CountsAgree' /\ LogsAgree'
<1> USE DEF servervars, diskvars, history
<1>1. BufferBounded'
  BY DEF BufferBounded, ClientNextBlock, MoreThanABlock, TypeOK
<1>2. CountsAgree'
  BY DEF CountsAgree, Copied, Receiving, ClientNextBlock
<1>3. SUFFICES ASSUME exact PROVE LogsAgree'
  BY <1>1, <1>2 DEF LogsAgree, ClientNextBlock
<1>4. /\ cpaquets \in Nat /\ cpos = BUFFER_SIZE * cpaquets
      /\ cremaining = filesize - cpos /\ cremaining >= 0
      /\ ~ overtaken => Copied(cpos)
      /\ clog.counted => clog.paquets_recus = cpaquets
      /\ \A o \in 0 .. filesize - 1 :
           o >= BUFFER_SIZE * (cpaquets + 2) => dst[o] = Hole
  BY <1>3 DEF CountsAgree, Receiving, ClientNextBlock
<1>5. /\ global_log' = clog /\ cpc' = "read"
      /\ UNCHANGED <<filesize, cpaquets, clog, dst, logexists, logfile,
                     overtaken>>
  BY DEF ClientNextBlock
<1>6. cpos <= filesize
  BY <1>4 DEF TypeOK
<1>7. PointsInto(global_log)' /\ LagsByTwo(global_log)'
  BY <1>4, <1>5, <1>6 DEF PointsInto, LagsByTwo, Usable
<1>8. ~ overtaken' => Backed(global_log)'
  BY <1>4, <1>5 DEF Backed, Usable, Copied
<1>9. Usable(global_log)' => global_log'.paquets_recus >= cpaquets' - 1
  BY <1>4, <1>5 DEF Usable
<1>10. logexists' => PointsInto(logfile)' /\ (~ overtaken' => Backed(logfile)')
  BY <1>3, <1>5 DEF LogsAgree, PointsInto, Backed, Usable, Copied
<1> QED
  BY <1>5, <1>7, <1>8, <1>9, <1>10 DEF LogsAgree, Closed

(* Leaving the loop, or reading more of a block.                           *)
LEMMA ReadCopyStep ==
  ASSUME TypeOK, TypeOK', BufferBounded, CountsAgree, LogsAgree,
         ClientLeaveLoop \/ ClientRead
  PROVE  BufferBounded' /\ CountsAgree' /\ LogsAgree'
<1> USE DEF servervars, diskvars, history
<1>1. BufferBounded'
  <2>1. CASE ClientLeaveLoop
    BY <2>1 DEF ClientLeaveLoop, MoreThanABlock, BufferBounded, TypeOK
  <2>2. CASE ClientRead
    <3>1. PICK k \in 1 .. Min2(Wanted, Len(sock)) :
            cbuf' = cbuf \o SubSeq(sock, 1, k)
      BY <2>2 DEF ClientRead
    <3>2. k \in 1 .. Len(sock) /\ k <= Wanted
      <4>1. Wanted \in Int /\ Len(sock) \in Int
        BY DEF Wanted, TypeOK
      <4> QED
        BY <4>1 DEF Min2
    <3>3. sock \in Seq(Nat) /\ cbuf \in Seq(Nat)
      BY DEF TypeOK
    <3>4. Len(cbuf') = Len(cbuf) + k
      BY <3>1, <3>2, <3>3, TakeType
    <3>5. cpc \in {"read", "tailread"} /\ UNCHANGED <<cpc, cremaining>>
      BY <2>2 DEF ClientRead
    <3>6. /\ cpc = "read" => k <= BUFFER_SIZE - Len(cbuf)
          /\ cpc = "tailread" => k <= cremaining - Len(cbuf)
      BY <3>2 DEF Wanted
    <3>7. cremaining \in Int /\ Len(cbuf) \in Int /\ k \in Int
      BY <3>2, <3>3 DEF TypeOK
    <3> QED
      BY <3>4, <3>5, <3>6, <3>7 DEF BufferBounded, MoreThanABlock
  <2> QED
    BY <2>1, <2>2
<1>2. /\ UNCHANGED <<filesize, cremaining, cpaquets, cpos, clog, global_log,
                     dst, history, logexists, logfile>>
      /\ Receiving /\ Receiving'
      /\ cpc' = "read" => cpc = "read"
      /\ cpc' # "closing" /\ ~ Closed'
  BY DEF ClientLeaveLoop, ClientRead, Receiving, Closed
<1>3. CountsAgree'
  BY <1>2 DEF CountsAgree, Copied
<1>4. LogsAgree'
  BY <1>2 DEF LogsAgree, PointsInto, LagsByTwo, Backed, Stale, Usable, Copied
<1> QED
  BY <1>1, <1>3, <1>4

LEMMA StoreBlockCopyStep ==
  ASSUME TypeOK, StreamInStep, BufferBounded, CountsAgree, LogsAgree,
         ClientStoreBlock
  PROVE  BufferBounded' /\ CountsAgree' /\ LogsAgree'
<1> USE DEF servervars
<1>1. /\ cpc = "read" /\ cpc' = "head" /\ ~ Closed /\ ~ Closed'
      /\ UNCHANGED <<filesize, global_log, logexists, logfile, overtaken>>
  BY DEF ClientStoreBlock, Closed
<1>2. CASE cbuf = << >>
  <2>1. UNCHANGED <<dst, cpos, cremaining, cpaquets, cbuf, clog, exact>>
    BY <1>2, Zenon DEF ClientStoreBlock
  <2>2. BufferBounded'
    BY <1>1, <1>2, <2>1 DEF BufferBounded
  <2>3. CountsAgree'
    BY <1>1, <2>1 DEF CountsAgree, Copied, Receiving
  <2>4. LogsAgree'
    BY <1>1, <2>1 DEF LogsAgree, PointsInto, LagsByTwo, Backed, Stale, Usable,
       Copied, Receiving
  <2> QED
    BY <2>2, <2>3, <2>4
<1>3. CASE cbuf # << >>
  <2>1. /\ StoreBuffer
        /\ clog' = CountLog(cpaquets + 1)
        /\ exact' = (exact /\ Len(cbuf) = BUFFER_SIZE)
    BY <1>3, Zenon DEF ClientStoreBlock
  <2>2. BufferBounded'
    BY <1>1, <2>1 DEF BufferBounded, StoreBuffer
  <2>3. SUFFICES ASSUME exact' PROVE CountsAgree' /\ LogsAgree'
    BY <2>2 DEF CountsAgree, LogsAgree
  <2>4. exact /\ Len(cbuf) = BUFFER_SIZE
    BY <2>1, <2>3
  <2>5. /\ cremaining = filesize - cpos /\ cremaining - BUFFER_SIZE >= 0
        /\ ~ overtaken => Copied(cpos)
        /\ cpaquets \in Nat /\ cpos = BUFFER_SIZE * cpaquets
        /\ \A o \in 0 .. filesize - 1 :
             o >= BUFFER_SIZE * (cpaquets + 2) => dst[o] = Hole
    BY <1>1, <2>4 DEF CountsAgree, Receiving, BufferBounded, MoreThanABlock,
       TypeOK
  <2>6. /\ cpos' = cpos + BUFFER_SIZE /\ cpaquets' = cpaquets + 1
        /\ cremaining' = cremaining - BUFFER_SIZE
        /\ clog'.paquets_recus = cpaquets'
    BY <2>1, <2>4 DEF StoreBuffer, CountLog
  <2>7. /\ \A n \in Int : Copied(n) => Copied(n)'
        /\ ~ overtaken' => Copied(cpos)'
        /\ \A o \in 0 .. filesize - 1 :
             o >= cpos + BUFFER_SIZE => dst'[o] = dst[o]
    BY <1>1, <2>1, <2>4, <2>5, StoreCopies
  <2>8. cpos' = BUFFER_SIZE * cpaquets'
    BY <2>5, <2>6, Blocks
  <2>9. \A o \in 0 .. filesize - 1 :
          o >= BUFFER_SIZE * (cpaquets + 2) => dst'[o] = Hole
    <3>1. BUFFER_SIZE * (cpaquets + 2) >= cpos + BUFFER_SIZE
      BY <2>5, Blocks
    <3>2. cpos \in Int /\ BUFFER_SIZE * (cpaquets + 2) \in Int
      BY <2>5, Blocks DEF TypeOK
    <3> QED
      BY <2>5, <2>7, <3>1, <3>2
  <2>10. CountsAgree'
    <3>1. \A o \in 0 .. filesize' - 1 :
            o >= BUFFER_SIZE * (cpaquets' + 2) => dst'[o] = Hole
      <4>1. BUFFER_SIZE * (cpaquets' + 2) >= BUFFER_SIZE * (cpaquets + 2)
        BY <2>5, <2>6, BlocksMonotone
      <4>2. /\ BUFFER_SIZE * (cpaquets' + 2) \in Int
            /\ BUFFER_SIZE * (cpaquets + 2) \in Int
        BY <2>5, <2>6, Blocks
      <4> QED
        BY <1>1, <2>9, <4>1, <4>2
    <3>2. cremaining' = filesize' - cpos' /\ cremaining' >= 0
      BY <1>1, <2>5, <2>6 DEF TypeOK
    <3>3. cpaquets' \in Nat
      BY <2>5, <2>6
    <3> QED
      BY <2>6, <2>7, <2>8, <3>1, <3>2, <3>3 DEF CountsAgree
  <2>11. /\ global_log = clog
         /\ Usable(global_log) => global_log.paquets_recus = cpaquets
         /\ PointsInto(global_log)
         /\ ~ overtaken => Backed(global_log)
         /\ logexists => PointsInto(logfile)
         /\ logexists /\ ~ overtaken => Backed(logfile)
    BY <1>1, <2>4 DEF LogsAgree, CountsAgree, Receiving, Usable, Stale
  <2>12. PointsInto(global_log)' /\ (~ overtaken' => Backed(global_log)')
    <3>1. PointsInto(global_log)'
      BY <1>1, <2>11 DEF PointsInto, Usable
    <3>2. ~ overtaken => Backed(global_log)'
      BY <1>1, <2>7, <2>11, Blocks DEF PointsInto, Backed, Usable
    <3> QED
      BY <1>1, <3>1, <3>2
  <2>13. LagsByTwo(global_log)'
    BY <1>1, <2>9, <2>11 DEF LagsByTwo, Usable
  <2>14. logexists' => PointsInto(logfile)' /\ (~ overtaken' => Backed(logfile)')
    <3>1. logexists => PointsInto(logfile)'
      BY <1>1, <2>11 DEF PointsInto, Usable
    <3>2. logexists /\ ~ overtaken => Backed(logfile)'
      BY <1>1, <2>7, <2>11, Blocks DEF PointsInto, Backed, Usable
    <3> QED
      BY <1>1, <3>1, <3>2
  <2>15. Usable(global_log)' => global_log'.paquets_recus >= cpaquets' - 1
    BY <1>1, <2>5, <2>6, <2>11 DEF Usable
  <2>16. LogsAgree'
    BY <1>1, <2>12, <2>13, <2>14, <2>15 DEF LogsAgree
  <2> QED
    BY <2>10, <2>16
<1> QED
  BY <1>2, <1>3

(* The tail is shorter than a block, so what global_log lags by after it   *)
(* is still two blocks.                                                    *)
LEMMA StoreTailCopyStep ==
  ASSUME TypeOK, StreamInStep, BufferBounded, CountsAgree, LogsAgree,
         ClientStoreTail
  PROVE  BufferBounded' /\ CountsAgree' /\ LogsAgree'
<1> USE DEF servervars, history
<1>1. /\ cpc = "tailread" /\ cpc' \in {"rmlog", "done"}
      /\ ~ Closed /\ ~ Closed' /\ cpc' # "closing"
      /\ UNCHANGED <<filesize, clog, global_log, logexists, logfile, exact,
                     overtaken>>
  BY DEF ClientStoreTail, AfterReceive, Closed
<1>2. CASE cbuf = << >>
  <2>1. UNCHANGED <<dst, cpos, cremaining, cpaquets>>
    BY <1>2 DEF ClientStoreTail
  <2> QED
    BY <1>1, <2>1, LeftCopyStep
<1>3. CASE cbuf # << >>
  <2>1. StoreBuffer
    BY <1>3 DEF ClientStoreTail
  <2>2. BufferBounded'
    BY <1>1 DEF BufferBounded
  <2>3. SUFFICES ASSUME exact PROVE CountsAgree' /\ LogsAgree'
    BY <1>1, <2>2 DEF CountsAgree, LogsAgree
  <2>4. /\ cremaining = filesize - cpos /\ cremaining - Len(cbuf) >= 0
        /\ ~ overtaken => Copied(cpos)
        /\ cpaquets \in Nat /\ cpos = BUFFER_SIZE * cpaquets
    BY <1>1, <1>3, <2>3 DEF CountsAgree, Receiving, BufferBounded, TypeOK
  <2>5. /\ \A n \in Int : Copied(n) => Copied(n)'
        /\ ~ overtaken' => Copied(cpos)'
        /\ \A o \in 0 .. filesize - 1 :
             o >= cpos + Len(cbuf) => dst'[o] = dst[o]
    BY <1>1, <2>1, <2>4, StoreCopies
  <2>6. CountsAgree'
    <3>1. cremaining' = filesize' - cpos' /\ cremaining' >= 0
      BY <1>1, <2>1, <2>4 DEF StoreBuffer, TypeOK
    <3> QED
      BY <1>1, <2>5, <3>1 DEF CountsAgree, Receiving
  <2>7. /\ PointsInto(global_log) /\ LagsByTwo(global_log)
        /\ ~ overtaken /\ ~ Stale => Backed(global_log)
        /\ logexists => PointsInto(logfile)
        /\ logexists /\ ~ overtaken => Backed(logfile)
        /\ Usable(global_log) => global_log.paquets_recus >= cpaquets - 1
    BY <1>1, <2>3 DEF LogsAgree, Receiving
  <2>8. /\ PointsInto(global_log)'
        /\ ~ overtaken' /\ ~ Stale' => Backed(global_log)'
        /\ logexists' => PointsInto(logfile)'
        /\ logexists' /\ ~ overtaken' => Backed(logfile)'
    <3>1. Stale' <=> Stale
      BY <1>1 DEF Stale, Usable
    <3>2. PointsInto(global_log)' /\ (logexists' => PointsInto(logfile)')
      BY <1>1, <2>7 DEF PointsInto, Usable
    <3>3. ~ overtaken /\ ~ Stale => Backed(global_log)'
      BY <1>1, <2>5, <2>7, Blocks DEF PointsInto, Backed, Usable
    <3>4. logexists /\ ~ overtaken => Backed(logfile)'
      BY <1>1, <2>5, <2>7, Blocks DEF PointsInto, Backed, Usable
    <3> QED
      BY <1>1, <3>1, <3>2, <3>3, <3>4
  <2>9. ASSUME Usable(global_log)
        PROVE  \A o \in 0 .. filesize - 1 :
                 o >= BUFFER_SIZE * (global_log.paquets_recus + 2)
                   => dst'[o] = Hole
    <3> DEFINE g == global_log.paquets_recus
    <3>1. g \in Int
      BY <2>7, <2>9 DEF PointsInto
    <3>2. BUFFER_SIZE * (g + 2) >= BUFFER_SIZE * (cpaquets + 1)
      <4>1. g >= cpaquets - 1 /\ cpaquets \in Nat
        BY <2>4, <2>7, <2>9
      <4> HIDE DEF g
      <4>2. g + 2 >= cpaquets + 1 /\ g + 2 \in Int /\ cpaquets + 1 \in Int
        BY ONLY <3>1, <4>1
      <4> QED
        BY ONLY <4>2, BlocksMonotone
    <3>3. BUFFER_SIZE * (cpaquets + 1) = cpos + BUFFER_SIZE
      BY <2>4, Blocks
    <3>4. ASSUME NEW o \in 0 .. filesize - 1, o >= BUFFER_SIZE * (g + 2)
          PROVE  dst'[o] = Hole
      <4>1. BUFFER_SIZE * (g + 2) \in Int
        BY <3>1, Blocks
      <4>2. dst[o] = Hole
        BY <2>7, <2>9, <3>4 DEF LagsByTwo
      <4>3. Len(cbuf) <= BUFFER_SIZE
        BY <1>1, <2>4, <3>2, <3>3, <3>4, <4>1 DEF BufferBounded, TypeOK
      <4>4. o >= cpos + Len(cbuf)
        BY SMTT(20), <3>2, <3>3, <3>4, <4>1, <4>3 DEF TypeOK
      <4> QED
        BY <2>5, <4>2, <4>4
    <3> QED
      BY <3>4
  <2>10. LagsByTwo(global_log)'
    BY <1>1, <2>9 DEF LagsByTwo, Usable
  <2> QED
    BY <1>1, <2>6, <2>8, <2>10 DEF LogsAgree, Receiving
<1> QED
  BY <1>2, <1>3

LEMMA ResumeCopyStep ==
  ASSUME TypeOK, BufferBounded, CountsAgree, LogsAgree, Resume
  PROVE  BufferBounded' /\ CountsAgree' /\ LogsAgree'
<1>1. /\ Closed /\ cpc' = "head" /\ cbuf' = << >>
      /\ global_log' = ZeroLog
      /\ logexists /\ logfile.named
      /\ UNCHANGED <<filesize, dst, logexists, logfile, overtaken>>
      /\ exact' = (exact /\ logfile.counted)
  BY Zenon DEF Resume, NewProcesses, Restart, diskvars
<1>2. BufferBounded'
  BY <1>1 DEF BufferBounded
<1>3. SUFFICES ASSUME exact' PROVE CountsAgree' /\ LogsAgree'
  BY <1>2 DEF CountsAgree, LogsAgree
<1>4. exact /\ logfile.counted
  BY <1>1, <1>3
<1> DEFINE p == logfile.paquets_recus
<1>5. StartAt(p)
  BY <1>4 DEF Resume
<1>6. /\ p \in Nat /\ BUFFER_SIZE * p <= filesize
      /\ ~ overtaken => Copied(BUFFER_SIZE * p)
      /\ \A o \in 0 .. filesize - 1 :
           o >= BUFFER_SIZE * (p + 2) => dst[o] = Hole
  BY <1>1, <1>4 DEF LogsAgree, PointsInto, Backed, LagsByTwo, Usable
<1>7. /\ cremaining' = filesize - BUFFER_SIZE * p
      /\ cpos' = BUFFER_SIZE * p /\ cpaquets' = p
      /\ clog' = CountLog(p)
  BY <1>5, <1>6 DEF StartAt, StartFrom
<1> HIDE DEF p
<1>8. CountsAgree'
  <2>1. BUFFER_SIZE * p \in Int /\ filesize \in Int
    BY <1>6, Blocks DEF TypeOK
  <2>2. cremaining' = filesize' - cpos' /\ cremaining' >= 0
    BY <1>1, <1>6, <1>7, <2>1
  <2> QED
    BY <1>1, <1>6, <1>7, <2>2 DEF CountsAgree, Copied, CountLog
<1>9. PointsInto(logfile)' /\ (~ overtaken' => Backed(logfile)')
  BY <1>1, <1>6 DEF PointsInto, Backed, Usable, Copied, p
<1>10. ~ Usable(global_log)'
  BY <1>1 DEF Usable, ZeroLog
<1> QED
  BY <1>1, <1>9, <1>8, <1>10 DEF LogsAgree, PointsInto, LagsByTwo, Backed,
     Closed

(* Another GET of the same process takes the last global_log with it: its  *)
(* count is within the file all the same, and until the loop replaces it   *)
(* it is the stale one.                                                    *)
LEMMA GetAgainCopyStep ==
  ASSUME TypeOK, LogsAgree, GetAgain
  PROVE  BufferBounded' /\ CountsAgree' /\ LogsAgree'
<1>1. /\ cpc' = "head" /\ cbuf' = << >>
      /\ cremaining' = filesize /\ cpos' = 0 /\ cpaquets' = 0
      /\ clog' = FillLog /\ dst' = NoBytes
      /\ ~ logexists' /\ filesize' = filesize
      /\ exact' = (exact \/ ~ Usable(global_log'))
      /\ global_log' \in {ZeroLog, global_log}
  BY Zenon DEF GetAgain, NewProcesses, SameProcesses, Restart
<1>2. BufferBounded'
  BY <1>1 DEF BufferBounded
<1>3. CountsAgree'
  BY <1>1, Blocks DEF CountsAgree, Copied, FillLog, NoBytes, TypeOK
<1>4. ASSUME exact', Usable(global_log')
      PROVE  PointsInto(global_log) /\ global_log' = global_log
  <2>1. global_log' # ZeroLog
    BY <1>4 DEF Usable, ZeroLog
  <2>2. global_log' = global_log
    BY <1>1, <2>1
  <2>3. exact
    BY <1>1, <1>4
  <2> QED
    BY <2>2, <2>3 DEF LogsAgree
<1>5. exact' => PointsInto(global_log)' /\ LagsByTwo(global_log)'
  BY <1>1, <1>4 DEF PointsInto, LagsByTwo, Usable, NoBytes
<1>6. Stale' \/ ~ Usable(global_log)'
  BY <1>1 DEF Stale, FillLog, Usable
<1>7. exact' /\ Usable(global_log)' => global_log'.paquets_recus >= cpaquets' - 1
  BY <1>1, <1>4 DEF PointsInto, Usable
<1> QED
  BY <1>1, <1>2, <1>3, <1>5, <1>6, <1>7 DEF LogsAgree, Backed

LEMMA CopyStep == TypeOK /\ CopyInv /\ [Next]_vars => CopyInv'
<1> SUFFICES ASSUME TypeOK, CopyInv, [Next]_vars PROVE CopyInv'
  OBVIOUS
<1>1. /\ TypeOK' /\ StreamInv' /\ LogAway'
      /\ StreamInStep /\ LogAway
  BY TypeStep, StreamStep, AwayStep DEF CopyInv, StreamInv
<1>2. BufferBounded /\ CountsAgree /\ LogsAgree
  BY DEF CopyInv
<1> SUFFICES BufferBounded' /\ CountsAgree' /\ LogsAgree'
  BY <1>1 DEF CopyInv
<1>3. CASE \/ ServerReadBlock \/ ServerReadTail \/ ServerReadFails
           \/ ServerWrite \/ ServerWriteToClosed \/ ServerStop
           \/ UNCHANGED vars
  <2>1. UNCHANGED <<filesize, clientvars, diskvars, history>>
    BY <1>3 DEF ServerReadBlock, ServerReadTail, ServerReadFails, ServerWrite,
       ServerWriteToClosed, ServerStop, vars
  <2> QED
    BY <1>2, <2>1, ServerCopyStep DEF diskvars
<1>4. CASE ServerRemoveLog
  BY <1>2, <1>4, ServerCopyStep DEF ServerRemoveLog
<1>5. CASE SaveLog
  <2>1. /\ UNCHANGED <<filesize, cremaining, cpaquets, cpos, clog, global_log,
                       dst, exact>>
        /\ cpc' \notin {"head", "read", "tailread"}
        /\ overtaken' = (overtaken \/ Stale) /\ logfile' = global_log
    BY <1>5, Zenon DEF SaveLog
  <2> QED
    BY <1>2, <2>1, LeftCopyStep
<1>6. CASE \/ ClientRemoveLog \/ Interrupt \/ CloseSocket \/ ClientReadFails
           \/ Leave
  <2>1. UNCHANGED <<filesize, cremaining, cpaquets, cpos, clog, global_log,
                    dst, exact, overtaken, logfile>>
    BY <1>6 DEF ClientRemoveLog, Interrupt, CloseSocket, ClientReadFails,
       Leave, diskvars, history
  <2>2. cpc' \in {"done", "saving", "dead", "exited"}
    BY <1>6 DEF ClientRemoveLog, Interrupt, CloseSocket, ClientReadFails,
       Leave
  <2>3. logexists' => logexists
    BY <1>6 DEF ClientRemoveLog, Interrupt, CloseSocket, ClientReadFails,
       Leave, diskvars
  <2>4. exact /\ logexists' /\ (cpc' = "closing" \/ Closed')
          => cpc = "closing" \/ Closed
    <3>1. CASE ClientRemoveLog
      BY <3>1 DEF ClientRemoveLog
    <3>2. CASE Interrupt
      BY <3>2 DEF Interrupt, Closed, diskvars
    <3>3. CASE CloseSocket
      BY <3>3 DEF CloseSocket
    <3>4. CASE ClientReadFails
      BY <1>2, <3>4 DEF ClientReadFails, CountsAgree, TypeOK
    <3>5. CASE Leave
      BY <1>1, <3>5 DEF Leave, LogAway, diskvars
    <3> QED
      BY <1>6, <3>1, <3>2, <3>3, <3>4, <3>5
  <2>5. cpc' \notin {"head", "read", "tailread"}
    BY <2>2
  <2> QED
    BY <1>2, <2>1, <2>3, <2>4, <2>5, LeftCopyStep
<1>7. CASE ClientNextBlock
  BY <1>2, <1>7, NextBlockCopyStep
<1>8. CASE ClientLeaveLoop \/ ClientRead
  BY <1>1, <1>2, <1>8, ReadCopyStep
<1>9. CASE ClientStoreBlock
  BY <1>1, <1>2, <1>9, StoreBlockCopyStep
<1>10. CASE ClientStoreTail
  BY <1>1, <1>2, <1>10, StoreTailCopyStep
<1>11. CASE Resume
  BY <1>2, <1>11, ResumeCopyStep
<1>12. CASE GetAgain
  BY <1>2, <1>12, GetAgainCopyStep
<1> QED
  BY <1>3, <1>4, <1>5, <1>6, <1>7, <1>8, <1>9, <1>10, <1>11, <1>12
     DEF Next, Server, Client

(* The invariant of the whole module.                                      *)
THEOREM CopyInvariant == Spec => [](TypeOK /\ CopyInv)
<1>1. Init => TypeOK /\ CopyInv
  BY TypeInit, CopyInit
<1>2. TypeOK /\ CopyInv /\ [Next]_vars => (TypeOK /\ CopyInv)'
  BY TypeStep, CopyStep
<1> QED
  BY <1>1, <1>2, PTL DEF Spec

(* A resume point that stands for full blocks is within what the client's  *)
(* file holds, unless ctrl-C saved the one of an earlier GET: of the many  *)
(* moments a signal can come at, in any number of GETs, no other leaves a  *)
(* hole behind.                                                            *)
THEOREM ResumePointIsHonest == Spec => []LogHonest
<1>1. TypeOK /\ CopyInv => LogHonest
  BY DEF CopyInv, LogsAgree, Backed, LogHonest
<1> QED
  BY <1>1, CopyInvariant, PTL

(* The log an interrupted client leaves is at most two blocks behind.      *)
THEOREM ResumeLagIsBounded == Spec => []ReworkBounded
<1>1. TypeOK /\ CopyInv => ReworkBounded
  BY DEF CopyInv, LogsAgree, LagsByTwo, ReworkBounded, Closed
<1> QED
  BY <1>1, CopyInvariant, PTL

(* When nothing remains the copy is the served file, unless it was resumed *)
(* from the log of an earlier GET.                                         *)
THEOREM FinishedCopyIsWhole == Spec => []CompleteCopy
<1>1. TypeOK /\ CopyInv => CompleteCopy
  BY DEF CopyInv, CountsAgree, Copied, CompleteCopy, Finished, TypeOK
<1> QED
  BY <1>1, CopyInvariant, PTL

-----------------------------------------------------------------------------
(***************************************************************************)
(* The refinement.  Only storing a buffer (Write) and asking again         *)
(* (StartOver) change the file; the rest stutters or moves the status.     *)
(***************************************************************************)

LEMMA CopyMaps == Init => Copy!Init
  BY DEF Init, Copy!Init, CopyStatus, NoBytes, Copy!NoBytes, Hole, Copy!Hole

LEMMA StoreMaps ==
  ASSUME TypeOK, CopyInv, CopyInv', TypeOK',
         ClientStoreBlock \/ ClientStoreTail
  PROVE  Copy!Write
<1>1. /\ cpc \in {"read", "tailread"} /\ cpc' \in {"head", "rmlog", "done"}
      /\ filesize' = filesize
  BY DEF ClientStoreBlock, ClientStoreTail, AfterReceive
<1>2. CopyStatus = "copying"
  BY <1>1 DEF CopyStatus
<1>3. CopyStatus' \in {"copying", "stopped", "complete"}
  BY DEF CopyStatus
<1>4. CopyStatus' = "complete" => Copy!Full(dst')
  <2>1. SUFFICES ASSUME exact', cremaining' = 0, ~ overtaken'
                 PROVE  Copy!Full(dst')
    BY DEF CopyStatus, Finished
  <2>2. cremaining' = filesize' - cpos' /\ Copied(cpos)'
    BY <2>1 DEF CopyInv, CountsAgree
  <2>3. filesize \in Nat /\ cpos' \in Nat
    BY DEF TypeOK
  <2>4. cpos' = filesize
    <3>1. 0 = filesize - cpos'
      BY <1>1, <2>1, <2>2
    <3>2. \A a, b \in Int : 0 = a - b => b = a
      OBVIOUS
    <3>3. filesize \in Int /\ cpos' \in Int
      BY <2>3
    <3> QED
      BY <3>1, <3>2, <3>3, Zenon
  <2> QED
    BY <1>1, <2>2, <2>3, <2>4 DEF Copied, Copy!Full
<1>5. PICK from \in 0 .. filesize, to \in 0 .. filesize :
        /\ from <= to
        /\ dst' = [o \in 0 .. filesize - 1 |->
                     IF from <= o /\ o < to THEN o ELSE dst[o]]
  <2>1. filesize \in Nat /\ dst = [o \in 0 .. filesize - 1 |-> dst[o]]
    BY DEF TypeOK
  <2>2. CASE cbuf = << >>
    <3>1. dst' = dst
      BY <2>2 DEF ClientStoreBlock, ClientStoreTail
    <3>2. dst' = [o \in 0 .. filesize - 1 |->
                    IF 0 <= o /\ o < 0 THEN o ELSE dst[o]]
      BY <2>1, <3>1
    <3> QED
      BY <2>1, <3>2
  <2>3. CASE cbuf # << >>
    <3> DEFINE from == Min2(cpos, filesize)
               to == Min2(cpos + Len(cbuf), filesize)
    <3>1. StoreBuffer
      BY <2>3 DEF ClientStoreBlock, ClientStoreTail
    <3>2. /\ from \in 0 .. filesize /\ to \in 0 .. filesize /\ from <= to
          /\ \A o \in 0 .. filesize - 1 :
               (from <= o /\ o < to) <=> (cpos <= o /\ o < cpos + Len(cbuf))
      <4>1. cpos \in Nat /\ Len(cbuf) \in Nat
        BY DEF TypeOK
      <4> QED
        BY <2>1, <4>1 DEF Min2
    <3> HIDE DEF from, to
    <3>3. ASSUME NEW o \in 0 .. filesize - 1, from <= o, o < to
          PROVE  cbuf[o - cpos + 1] = o
      <4>1. o - cpos + 1 \in 1 .. Len(cbuf)
        <5>1. cpos \in Nat /\ Len(cbuf) \in Nat
          BY DEF TypeOK
        <5> QED
          BY <3>2, <3>3, <5>1
      <4>2. cbuf[o - cpos + 1] = cpos + (o - cpos + 1) - 1
        BY <1>1, <4>1 DEF CopyInv, StreamInv, StreamInStep, Closed
      <4>3. cpos + (o - cpos + 1) - 1 = o
        BY DEF TypeOK
      <4> QED
        BY <4>2, <4>3
    <3>4. dst' = [o \in 0 .. filesize - 1 |->
                   IF from <= o /\ o < to THEN o ELSE dst[o]]
      BY <3>1, <3>2, <3>3 DEF StoreBuffer
    <3> QED
      BY <3>2, <3>4
  <2> QED
    BY <2>2, <2>3
<1> QED
  BY <1>1, <1>2, <1>3, <1>4, <1>5 DEF Copy!Write

LEMMA StepMaps ==
  ASSUME TypeOK, TypeOK', CopyInv, CopyInv', [Next]_vars
  PROVE  [Copy!Next]_(Copy!vars)
<1> USE DEF Copy!vars, clientvars, servervars, diskvars, history, CopyStatus,
            Finished
<1>1. CASE Server \/ ServerStop \/ UNCHANGED vars
  <2>1. UNCHANGED <<filesize, dst, cpc, cremaining, exact, overtaken>>
    BY <1>1 DEF Server, ServerReadBlock, ServerReadTail, ServerReadFails,
       ServerWrite, ServerWriteToClosed, ServerRemoveLog, ServerStop, vars
  <2> QED
    BY <2>1
<1>2. CASE \/ ClientNextBlock \/ ClientLeaveLoop \/ ClientRead
           \/ ClientRemoveLog \/ SaveLog \/ CloseSocket
  BY <1>2 DEF ClientNextBlock, ClientLeaveLoop, ClientRead, ClientRemoveLog,
     SaveLog, CloseSocket
<1>3. CASE ClientStoreBlock \/ ClientStoreTail
  BY <1>3, StoreMaps DEF Copy!Next
<1>4. CASE Interrupt \/ ClientReadFails \/ Leave
  <2>1. UNCHANGED <<filesize, dst>> /\ CopyStatus' = "stopped"
    BY <1>4 DEF Interrupt, ClientReadFails, Leave
  <2> QED
    BY <2>1 DEF Copy!Next, Copy!Stop
<1>5. CASE Resume
  <2>1. UNCHANGED <<filesize, dst>> /\ Closed /\ cpc' = "head"
    BY <1>5 DEF Resume, NewProcesses, Restart
  <2>2. CopyStatus = "stopped" /\ CopyStatus' = "copying"
    BY <2>1 DEF Closed
  <2> QED
    BY <2>1, <2>2 DEF Copy!Next, Copy!Resume
<1>6. CASE GetAgain
  <2>1. /\ filesize' = filesize /\ dst' = Copy!NoBytes
        /\ Closed \/ cpc = "done"
        /\ cpc' = "head"
    BY <1>6 DEF GetAgain, NewProcesses, SameProcesses, Restart, NoBytes,
       Copy!NoBytes, Hole, Copy!Hole
  <2>2. CopyStatus # "copying" /\ CopyStatus' = "copying"
    BY <2>1 DEF Closed
  <2> QED
    BY <2>1, <2>2 DEF Copy!Next, Copy!StartOver
<1> QED
  BY <1>1, <1>2, <1>3, <1>4, <1>5, <1>6 DEF Next, Client

(* Two loops over a connection, a signal handler and a file that outlives  *)
(* the processes implement a copy that is stopped and taken up again.      *)
THEOREM TransferRefinesCopy == Spec => ImplementsFileCopy
<1>1. TypeOK /\ CopyInv /\ (TypeOK /\ CopyInv)' /\ [Next]_vars
        => [Copy!Next]_(Copy!vars)
  BY StepMaps
<1> QED
  BY <1>1, CopyMaps, CopyInvariant, PTL DEF Spec, ImplementsFileCopy, Copy!Spec

=============================================================================
