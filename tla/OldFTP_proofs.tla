--------------------------- MODULE OldFTP_proofs ----------------------------
(***************************************************************************)
(* What handlerPapa guarantees, for any number of executants, clients and  *)
(* files.  The types of connections and files play no part in it: all that *)
(* is needed of an executant is that it is a record, and where it is.      *)
(***************************************************************************)
EXTENDS OldFTP, TLAPS

ExecutantsAreRecords ==
  exec = [e \in Slots |-> [pc |-> exec[e].pc, serves |-> exec[e].serves,
                           file |-> exec[e].file, sent |-> exec[e].sent]]

LoopInBounds ==
  /\ i \in 1 .. NPROC + 1 /\ failed \subseteq Slots
  /\ mpc \in {"listen", "fork", "signal", "pause", "kill", "wait", "killed", "left"}
  /\ mpc = "wait" => i \in Slots

(* Only executants that are there have a SIGINT to handle.                 *)
SignalsReachTheLiving == pending \subseteq {0} \cup Pool

(* When every fork succeeded, the executants that handlerPapa has reaped   *)
(* are those its loop has passed.                                          *)
ReapedInOrder ==
  /\ mpc \in {"listen", "fork", "signal", "pause"} =>
       \A e \in Slots : exec[e].pc # "reaped"
  /\ mpc \in {"kill", "wait"} /\ failed = {} =>
       \A e \in Slots : exec[e].pc = "reaped" <=> e < i

(* What the loops have passed: main forked it or knows that it did not;    *)
(* once handlerPapa has come to a slot that is not forked, or reaped a     *)
(* process out of its turn, every executant has been told to end.          *)
LoopsMiss ==
  /\ mpc = "fork" => \A e \in Slots : e < i => e \in failed \/ exec[e].pc # "none"
  /\ mpc \in {"signal", "pause", "kill", "wait"} =>
       \A e \in Slots : e \in failed \/ exec[e].pc # "none"
  /\ mpc \in {"kill", "wait"} =>
       \A e \in Slots : (e < i /\ e \in failed) \/ (e >= i /\ exec[e].pc = "reaped")
                        => Pool \subseteq pending

PapaInv ==
  /\ ExecutantsAreRecords
  /\ LoopInBounds
  /\ SignalsReachTheLiving
  /\ ReapedInOrder
  /\ PapaLeavesLast
  /\ LoopsMiss
  /\ PapaForgetsNobody

(* The steps of an executant other than its end: it is alive before and    *)
(* after, and so is every other as it was.                                 *)
Stays(e) ==
  /\ e \in Pool
  /\ \E pc \in {"accept", "greeting", "type", "name", "skip", "open", "send"} :
       exec'[e].pc = pc
  /\ \A d \in Slots \ {e} : exec'[d].pc = exec[d].pc
  /\ ExecutantsAreRecords'
  /\ UNCHANGED <<mainvars, pending>>

(* The end of one.                                                         *)
Dies(e) ==
  /\ e \in Pool
  /\ exec'[e].pc = "zombie"
  /\ \A d \in Slots \ {e} : exec'[d].pc = exec[d].pc
  /\ ExecutantsAreRecords'
  /\ pending' = pending \ {e}
  /\ UNCHANGED mainvars

(* An executant that carries on leaves the invariant as it was.            *)
LEMMA StaysKeepsInv ==
  ASSUME NEW e \in Slots, PapaInv, Stays(e) PROVE PapaInv'
<1>1. Pool' = Pool
  BY DEF Stays, Pool
<1> QED
  BY <1>1 DEF Stays, Pool, PapaInv, LoopInBounds, SignalsReachTheLiving,
              ReapedInOrder, PapaLeavesLast, LoopsMiss, PapaForgetsNobody,
              mainvars, Slots

(* An executant that ends becomes a zombie, and not a reaped one.          *)
LEMMA DiesKeepsInv ==
  ASSUME NEW e \in Slots, PapaInv, Dies(e) PROVE PapaInv'
<1>1. Pool' = Pool \ {e}
  BY DEF Dies, Pool
<1> QED
  BY <1>1 DEF Dies, Pool, PapaInv, LoopInBounds, SignalsReachTheLiving,
              ReapedInOrder, PapaLeavesLast, LoopsMiss, PapaForgetsNobody,
              mainvars, Slots

(* What ExecutantEnds does, once its executant is known to be alive.       *)
LEMMA EndIsDeath ==
  ASSUME NEW e \in Slots, ExecutantsAreRecords, e \in Pool, ExecutantEnds(e)
  PROVE  Dies(e)
BY DEF ExecutantsAreRecords, ExecutantEnds, Release, Dies, At, With, mainvars

LEMMA PapaInit == Init => PapaInv
<1> SUFFICES ASSUME Init PROVE PapaInv
  OBVIOUS
<1>1. NPROC \in Nat
  BY OldAssumption
<1>2. ExecutantsAreRecords
  BY DEF Init, At, With, ExecutantsAreRecords
<1>3. \A e \in Slots : exec[e].pc = "none"
  BY DEF Init, At, With
<1> QED
  BY <1>1, <1>2, <1>3 DEF Init, PapaInv, LoopInBounds, SignalsReachTheLiving,
                          ReapedInOrder, PapaLeavesLast, LoopsMiss,
                          PapaForgetsNobody, Slots

-----------------------------------------------------------------------------
(* The executants.                                                         *)

LEMMA ExecutantKeepsInv ==
  ASSUME NEW e \in Slots, PapaInv,
         ExecutantStep(e) \/ AcceptFails(e) \/ GreetingFails(e)
  PROVE  PapaInv'
<1> DEFINE
  x == exec[e]
<1>0. /\ ExecutantsAreRecords
      /\ x = [pc |-> x.pc, serves |-> x.serves, file |-> x.file, sent |-> x.sent]
      /\ exec[e].pc \in {"accept", "greeting", "type", "name", "skip", "open", "send"} => e \in Pool
  BY DEF PapaInv, ExecutantsAreRecords, Pool
<1>1. CASE Accept(e)
  <2>1. e \in Pool /\ UNCHANGED <<mainvars, pending>>
    BY <1>0, <1>1 DEF Accept
  <2>2. exec' = [exec EXCEPT ![e] = With("greeting", Head(backlog), None)]
    BY <1>1 DEF Accept
  <2>3. Stays(e)
    BY <1>0, <2>1, <2>2 DEF Stays, ExecutantsAreRecords, With
  <2> QED
    BY <2>3, StaysKeepsInv
<1>2. CASE ReadType(e)
  <2>1. PICK pc \in {"name", "skip"} : exec' = [exec EXCEPT ![e] = [x EXCEPT !.pc = pc]]
    BY <1>2 DEF ReadType, ExecutantGoes
  <2>2. [x EXCEPT !.pc = pc]
          = [pc |-> pc, serves |-> x.serves, file |-> x.file, sent |-> x.sent]
    BY <1>0
  <2>3. e \in Pool /\ UNCHANGED <<mainvars, pending>>
    BY <1>0, <1>2 DEF ReadType
  <2>4. Stays(e)
    BY <1>0, <2>1, <2>2, <2>3 DEF Stays, ExecutantsAreRecords
  <2> QED
    BY <2>4, StaysKeepsInv
<1>3. CASE ReadName(e)
  <2>1. e \in Pool /\ UNCHANGED <<mainvars, pending>>
    BY <1>0, <1>3 DEF ReadName
  <2>2. PICK name \in Request(x.serves, Names) :
          exec' = [exec EXCEPT ![e] = With("open", x.serves, name)]
    BY <1>3 DEF ReadName
  <2>3. Stays(e)
    BY <1>0, <2>1, <2>2 DEF Stays, ExecutantsAreRecords, With
  <2> QED
    BY <2>3, StaysKeepsInv
<1>4. CASE SkipRequest(e) \/ SendEnds(e)
  <2>1. Stays(e)
    BY <1>0, <1>4 DEF SkipRequest, SendEnds, Returns, At, With, Stays, ExecutantsAreRecords
  <2> QED
    BY <2>1, StaysKeepsInv
<1>5. CASE OpenFile(e)
  <2>1. exec' = [exec EXCEPT ![e] = [x EXCEPT !.pc = "send"]]
    BY <1>5 DEF OpenFile, ExecutantGoes
  <2>2. [x EXCEPT !.pc = "send"]
          = [pc |-> "send", serves |-> x.serves, file |-> x.file, sent |-> x.sent]
    BY <1>0
  <2>3. e \in Pool /\ UNCHANGED <<mainvars, pending>>
    BY <1>0, <1>5 DEF OpenFile
  <2>4. Stays(e)
    BY <1>0, <2>1, <2>2, <2>3 DEF Stays, ExecutantsAreRecords
  <2> QED
    BY <2>4, StaysKeepsInv
<1>6. CASE SendSome(e)
  <2>1. PICK n : exec' = [exec EXCEPT ![e] = [x EXCEPT !.sent = x.sent + n]]
    BY <1>6 DEF SendSome
  <2>2. [x EXCEPT !.sent = x.sent + n]
          = [pc |-> "send", serves |-> x.serves, file |-> x.file, sent |-> x.sent + n]
    BY <1>0, <1>6 DEF SendSome
  <2>3. e \in Pool /\ UNCHANGED <<mainvars, pending>>
    BY <1>0, <1>6 DEF SendSome
  <2>4. PICK m : exec' = [exec EXCEPT ![e] =
          [pc |-> "send", serves |-> x.serves, file |-> x.file, sent |-> m]]
    BY <2>1, <2>2
  <2>5. Stays(e)
    BY <1>0, <2>3, <2>4 DEF Stays, ExecutantsAreRecords
  <2> QED
    BY <2>5, StaysKeepsInv
<1>7. CASE OpenExits(e) \/ SendFails(e)
  BY <1>0, <1>7, EndIsDeath, DiesKeepsInv DEF OpenExits, SendFails
<1>8. CASE AcceptFails(e) \/ GreetingFails(e)
  BY <1>0, <1>8, EndIsDeath, DiesKeepsInv DEF AcceptFails, GreetingFails
<1>9. CASE Greet(e)
  <2>1. e \in Pool /\ UNCHANGED <<mainvars, pending>>
    BY <1>0, <1>9 DEF Greet
  <2>2. exec' = [exec EXCEPT ![e] = With("type", x.serves, None)]
    BY <1>9 DEF Greet
  <2>3. Stays(e)
    BY <1>0, <2>1, <2>2 DEF Stays, ExecutantsAreRecords, With
  <2> QED
    BY <2>3, StaysKeepsInv
<1> QED
  BY <1>1, <1>2, <1>3, <1>4, <1>5, <1>6, <1>7, <1>8, <1>9 DEF ExecutantStep

-----------------------------------------------------------------------------
(* main.                                                                   *)

(* main's end leaves the executants as they are; after "killed" nothing is *)
(* promised of them.                                                       *)
LEMMA MainEndKeepsInv ==
  ASSUME PapaInv, NEW how \in {"killed", "left"}, MainEnds(how),
         how = "left" => Pool \subseteq pending /\ (failed = {} => Pool = {})
  PROVE  PapaInv'
<1>1. /\ exec' = exec /\ i' = i /\ failed' = failed /\ mpc' = how
      /\ pending' = pending \ {0}
  BY DEF MainEnds, Release
<1>2. Pool' = Pool /\ 0 \notin Pool
  BY <1>1, OldAssumption DEF Pool, Slots
<1> QED
  BY <1>1, <1>2 DEF PapaInv, ExecutantsAreRecords, LoopInBounds,
                    SignalsReachTheLiving, ReapedInOrder, PapaLeavesLast,
                    LoopsMiss, PapaForgetsNobody

LEMMA MainKeepsInv == ASSUME PapaInv, MainStep PROVE PapaInv'
<1>0. NPROC \in Nat
  BY OldAssumption
<1>a. ASSUME exec' = exec, failed' = failed, LoopInBounds', SignalsReachTheLiving',
             ReapedInOrder', LoopsMiss', PapaForgetsNobody', mpc' # "left"
      PROVE  PapaInv'
  BY <1>a DEF PapaInv, ExecutantsAreRecords, PapaLeavesLast
<1>1. CASE Listen \/ SetHandler
  <2>1. exec' = exec /\ failed' = failed /\ pending' = pending /\ Pool' = Pool
    BY <1>1 DEF Listen, SetHandler, Pool
  <2> QED
    BY <1>0, <1>1, <1>a, <2>1
    DEF Listen, SetHandler, MainGoes, PapaInv, LoopInBounds,
        SignalsReachTheLiving, ReapedInOrder, LoopsMiss, PapaForgetsNobody, Slots
<1>2. CASE Fork
  <2>1. /\ i \in Slots /\ mpc = "fork" /\ mpc' = "fork" /\ i' = i + 1
        /\ pending' = pending
    BY <1>0, <1>2 DEF Fork, MainGoes, PapaInv, LoopInBounds, Slots
  <2>2. CASE exec' = [exec EXCEPT ![i] = At("accept")] /\ UNCHANGED failed
    <3>1. ExecutantsAreRecords'
      BY <2>1, <2>2 DEF PapaInv, ExecutantsAreRecords, At, With
    <3>2. /\ exec'[i].pc = "accept"
          /\ \A d \in Slots \ {i} : exec'[d].pc = exec[d].pc
      BY <2>1, <2>2 DEF PapaInv, ExecutantsAreRecords, At, With
    <3>3. Pool \subseteq Pool'
      BY <3>2 DEF Pool
    <3> QED
      BY <1>0, <2>1, <2>2, <3>1, <3>2, <3>3
      DEF PapaInv, LoopInBounds, SignalsReachTheLiving, ReapedInOrder,
          PapaLeavesLast, LoopsMiss, PapaForgetsNobody, Slots
  <2>3. CASE failed' = failed \cup {i} /\ UNCHANGED exec
    <3>1. Pool' = Pool
      BY <2>3 DEF Pool
    <3> QED
      BY <1>0, <2>1, <2>3, <3>1
      DEF PapaInv, ExecutantsAreRecords, LoopInBounds, SignalsReachTheLiving,
          ReapedInOrder, PapaLeavesLast, LoopsMiss, PapaForgetsNobody, Slots
  <2> QED
    BY <1>2, <2>2, <2>3 DEF Fork
<1>3. CASE EnterPapa
  <2>1. exec' = exec /\ failed' = failed /\ Pool' = Pool
    BY <1>3 DEF EnterPapa, Pool
  <2> QED
    BY <1>0, <1>3, <1>a, <2>1
    DEF EnterPapa, MainGoes, PapaInv, LoopInBounds, SignalsReachTheLiving,
        ReapedInOrder, LoopsMiss, PapaForgetsNobody, Slots
<1>4. CASE PapaKills
  <2>1. i \in Slots /\ mpc = "kill"
    BY <1>0, <1>4 DEF PapaKills, PapaInv, LoopInBounds, Slots
  <2>2. CASE /\ exec[i].pc # "reaped"
             /\ pending' = pending \cup IF i \in failed THEN Pool ELSE {i} \cap Pool
             /\ MainGoes("wait", i) /\ UNCHANGED <<failed, exec>>
    <3>1. Pool' = Pool
      BY <2>2 DEF Pool
    <3>2. /\ pending \subseteq pending' /\ mpc' = "wait" /\ i' = i
          /\ i \in failed => Pool \subseteq pending'
          /\ i \notin failed => pending' = pending \cup ({i} \cap Pool)
      BY <2>2 DEF MainGoes
    <3>3. LoopInBounds' /\ SignalsReachTheLiving' /\ ReapedInOrder'
      BY <2>1, <2>2, <3>1
      DEF MainGoes, PapaInv, LoopInBounds, SignalsReachTheLiving, ReapedInOrder
    <3>4. LoopsMiss'
      BY <2>1, <2>2, <3>1, <3>2 DEF PapaInv, LoopsMiss
    <3>5. PapaForgetsNobody'
      <4>1. i \notin failed => exec[i].pc = "zombie" \/ i \in Pool
        BY <2>1, <2>2 DEF PapaInv, LoopsMiss, Pool
      <4> QED
        BY <2>2, <3>1, <3>2, <4>1 DEF PapaForgetsNobody
    <3> QED
      BY <1>a, <2>2, <3>2, <3>3, <3>4, <3>5
  <2>3. CASE exec[i].pc = "reaped" /\ MainEnds("left")
    <3>1. failed # {}
      BY <2>1, <2>3 DEF PapaInv, ReapedInOrder, Slots
    <3>2. Pool \subseteq pending
      BY <1>0, <2>1, <2>3 DEF PapaInv, LoopsMiss, Slots
    <3> QED
      BY <2>3, <3>1, <3>2, MainEndKeepsInv
  <2> QED
    BY <1>4, <2>2, <2>3 DEF PapaKills
<1>5. CASE PapaWaits
  <2>1. i \in Slots /\ mpc = "wait"
    BY <1>5 DEF PapaWaits, PapaInv, LoopInBounds
  <2>2. ASSUME NEW e \in IF i \in failed THEN Slots ELSE {i},
               exec[e].pc = "zombie",
               exec' = [exec EXCEPT ![e] = At("reaped")],
               MainGoes("kill", i + 1), UNCHANGED <<failed, pending>>
        PROVE  PapaInv'
    <3>1. e \in Slots /\ (failed = {} => e = i)
      BY <2>1, <2>2
    <3>2. ExecutantsAreRecords'
      BY <2>2, <3>1 DEF PapaInv, ExecutantsAreRecords, At, With
    <3>3. /\ exec'[e].pc = "reaped"
          /\ \A d \in Slots \ {e} : exec'[d].pc = exec[d].pc
      BY <2>2, <3>1 DEF PapaInv, ExecutantsAreRecords, At, With
    <3>4. Pool' = Pool
      BY <2>2, <3>3 DEF Pool
    <3>5. LoopInBounds' /\ SignalsReachTheLiving' /\ PapaLeavesLast'
      BY <1>0, <2>1, <2>2, <3>4
      DEF MainGoes, PapaInv, LoopInBounds, SignalsReachTheLiving, PapaLeavesLast, Slots
    <3>6. ReapedInOrder'
      BY <1>0, <2>1, <2>2, <3>1, <3>3
      DEF MainGoes, PapaInv, LoopInBounds, ReapedInOrder, Slots
    <3>7. mpc' = "kill" /\ i' = i + 1 /\ pending' = pending /\ failed' = failed
      BY <2>2 DEF MainGoes
    <3>8. LoopsMiss'
      <4>1. i \in failed => Pool \subseteq pending
        BY <2>1 DEF PapaInv, PapaForgetsNobody
      <4>2. i \notin failed => e = i
        BY <2>2
      <4> QED
        BY <1>0, <2>1, <3>1, <3>3, <3>4, <3>7, <4>1, <4>2
        DEF PapaInv, LoopInBounds, LoopsMiss, Slots
    <3>9. PapaForgetsNobody'
      BY <3>7 DEF PapaForgetsNobody
    <3> QED
      BY <3>2, <3>5, <3>6, <3>8, <3>9 DEF PapaInv
  <2> QED
    BY <1>5, <2>2 DEF PapaWaits
<1>6. CASE WaitpidExits
  <2>1. failed # {} /\ Pool \subseteq pending
    BY <1>6 DEF WaitpidExits, PapaInv, PapaForgetsNobody
  <2> QED
    BY <1>6, <2>1, MainEndKeepsInv DEF WaitpidExits
<1>7. CASE PapaLeaves
  <2>1. failed = {} => Pool = {}
    <3>1. mpc = "kill" /\ \A e \in Slots : e < i
      BY <1>0, <1>7 DEF PapaLeaves, PapaInv, LoopInBounds, Slots
    <3> QED
      BY <3>1 DEF PapaInv, ReapedInOrder, Pool
  <2>2. Pool \subseteq pending
    <3>1. mpc = "kill" /\ \A e \in failed : e \in Slots /\ e < i
      BY <1>0, <1>7 DEF PapaLeaves, PapaInv, LoopInBounds, Slots
    <3> QED
      BY <2>1, <3>1 DEF PapaInv, LoopsMiss
  <2> QED
    BY <1>7, <2>1, <2>2, MainEndKeepsInv DEF PapaLeaves
<1>8. CASE ListenExits
  BY <1>8, MainEndKeepsInv DEF ListenExits
<1> QED
  BY <1>1, <1>2, <1>3, <1>4, <1>5, <1>6, <1>7, <1>8 DEF MainStep

(* SIGINT adds nobody but processes that are there.                        *)
LEMMA SignalKeepsInv ==
  ASSUME PapaInv, NEW P \in SUBSET Alive, SIGINT(P) PROVE PapaInv'
<1>1. exec' = exec /\ UNCHANGED mainvars /\ pending' = pending \cup P
  BY DEF SIGINT
<1>2. Pool' = Pool /\ P \subseteq {0} \cup Pool
  BY <1>1 DEF Pool, Alive
<1> QED
  BY <1>1, <1>2 DEF mainvars, PapaInv, ExecutantsAreRecords, LoopInBounds,
                    SignalsReachTheLiving, ReapedInOrder, PapaLeavesLast,
                    LoopsMiss, PapaForgetsNobody

-----------------------------------------------------------------------------
LEMMA PapaStep == PapaInv /\ [Next]_vars => PapaInv'
<1> SUFFICES ASSUME PapaInv, [Next]_vars PROVE PapaInv'
  OBVIOUS
<1>1. CASE MainStep
  BY <1>1, MainKeepsInv
<1>2. CASE CtrlC
  BY <1>2, SignalKeepsInv DEF CtrlC
<1>3. ASSUME NEW p \in {0} \cup Slots, DieOfSignal(p) PROVE PapaInv'
  <2>1. CASE p = 0 /\ MainEnds("killed")
    BY <2>1, MainEndKeepsInv
  <2>2. CASE p # 0 /\ ExecutantEnds(p)
    <3>1. p \in Slots /\ p \in Pool /\ ExecutantsAreRecords
      BY <1>3, <2>2 DEF DieOfSignal, PapaInv, SignalsReachTheLiving
    <3> QED
      BY <2>2, <3>1, EndIsDeath, DiesKeepsInv
  <2> QED
    BY <1>3, <2>1, <2>2 DEF DieOfSignal
<1>4. ASSUME NEW p \in {0} \cup Slots, KillOne(p) PROVE PapaInv'
  BY <1>4, SignalKeepsInv DEF KillOne
<1>5. ASSUME NEW e \in Slots, ExecutantStep(e) \/ AcceptFails(e) \/ GreetingFails(e)
      PROVE  PapaInv'
  BY <1>5, ExecutantKeepsInv
<1>6. ASSUME UNCHANGED <<mainvars, exec, pending>> PROVE PapaInv'
  <2>1. Pool' = Pool
    BY <1>6 DEF Pool
  <2> QED
    BY <1>6, <2>1 DEF mainvars, PapaInv, ExecutantsAreRecords, LoopInBounds,
                      SignalsReachTheLiving, ReapedInOrder, PapaLeavesLast,
                      LoopsMiss, PapaForgetsNobody
<1>7. ASSUME NEW c \in Clients,
             \/ Connect(c) \/ ClientStep(c)
             \/ ReadExits(c) \/ ReadnExits(c) \/ ClientStops(c)
      PROVE  UNCHANGED <<mainvars, exec, pending>>
  BY <1>7 DEF Connect, ClientStep, ReadExits, ReadnExits, ClientStops, SendRequest,
              WriteExits, unix_error, ReadStatus, Receive, server
<1>8. CASE UNCHANGED vars
  BY <1>6, <1>8 DEF vars, server
<1> QED
  BY <1>1, <1>2, <1>3, <1>4, <1>5, <1>6, <1>7, <1>8 DEF Next

(* handlerPapa returns from its loop only when no executant is left, for   *)
(* any number of executants, if all the forks of main succeeded.           *)
THEOREM PapaIsLast == Spec => []PapaLeavesLast
<1>1. PapaInv => PapaLeavesLast
  BY DEF PapaInv
<1> QED
  BY PapaInit, PapaStep, <1>1, PTL DEF Spec

(* With any number of failed forks, handlerPapa waits only for a child that *)
(* a SIGINT has reached, and every executant it leaves behind has one to    *)
(* handle: the stop of the server is asked of everybody, whatever died      *)
(* before its turn or was reaped out of it.                                 *)
THEOREM PapaTellsEverybody == Spec => []PapaForgetsNobody
<1>1. PapaInv => PapaForgetsNobody
  BY DEF PapaInv
<1> QED
  BY PapaInit, PapaStep, <1>1, PTL DEF Spec

=============================================================================
