-------------------------- MODULE ServerPool_proofs --------------------------
(* Two pools never share the port, for any number of executants and of     *)
(* launches of the server.                                                 *)
EXTENDS ServerPool, TLAPS

(* A step that ends a process leaves every other one where it was, but for *)
(* zombies, and makes no new holder of the socket.                         *)
LEMMA EndsShrinks ==
  ASSUME TypeOK, NEW p \in Processes, Ends(p)
  PROVE  Holders' \subseteq Holders
<1>1. \A q \in Processes : pc'[q] \in {"zombie", "gone", pc[q]}
  BY DEF Ends, TypeOK
<1> QED
  BY <1>1 DEF Holders, ExecPC

LEMMA EndsKeepsTypes ==
  ASSUME TypeOK, NEW p \in Processes, Ends(p)
  PROVE  /\ pc' \in [Processes -> {"none", "zombie", "gone"} \cup MainPC \cup ExecPC]
         /\ pending' \subseteq Processes
         /\ waiting' \in 0 .. MaxWaiting
<1>1. pc' \in [Processes -> {"none", "zombie", "gone"} \cup MainPC \cup ExecPC]
  BY DEF Ends, TypeOK
<1>2. pending' \subseteq Processes
  BY DEF Ends, TypeOK
<1>3. waiting' \in 0 .. MaxWaiting
  BY PoolAssumption DEF Ends, TypeOK
<1> QED
  BY <1>1, <1>2, <1>3

LEMMA MainIsProcess ==
  ASSUME NEW m \in Launches
  PROVE  Main(m) \in Processes /\ Main(m)[1] = m
BY PoolAssumption DEF Main, Processes

(* The variables are what their comments say in the first state.           *)
LEMMA TypeInit == Init => TypeOK
BY PoolAssumption DEF Init, TypeOK

(* ... and stay so in every step.                                          *)
LEMMA TypeStep == TypeOK /\ [Next]_vars => TypeOK'
<1> SUFFICES ASSUME TypeOK, [Next]_vars
             PROVE  TypeOK'
  OBVIOUS
<1> USE MainIsProcess, PoolAssumption
<1>1. ASSUME NEW m \in Launches, Launch(m)
      PROVE  TypeOK'
  BY <1>1 DEF Launch, Goes, TypeOK, MainPC, ExecPC
<1>2. ASSUME NEW m \in Launches, SetHandler(m)
      PROVE  TypeOK'
  BY <1>2 DEF SetHandler, Goes, TypeOK, MainPC, ExecPC
<1>3. ASSUME NEW m \in Launches, Listen(m) \/ EnterPapa(m)
      PROVE  TypeOK'
  BY <1>3 DEF Listen, EnterPapa, Kill, Goes, TypeOK, MainPC, ExecPC
<1>4. ASSUME NEW m \in Launches, Fork(m)
      PROVE  TypeOK'
  <2>1. forked' \in [Launches -> 0 .. NPROC]
    BY <1>4 DEF Fork, TypeOK
  <2>2. pc' \in [Processes -> {"none", "zombie", "gone"} \cup MainPC \cup ExecPC]
    BY <1>4 DEF Fork, Goes, TypeOK, ExecPC
  <2> QED
    BY <1>4, <2>1, <2>2 DEF Fork, TypeOK
<1>5. ASSUME NEW m \in Launches, ForkLoopEnds(m)
      PROVE  TypeOK'
  BY <1>5 DEF ForkLoopEnds, Goes, TypeOK, MainPC, ExecPC
<1>6. ASSUME NEW m \in Launches, CtrlC(m)
      PROVE  TypeOK'
  BY <1>6 DEF CtrlC, Kill, TypeOK
<1>7. ASSUME NEW p \in Processes, HandleSignal(p)
      PROVE  TypeOK'
  BY <1>7, EndsKeepsTypes DEF HandleSignal, TypeOK
<1>8. ASSUME NEW p \in Processes, Accept(p)
      PROVE  TypeOK'
  BY <1>8 DEF Accept, Goes, TypeOK, ExecPC
<1>9. ASSUME NEW p \in Processes, Greet(p) \/ ClientSaysBye(p)
      PROVE  TypeOK'
  BY <1>9 DEF Greet, ClientSaysBye, Goes, TypeOK, ExecPC
<1>10. ASSUME NEW p \in Processes,
              AcceptFails(p) \/ GreetingFails(p) \/ ClientBreaksOff(p)
       PROVE  TypeOK'
  BY <1>10, EndsKeepsTypes DEF AcceptFails, GreetingFails, ClientBreaksOff, TypeOK
<1>11. ASSUME NEW p \in Processes, KillOne(p)
       PROVE  TypeOK'
  BY <1>11 DEF KillOne, Kill, TypeOK
<1>12. ASSUME NEW m \in Launches, ListenExits(m) \/ WaitpidExits(m)
       PROVE  TypeOK'
  BY <1>12, EndsKeepsTypes DEF ListenExits, WaitpidExits, TypeOK
<1>13. CASE ClientConnects
  BY <1>13 DEF ClientConnects, TypeOK
<1>14. CASE UNCHANGED vars
  BY <1>14 DEF vars, TypeOK
<1> QED
  BY <1>1, <1>2, <1>3, <1>4, <1>5, <1>6, <1>7, <1>8, <1>9, <1>10, <1>11,
     <1>13, <1>14, <1>12 DEF Next, MainStep

(* The variables always have their types, for every NPROC and every number *)
(* of launches.                                                            *)
THEOREM PoolTypeCorrect == Spec => []TypeOK
BY TypeInit, TypeStep, PTL DEF Spec

(* A server takes the socket only when nobody holds it, and only passes it *)
(* on to its own children.                                                 *)
LEMMA OnePoolStep == TypeOK /\ OnePool /\ [Next]_vars => OnePool'
<1> SUFFICES ASSUME TypeOK, OnePool, [Next]_vars
             PROVE  OnePool'
  OBVIOUS
<1>0. ASSUME Holders' \subseteq Holders
      PROVE  OnePool'
  BY <1>0 DEF OnePool
<1>1. ASSUME NEW m \in Launches, Launch(m)
      PROVE  OnePool'
  BY <1>0, <1>1 DEF Launch, Goes, Holders, ExecPC, TypeOK
<1>2. ASSUME NEW m \in Launches, SetHandler(m)
      PROVE  OnePool'
  BY <1>0, <1>2 DEF SetHandler, Goes, Holders, ExecPC, TypeOK
<1>3. ASSUME NEW m \in Launches, Listen(m)
      PROVE  OnePool'
  <2>1. Holders' \subseteq {Main(m)}
    BY <1>3 DEF Listen, Goes, Holders, TypeOK
  <2> QED
    BY <2>1 DEF OnePool
<1>4. ASSUME NEW m \in Launches, Fork(m)
      PROVE  OnePool'
  <2> DEFINE child == <<m, forked[m] + 1>>
  <2>1. Main(m) \in Holders /\ Main(m)[1] = m
    BY <1>4, MainIsProcess DEF Fork, Holders
  <2>2. Holders' \subseteq Holders \cup {child}
    BY <1>4 DEF Fork, Goes, Holders, TypeOK
  <2>3. \A p \in Holders : p[1] = m
    BY <2>1 DEF OnePool
  <2>4. \A p \in Holders' : p[1] = m
    BY <2>2, <2>3
  <2> QED
    BY <2>4 DEF OnePool
<1>5. ASSUME NEW m \in Launches, ForkLoopEnds(m)
      PROVE  OnePool'
  BY <1>0, <1>5 DEF ForkLoopEnds, Goes, Holders, ExecPC, TypeOK
<1>6. ASSUME NEW p \in Processes,
             HandleSignal(p) \/ AcceptFails(p) \/ GreetingFails(p) \/ ClientBreaksOff(p)
      PROVE  OnePool'
  BY <1>0, <1>6, EndsShrinks DEF HandleSignal, AcceptFails, GreetingFails, ClientBreaksOff
<1>7. ASSUME NEW p \in Processes, Accept(p) \/ Greet(p) \/ ClientSaysBye(p)
      PROVE  OnePool'
  BY <1>0, <1>7 DEF Accept, Greet, ClientSaysBye, Goes, Holders, ExecPC, TypeOK
<1>8. ASSUME UNCHANGED pc
      PROVE  OnePool'
  BY <1>8 DEF OnePool, Holders
<1>9. ASSUME NEW m \in Launches, EnterPapa(m)
      PROVE  OnePool'
  BY <1>0, <1>9 DEF EnterPapa, Goes, Holders, ExecPC, TypeOK
<1>10. ASSUME NEW m \in Launches, ListenExits(m) \/ WaitpidExits(m)
       PROVE  OnePool'
  BY <1>0, <1>10, MainIsProcess, EndsShrinks DEF ListenExits, WaitpidExits
<1> QED
  BY <1>1, <1>2, <1>3, <1>4, <1>5, <1>6, <1>7, <1>8, <1>9, <1>10
     DEF Next, MainStep, vars, CtrlC, KillOne, ClientConnects

(* Whatever is left of the servers launched before, everyone who holds the *)
(* listening socket belongs to one launch.                                 *)
THEOREM OnePoolAtATime == Spec => []OnePool
<1>1. Init => OnePool
  BY DEF Init, OnePool, Holders, ExecPC
<1>2. TypeOK /\ OnePool /\ [Next]_vars => OnePool'
  BY OnePoolStep
<1> QED
  BY <1>1, <1>2, PoolTypeCorrect, PTL DEF Spec

-----------------------------------------------------------------------------
(* What ctrl-C comes to.                                                   *)

(* Every process of a server that was stopped with ctrl-C has a SIGINT to  *)
(* handle for as long as it is there: of those that main forked before it  *)
(* handled its own, nobody was missed.                                     *)
StoppedAreTold ==
  \A m \in stopping : \A p \in Processes : p[1] = m /\ Alive(p) => p \in pending

(* After a ctrl-C no process of that server starts, and those that are     *)
(* there do nothing but end, main perhaps by way of handlerPapa.           *)
StoppedOnlyEnd ==
  [][\A p \in Processes : p[1] \in stopping =>
       pc'[p] \in {pc[p], "papa", "zombie", "gone"}]_vars

ToldInv ==
  /\ TypeOK /\ StoppedAreTold
  /\ \A m \in stopping : pc[Main(m)] # "none"

(* What a step does to the processes that were stopped.                    *)
Dying ==
  /\ pc' \in [Processes -> {"none", "zombie", "gone"} \cup MainPC \cup ExecPC]
  /\ \A p \in Processes : p[1] \in stopping =>
       /\ pc'[p] \in {pc[p], "papa", "zombie", "gone"}
       /\ Alive(p)' => Alive(p) /\ (p \in pending => p \in pending')

LEMMA DyingKeepsTold ==
  ASSUME ToldInv, TypeOK', Dying, stopping' = stopping
  PROVE  ToldInv'
<1>1. StoppedAreTold'
  BY DEF ToldInv, Dying, StoppedAreTold
<1>2. \A m \in stopping : pc'[Main(m)] # "none"
  BY MainIsProcess DEF ToldInv, Dying, TypeOK
<1> QED
  BY <1>1, <1>2 DEF ToldInv

(* A process moves from where it was, and no signal is lost: that of a     *)
(* server that was not stopped, or main on its way into handlerPapa.       *)
LEMMA MoveIsDying ==
  ASSUME ToldInv, NEW p \in Processes,
         NEW at \in {"none", "zombie", "gone"} \cup MainPC \cup ExecPC, Goes(p, at),
         p[1] \in stopping => at = "papa" /\ Alive(p), pending \subseteq pending'
  PROVE  Dying
<1>1. /\ pc' \in [Processes -> {"none", "zombie", "gone"} \cup MainPC \cup ExecPC]
      /\ pc'[p] = at /\ \A q \in Processes \ {p} : pc'[q] = pc[q]
  BY DEF Goes, ToldInv, TypeOK
<1> QED
  BY <1>1 DEF Dying, Alive

(* A process ends and takes its own signal with it, no other.              *)
LEMMA EndIsDying ==
  ASSUME ToldInv, NEW p \in Processes, Ends(p)
  PROVE  Dying
<1>1. /\ pc' \in [Processes -> {"none", "zombie", "gone"} \cup MainPC \cup ExecPC]
      /\ pc'[p] \in {"zombie", "gone"} /\ pending' = pending \ {p}
      /\ \A q \in Processes : pc'[q] \in {"zombie", "gone", pc[q]}
  BY DEF Ends, ToldInv, TypeOK
<1> QED
  BY <1>1 DEF Dying, Alive, MainPC, ExecPC

(* A process that steps by itself has no signal to handle, and is not of a *)
(* server that was stopped.                                                *)
LEMMA ProcessingGoesOn ==
  ASSUME ToldInv, NEW p \in Processes, Processing(p)
  PROVE  p[1] \notin stopping
BY DEF ToldInv, StoppedAreTold, Processing, Processes

LEMMA StepIsDying ==
  ASSUME ToldInv, TypeOK', [Next]_vars
  PROVE  Dying /\ ToldInv'
<1>1. ASSUME NEW m \in Launches, Launch(m)
      PROVE  Dying /\ stopping' = stopping
  <2>1. m \notin stopping
    BY <1>1 DEF Launch, ToldInv
  <2> QED
    BY <1>1, <2>1, MainIsProcess, MoveIsDying DEF Launch, MainPC
<1>2. ASSUME NEW m \in Launches, SetHandler(m) \/ Listen(m) \/ ForkLoopEnds(m)
      PROVE  Dying /\ stopping' = stopping
  <2>1. m \notin stopping
    BY <1>2, MainIsProcess, ProcessingGoesOn DEF SetHandler, Listen, ForkLoopEnds
  <2>2. PICK at \in MainPC : Goes(Main(m), at)
    BY <1>2 DEF SetHandler, Listen, ForkLoopEnds, MainPC
  <2>3. pending' = pending /\ stopping' = stopping
    BY <1>2 DEF SetHandler, Listen, ForkLoopEnds
  <2> QED
    BY <2>1, <2>2, <2>3, MainIsProcess, MoveIsDying
<1>3. ASSUME NEW m \in Launches, Fork(m)
      PROVE  Dying /\ stopping' = stopping
  <2>1. m \notin stopping
    BY <1>3, MainIsProcess, ProcessingGoesOn DEF Fork
  <2>2. PICK c \in Processes : c = <<m, forked[m] + 1>> /\ c[1] = m
    BY <1>3, PoolAssumption DEF Fork, ToldInv, TypeOK, Processes
  <2>3. pending' = pending /\ stopping' = stopping
    BY <1>3 DEF Fork
  <2>4. CASE Goes(c, "accept")
    BY <2>1, <2>2, <2>3, <2>4, MoveIsDying DEF ExecPC
  <2>5. CASE UNCHANGED pc
    BY <2>3, <2>5 DEF Dying, Alive, ToldInv, TypeOK
  <2> QED
    BY <1>3, <2>2, <2>4, <2>5 DEF Fork
<1>4. ASSUME NEW m \in Launches, EnterPapa(m)
      PROVE  Dying /\ stopping' = stopping
  <2>1. Alive(Main(m)) /\ Goes(Main(m), "papa")
    BY <1>4 DEF EnterPapa, Alive, MainPC
  <2>2. pending \subseteq pending' /\ stopping' = stopping
    BY <1>4 DEF EnterPapa, Kill
  <2> QED
    BY <2>1, <2>2, MainIsProcess, MoveIsDying DEF MainPC
<1>5. ASSUME NEW m \in Launches, ListenExits(m) \/ WaitpidExits(m)
      PROVE  Dying /\ stopping' = stopping
  BY <1>5, MainIsProcess, EndIsDying DEF ListenExits, WaitpidExits
<1>6. ASSUME NEW p \in Processes,
             HandleSignal(p) \/ AcceptFails(p) \/ GreetingFails(p) \/ ClientBreaksOff(p)
      PROVE  Dying /\ stopping' = stopping
  BY <1>6, EndIsDying DEF HandleSignal, AcceptFails, GreetingFails, ClientBreaksOff
<1>7. ASSUME NEW p \in Processes, Accept(p) \/ Greet(p) \/ ClientSaysBye(p)
      PROVE  Dying /\ stopping' = stopping
  <2>1. p[1] \notin stopping
    BY <1>7, ProcessingGoesOn DEF Accept, Greet, ClientSaysBye
  <2>2. PICK at \in ExecPC : Goes(p, at)
    BY <1>7 DEF Accept, Greet, ClientSaysBye, ExecPC
  <2>3. pending' = pending /\ stopping' = stopping
    BY <1>7 DEF Accept, Greet, ClientSaysBye
  <2> QED
    BY <2>1, <2>2, <2>3, MoveIsDying
<1>8. ASSUME pc' = pc, pending \subseteq pending'
      PROVE  Dying
  BY <1>8 DEF Dying, Alive, ToldInv, TypeOK
<1>9. ASSUME NEW p \in Processes, KillOne(p)
      PROVE  Dying /\ stopping' = stopping
  BY <1>8, <1>9 DEF KillOne, Kill
<1>10. CASE ClientConnects \/ UNCHANGED vars
  <2>1. pc' = pc /\ pending' = pending /\ stopping' = stopping
    BY <1>10 DEF ClientConnects, vars
  <2>2. Dying
    BY <1>8, <2>1
  <2> QED
    BY <2>1, <2>2, DyingKeepsTold
<1>11. ASSUME NEW m \in Launches, CtrlC(m)
       PROVE  Dying /\ ToldInv'
  <2>1. /\ pc' = pc /\ stopping' = stopping \cup {m} /\ Alive(Main(m))
        /\ pending' = pending \cup {p \in Processes : p[1] = m /\ Alive(p)}
    BY <1>11 DEF CtrlC, Kill
  <2>2. \A p \in Processes : Alive(p)' <=> Alive(p)
    BY <2>1 DEF Alive
  <2>3. StoppedAreTold'
    BY <2>1, <2>2 DEF ToldInv, StoppedAreTold
  <2>4. \A k \in stopping' : pc'[Main(k)] # "none"
    BY <2>1 DEF ToldInv, Alive, MainPC, ExecPC
  <2>5. Dying
    BY <1>8, <2>1
  <2> QED
    BY <2>3, <2>4, <2>5 DEF ToldInv
<1> QED
  BY <1>1, <1>2, <1>3, <1>4, <1>5, <1>6, <1>7, <1>9, <1>10, <1>11, DyingKeepsTold
  DEF Next, MainStep

LEMMA ToldInit == Init => ToldInv
BY TypeInit DEF Init, ToldInv, StoppedAreTold

LEMMA ToldStep == ToldInv /\ [Next]_vars => ToldInv' /\ Dying
<1> SUFFICES ASSUME ToldInv, [Next]_vars
             PROVE  ToldInv' /\ Dying
  OBVIOUS
<1>1. TypeOK'
  BY TypeStep DEF ToldInv
<1> QED
  BY <1>1, StepIsDying

(* ctrl-C is for every process of a server, for any number of them and     *)
(* wherever main is in its loop of forks: nobody is left that it has not   *)
(* reached.                                                                *)
THEOREM CtrlCMissesNobody == Spec => []StoppedAreTold
<1>1. ToldInv => StoppedAreTold
  BY DEF ToldInv
<1> QED
  BY <1>1, ToldInit, ToldStep, PTL DEF Spec

(* What ctrl-C has stopped does not start again: processes only end, main  *)
(* of a server forks nobody and nobody accepts a connection.  With the     *)
(* signals being delivered this is why CtrlCStopsAll ends.                 *)
THEOREM StoppedServersOnlyEnd == Spec => StoppedOnlyEnd
<1>1. ToldInv /\ [Next]_vars =>
        [\A p \in Processes : p[1] \in stopping =>
           pc'[p] \in {pc[p], "papa", "zombie", "gone"}]_vars
  BY ToldStep DEF Dying
<1> QED
  BY <1>1, ToldInit, ToldStep, PTL DEF Spec, StoppedOnlyEnd

=============================================================================
