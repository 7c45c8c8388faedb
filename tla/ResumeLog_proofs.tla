-------------------------- MODULE ResumeLog_proofs --------------------------
(***************************************************************************)
(* What is proved of .log and of descriptors, for every number of clients, *)
(* executants and files and every size of the tables: an executant wants   *)
(* for nothing but what the .logs it has read cost it, readlog() finds     *)
(* room, and what the handler saves is torn in the first copy of a         *)
(* transfer alone.                                                         *)
(***************************************************************************)
EXTENDS ResumeLog, TLAPS

USE ResumeLogAssumption DEF ResumeLogAssumption

(* What an executant works with at each place.                            *)
Held(place) ==
  IF place = "accept" THEN 1
  ELSE IF place \in {"turn", "readlog", "open", "waiting"} THEN 2
  ELSE IF place \in {"found", "sending"} THEN 3
  ELSE 0

Backed(p) == p \in Executants => /\ pc[p] \in ExecPC
                                 /\ fds[p] >= Held(pc[p])

(* Beyond that it has what the .logs it has read cost it, two descriptors  *)
(* each, and of the last one only the FILE as long as its resumption is    *)
(* not over.                                                               *)
Resumes(p) == pc[p] = "open" \/ p \in resuming

Accounted(p) ==
  p \in Executants =>
    /\ p \in resuming => pc[p] = "sending"
    /\ fds[p] <= Held(pc[p]) + 2 * reads[p]
    /\ Resumes(p) => fds[p] < Held(pc[p]) + 2 * reads[p]
    /\ p \in refused => OpenMax < 4 + 2 * reads[p]

(* Where each field of global_log comes from while it is copied, and when  *)
(* it is not.                                                              *)
Copied(p) ==
  p \in Clients =>
    /\ pc[p] \notin {"first", "loop"} => copying[p] = {}
    /\ copying[p] = {} \/ pc[p] # "first" => global_log[p] = kept[p]
    /\ pc[p] = "loop" => kept[p] = log[p]
    /\ pc[p] = "first" /\ copying[p] # {} =>
         /\ \A x \in Fields \ copying[p] : global_log[p][x] = log[p][x]
         /\ \A x \in copying[p] :
              \/ global_log[p][x] = kept[p][x]
              \/ x = "filename" /\ global_log[p][x] = Torn

Sound(p) ==
  /\ pc[p] = "readlog" => Room(p)
  /\ Backed(p)
  /\ Accounted(p)
  /\ Copied(p)

LogInv == TypeOK /\ \A p \in Processes : Sound(p)

(* A step is one process's, and leaves the others as they were.            *)
Step(p) ==
  \/ Turn(p)
  \/ p \in Executants /\ ExecStep(p)
  \/ p \in Clients /\ ClientStep(p)

Only(p) ==
  \A q \in Processes \ {p} :
    /\ pc'[q] = pc[q] /\ fds'[q] = fds[q]
    /\ log'[q] = log[q] /\ global_log'[q] = global_log[q] /\ copying'[q] = copying[q]
    /\ q \in resuming' <=> q \in resuming
    /\ q \in Clients => kept'[q] = kept[q]
    /\ q \in Executants => reads'[q] = reads[q]
    /\ q \in refused' <=> q \in refused

LEMMA OthersStay ==
  ASSUME TypeOK, NEW p \in Processes, Step(p)
  PROVE  Only(p)
<1> USE DEF Only, Goes, Opens, Closes, Same, memory, Refused, IsRefused
<1>1. CASE Turn(p)
  BY <1>1 DEF Turn, TypeOK, Look, Read, Reads, ReadExits, DiesRefused, Ends, OpenLogged,
     PassOver
<1>2. CASE p \in Executants /\ ExecStep(p)
  BY <1>2 DEF ExecStep, TypeOK, Accept, ServeGet, ServeOther, Catchsize, Sent, ExecDies,
     DiesRefused, Ends
<1>3. CASE p \in Clients /\ ClientStep(p)
  BY <1>3 DEF ClientStep, TypeOK, Launch, Prompt, OpenCopy, OpenExits, Head, CopyField,
     Received, Interrupt, ClientExits, DiesRefused, Ends
<1> QED
  BY <1>1, <1>2, <1>3 DEF Step

LEMMA LogOfType ==
  ASSUME NEW f \in Names \cup {Zero, Torn}
  PROVE  LogOf(f) \in LogType
BY DEF LogOf, LogType

(* The types, for the end of a process and for every step.                 *)
LEMMA EndsTypes ==
  ASSUME TypeOK, NEW p \in Processes, Ends(p)
  PROVE  /\ pc' \in [Processes -> ClientPC \cup ExecPC]
         /\ fds' \in [Processes -> 0 .. OpenMax]
         /\ log' \in [Processes -> LogType] /\ global_log' \in [Processes -> LogType]
         /\ copying' \in [Processes -> SUBSET Fields]
         /\ resuming' \subseteq Processes /\ answered' \subseteq Clients
         /\ kept' \in [Clients -> LogType]
<1>1. LogOf(Zero) \in LogType
  BY LogOfType
<1> QED
  BY <1>1 DEF Ends, Goes, TypeOK, ClientPC, ExecPC

LEMMA TypeStep ==
  ASSUME TypeOK, NEW p \in Processes, Backed(p), Step(p)
  PROVE  TypeOK'
<1> USE DEF Goes, Opens, Closes, Same, memory, Refused, IsRefused, Room, ClientPC, ExecPC
<1>0. LogOf(Zero) \in LogType
  BY LogOfType
<1>1. CASE Look(p)
  BY <1>1 DEF Look, TypeOK
<1>2. CASE Read(p)
  BY <1>2 DEF Read, Reads, TypeOK
<1>3. CASE ReadExits(p)
  BY <1>3, EndsTypes DEF ReadExits, DiesRefused, TypeOK
<1>4. CASE OpenLogged(p)
  BY <1>4 DEF OpenLogged, TypeOK
<1>5. CASE PassOver(p)
  BY <1>0, <1>5 DEF PassOver, TypeOK
<1>6. CASE Accept(p)
  <2>1. CASE DiesRefused(p)
    BY <1>6, <2>1, EndsTypes DEF Accept, DiesRefused, TypeOK
  <2> QED
    BY <1>6, <2>1 DEF Accept, TypeOK
<1>7. CASE ServeGet(p)
  BY <1>7 DEF ServeGet, TypeOK
<1>8. CASE ServeOther(p)
  <2>1. fds[p] \in 0 .. OpenMax /\ fds[p] >= 2
    BY <1>8 DEF ServeOther, TypeOK, Backed, Held
  <2> QED
    BY <1>8, <2>1 DEF ServeOther, TypeOK
<1>9. CASE Catchsize(p)
  <2>1. CASE DiesRefused(p)
    BY <1>9, <2>1, EndsTypes DEF Catchsize, DiesRefused, TypeOK
  <2> QED
    BY <1>9, <2>1 DEF Catchsize, TypeOK
<1>10. CASE p \in Executants /\ Sent(p)
  <2>1. fds[p] \in 0 .. OpenMax /\ fds[p] >= 3
    BY <1>10 DEF Sent, TypeOK, Backed, Held
  <2> QED
    BY <1>0, <1>10, <2>1 DEF Sent, TypeOK
<1>11. CASE ExecDies(p)
  BY <1>11, EndsTypes DEF ExecDies, TypeOK
<1>12. CASE Launch(p)
  BY <1>12 DEF Launch, TypeOK
<1>13. CASE Prompt(p)
  BY <1>13 DEF Prompt, TypeOK
<1>14. CASE OpenCopy(p)
  BY <1>14, LogOfType DEF OpenCopy, TypeOK
<1>15. CASE OpenExits(p)
  BY <1>15, EndsTypes DEF OpenExits, DiesRefused, TypeOK
<1>16. CASE Head(p)
  BY <1>16 DEF Head, TypeOK
<1>17. CASE CopyField(p)
  <2>1. PICK x \in copying[p] :
          \/ /\ global_log' = [global_log EXCEPT ![p][x] = Torn]
             /\ UNCHANGED <<pc, copying>>
          \/ /\ global_log' = [global_log EXCEPT ![p][x] = log[p][x]]
             /\ copying' = [copying EXCEPT ![p] = @ \ {x}]
             /\ Goes(p, IF copying[p] = {x} THEN "loop" ELSE pc[p])
    BY <1>17 DEF CopyField
  <2>2. x \in Fields /\ log[p] \in LogType /\ global_log[p] \in LogType
    BY <2>1 DEF TypeOK
  <2>3. /\ [global_log[p] EXCEPT ![x] = Torn] \in LogType
        /\ [global_log[p] EXCEPT ![x] = log[p][x]] \in LogType
    BY <2>2 DEF LogType
  <2>4. global_log' \in [Processes -> LogType]
    <3>1. PICK r \in LogType : global_log' = [global_log EXCEPT ![p] = r]
      BY <2>1, <2>3
    <3>2. global_log \in [Processes -> LogType]
      BY DEF TypeOK
    <3> QED
      BY ONLY <3>1, <3>2
  <2>5. /\ pc' \in [Processes -> ClientPC \cup ExecPC]
        /\ copying' \in [Processes -> SUBSET Fields]
    BY <2>1 DEF TypeOK
  <2>6. kept' \in [Clients -> LogType]
    BY <1>17, <2>2 DEF CopyField, TypeOK
  <2> QED
    BY <1>17, <2>4, <2>5, <2>6 DEF CopyField, TypeOK
<1>18. CASE Received(p)
  BY <1>0, <1>18 DEF Received, TypeOK
<1>19. CASE Interrupt(p)
  <2>1. dotlog' \in LogType \cup {None}
    BY <1>19 DEF Interrupt, TypeOK
  <2> QED
    BY <1>19, <2>1, EndsTypes DEF Interrupt, TypeOK
<1>20. CASE ClientExits(p)
  BY <1>20, EndsTypes DEF ClientExits, TypeOK
<1> QED
  BY <1>1, <1>2, <1>3, <1>4, <1>5, <1>6, <1>7, <1>8, <1>9, <1>10, <1>11, <1>12, <1>13,
     <1>14, <1>15, <1>16, <1>17, <1>18, <1>19, <1>20 DEF Step, Turn, ExecStep, ClientStep
-----------------------------------------------------------------------------
LEMMA OthersSound ==
  ASSUME NEW p \in Processes, NEW q \in Processes \ {p}, Only(p), Sound(q)
  PROVE  Sound(q)'
<1>1. Room(q)' = Room(q) /\ Backed(q)' = Backed(q) /\ Accounted(q)' = Accounted(q)
  BY DEF Only, Room, Backed, Accounted, Resumes
<1>2. Copied(q)' = Copied(q)
  BY DEF Only, Copied
<1> QED
  BY <1>1, <1>2 DEF Sound, Only

(* What an executant has open, in its own steps.                           *)
LEMMA AccountStep ==
  ASSUME TypeOK, NEW p \in Processes, Sound(p), Step(p)
  PROVE  /\ pc'[p] = "readlog" => Room(p)'
         /\ Backed(p)' /\ Accounted(p)'
<1> USE DEF Goes, Opens, Closes, Same, memory, Refused, IsRefused, Room, Held, ExecPC, Sound,
        Backed, Accounted, Resumes
<1>0. /\ fds[p] \in 0 .. OpenMax /\ OpenMax \in Nat /\ OpenMax >= 4
      /\ p \in Executants => reads[p] \in Nat
  BY DEF TypeOK
<1>1. CASE Look(p)
  BY <1>0, <1>1 DEF Look, TypeOK
<1>2. CASE Read(p)
  BY <1>0, <1>2 DEF Read, Reads, TypeOK
<1>3. CASE ReadExits(p)
  BY <1>0, <1>3 DEF ReadExits, DiesRefused, Ends, TypeOK
<1>4. CASE OpenLogged(p)
  BY <1>0, <1>4 DEF OpenLogged, TypeOK
<1>5. CASE PassOver(p)
  BY <1>0, <1>5 DEF PassOver, TypeOK
<1>6. CASE Accept(p)
  BY <1>0, <1>6 DEF Accept, DiesRefused, Ends, TypeOK
<1>7. CASE ServeGet(p)
  BY <1>0, <1>7 DEF ServeGet, TypeOK
<1>8. CASE ServeOther(p)
  BY <1>0, <1>8 DEF ServeOther, TypeOK
<1>9. CASE Catchsize(p)
  BY <1>0, <1>9 DEF Catchsize, DiesRefused, Ends, TypeOK
<1>10. CASE p \in Executants /\ Sent(p)
  BY <1>0, <1>10 DEF Sent, TypeOK
<1>11. CASE ExecDies(p)
  BY <1>0, <1>11 DEF ExecDies, Ends, TypeOK
<1>12. CASE p \in Clients /\ ClientStep(p)
  <2>1. p \notin Executants
    BY <1>12
  <2>3. pc'[p] = "readlog" => pc[p] = "readlog" /\ fds'[p] = fds[p]
    BY <1>12 DEF ClientStep, Launch, Prompt, OpenCopy, OpenExits, Head, CopyField,
       Received, Interrupt, ClientExits, DiesRefused, Ends, TypeOK
  <2> QED
    BY <2>1, <2>3
<1> QED
  BY <1>1, <1>2, <1>3, <1>4, <1>5, <1>6, <1>7, <1>8, <1>9, <1>10, <1>11, <1>12
  DEF Step, Turn, ExecStep

(* The copies of log into global_log.                                      *)
LEMMA CopiedStep ==
  ASSUME TypeOK, NEW p \in Processes, Copied(p), Step(p)
  PROVE  Copied(p)'
<1> USE DEF Goes, Opens, Closes, Same, memory, Refused, Copied
<1>0. SUFFICES ASSUME p \in Clients
               PROVE  Copied(p)'
  OBVIOUS
<1>1. CASE Turn(p)
  BY <1>0, <1>1 DEF Turn, Look, Read, Reads, ReadExits, DiesRefused, Ends, OpenLogged, PassOver,
     TypeOK
<1>2. CASE Launch(p) \/ Prompt(p) \/ Head(p) \/ Received(p)
  BY <1>0, <1>2 DEF Launch, Prompt, Head, Received, TypeOK
<1>3. CASE OpenCopy(p)
  BY <1>0, <1>3 DEF OpenCopy, TypeOK
<1>4. CASE OpenExits(p) \/ Interrupt(p) \/ ClientExits(p)
  BY <1>0, <1>4 DEF OpenExits, Interrupt, ClientExits, DiesRefused, Ends, TypeOK
<1>5. CASE CopyField(p)
  <2>0. /\ log[p] \in LogType /\ global_log[p] \in LogType /\ kept[p] \in LogType
        /\ copying[p] \subseteq Fields
    BY <1>0 DEF TypeOK
  <2>1. log' = log /\ kept' = IF copying'[p] = {} THEN [kept EXCEPT ![p] = log[p]] ELSE kept
    BY <1>5 DEF CopyField
  <2>2. PICK x \in copying[p] :
          \/ /\ x = "filename" /\ global_log[p][x] # log[p][x]
             /\ global_log' = [global_log EXCEPT ![p][x] = Torn]
             /\ UNCHANGED <<pc, copying>>
          \/ /\ global_log' = [global_log EXCEPT ![p][x] = log[p][x]]
             /\ copying' = [copying EXCEPT ![p] = @ \ {x}]
             /\ Goes(p, IF copying[p] = {x} THEN "loop" ELSE pc[p])
    BY <1>5 DEF CopyField
  <2>3. x \in Fields /\ pc[p] \in {"first", "loop"}
    BY <1>0, <2>0, <2>2
  <2>4. CASE /\ UNCHANGED <<pc, copying>>
             /\ x = "filename" /\ global_log[p][x] # log[p][x]
             /\ global_log' = [global_log EXCEPT ![p][x] = Torn]
    <3>1. pc[p] = "first" /\ pc'[p] = "first"
      BY <1>0, <2>3, <2>4
    <3>2. \A y \in Fields \ {x} : global_log'[p][y] = global_log[p][y]
      BY <2>0, <2>4 DEF TypeOK, LogType
    <3>3. global_log'[p][x] = Torn
      BY <2>0, <2>3, <2>4 DEF TypeOK, LogType
    <3>4. copying'[p] = copying[p] /\ kept' = kept
      BY <2>1, <2>2, <2>4
    <3> QED
      BY <1>0, <2>0, <2>1, <2>2, <2>4, <3>1, <3>2, <3>3, <3>4
  <2>5. CASE /\ global_log' = [global_log EXCEPT ![p][x] = log[p][x]]
             /\ copying' = [copying EXCEPT ![p] = @ \ {x}]
             /\ Goes(p, IF copying[p] = {x} THEN "loop" ELSE pc[p])
    <3>1. \A y \in Fields \ {x} : global_log'[p][y] = global_log[p][y]
      BY <2>0, <2>5 DEF TypeOK, LogType
    <3>2. global_log'[p][x] = log[p][x] /\ global_log'[p] \in LogType
      BY <2>0, <2>3, <2>5 DEF TypeOK, LogType
    <3>3. copying'[p] = copying[p] \ {x}
      BY <2>5 DEF TypeOK
    <3>4. pc'[p] = IF copying[p] = {x} THEN "loop" ELSE pc[p]
      BY <2>5 DEF TypeOK
    <3>5. ASSUME \A y \in Fields : global_log'[p][y] = log[p][y]
          PROVE  global_log'[p] = log[p]
      BY <2>0, <3>2, <3>5 DEF LogType
    <3>6. kept'[p] = IF copying'[p] = {} THEN log[p] ELSE kept[p]
      BY <1>0, <2>1 DEF TypeOK
    <3>7. CASE pc[p] = "loop"
      <4>1. pc'[p] = "loop" /\ global_log[p] = log[p] /\ kept[p] = log[p]
        BY <1>0, <3>4, <3>7
      <4>2. global_log'[p] = log[p] /\ kept'[p] = log[p]
        BY <3>1, <3>2, <3>5, <3>6, <4>1
      <4> QED
        BY <1>0, <2>1, <4>1, <4>2
    <3>8. CASE pc[p] = "first" /\ copying[p] = {x}
      <4>1. pc'[p] = "loop" /\ copying'[p] = {} /\ kept'[p] = log[p]
        BY <3>3, <3>4, <3>6, <3>8
      <4>2. global_log'[p] = log[p]
        BY <1>0, <3>1, <3>2, <3>5, <3>8
      <4> QED
        BY <1>0, <2>1, <4>1, <4>2
    <3>9. CASE pc[p] = "first" /\ copying[p] # {x}
      <4>1. pc'[p] = "first" /\ copying'[p] # {} /\ kept'[p] = kept[p]
        BY <2>2, <3>3, <3>4, <3>6, <3>9
      <4>2. \A y \in Fields \ copying'[p] : global_log'[p][y] = log[p][y]
        BY <1>0, <2>2, <3>1, <3>2, <3>3, <3>9
      <4>3. \A y \in copying'[p] :
              \/ global_log'[p][y] = kept[p][y]
              \/ y = "filename" /\ global_log'[p][y] = Torn
        BY <1>0, <2>0, <2>2, <3>1, <3>3, <3>9
      <4> QED
        BY <1>0, <2>1, <4>1, <4>2, <4>3
    <3> QED
      BY <2>3, <3>7, <3>8, <3>9
  <2> QED
    BY <2>2, <2>4, <2>5
<1> QED
  BY <1>0, <1>1, <1>2, <1>3, <1>4, <1>5 DEF Step, ClientStep, ResumeLogAssumption

-----------------------------------------------------------------------------
LEMMA NextIsAStep ==
  ASSUME Next
  PROVE  \E p \in Processes : Step(p)
<1>1. CASE \E p \in Processes : Turn(p)
  BY <1>1 DEF Step
<1>2. CASE \E e \in Executants : ExecStep(e)
  BY <1>2 DEF Step, Processes
<1>3. CASE \E c \in Clients : ClientStep(c)
  BY <1>3 DEF Step, Processes
<1> QED
  BY <1>1, <1>2, <1>3 DEF Next

(* The inductive invariant: the types, and for each process on its own     *)
(* what it has open and what it has copied.  .log and the other processes  *)
(* only choose which of its steps it takes.                                *)
THEOREM ResumeLogInvariant == Spec => []LogInv
<1>1. Init => LogInv
  <2> SUFFICES ASSUME Init
               PROVE  LogInv
    OBVIOUS
  <2>1. LogOf(Zero) \in LogType
    BY LogOfType
  <2>2. TypeOK
    BY <2>1 DEF Init, TypeOK, ClientPC, ExecPC, Processes
  <2>3. ASSUME NEW p \in Processes
        PROVE  Sound(p)
    BY <2>3 DEF Init, Sound, Backed, Accounted, Resumes, Copied, Held, ExecPC, Processes
  <2> QED
    BY <2>2, <2>3 DEF LogInv
<1>2. LogInv /\ [Next]_vars => LogInv'
  <2> SUFFICES ASSUME LogInv, [Next]_vars
               PROVE  LogInv'
    OBVIOUS
  <2>1. CASE Next
    <3>1. PICK p \in Processes : Step(p)
      BY <2>1, NextIsAStep
    <3>2. TypeOK /\ Sound(p) /\ Backed(p) /\ Copied(p)
      BY DEF LogInv, Sound
    <3>3. TypeOK'
      BY <3>1, <3>2, TypeStep
    <3>4. Sound(p)'
      BY <3>1, <3>2, AccountStep, CopiedStep DEF Sound
    <3>5. ASSUME NEW q \in Processes \ {p}
          PROVE  Sound(q)'
      BY <3>1, <3>2, OthersStay, OthersSound DEF LogInv
    <3> QED
      BY <3>3, <3>4, <3>5 DEF LogInv
  <2>2. CASE UNCHANGED vars
    <3>1. TypeOK' = TypeOK
      BY <2>2 DEF vars, memory, TypeOK
    <3>2. ASSUME NEW q \in Processes
          PROVE  Sound(q)' = Sound(q)
      BY <2>2 DEF vars, memory, Sound, Room, Backed, Accounted, Resumes, Copied
    <3> QED
      BY <3>1, <3>2 DEF LogInv
  <2> QED
    BY <2>1, <2>2
<1> QED
  BY <1>1, <1>2, PTL DEF Spec

(* Every variable keeps its type: in particular no process is counted more *)
(* descriptors than its table holds, or fewer than none.                   *)
THEOREM ResumeLogTypes == Spec => []TypeOK
<1>1. LogInv => TypeOK
  BY DEF LogInv
<1> QED
  BY <1>1, ResumeLogInvariant, PTL

(* An executant is refused a descriptor only once the .logs it has read,   *)
(* at two descriptors each, leave less than four: of all that traitement() *)
(* opens, only the FILE of readlog() and the fd of the resumption it leads *)
(* to are not given back.                                                  *)
THEOREM LogsAloneStarve == Spec => []OnlyLogsStarve
<1>1. LogInv => OnlyLogsStarve
  BY DEF LogInv, TypeOK, Sound, Accounted, OnlyLogsStarve, Processes
<1> QED
  BY <1>1, ResumeLogInvariant, PTL

(* The FILE existslog() gives back is the room readlog() needs.            *)
THEOREM ReadlogHasRoom == Spec => []RoomToRead
<1>1. LogInv => RoomToRead
  BY DEF LogInv, Sound, RoomToRead
<1> QED
  BY <1>1, ResumeLogInvariant, PTL

(* The handler saves a whole log except in the first copy of a transfer;   *)
(* and there each field is the one kept from the last transfer that asked  *)
(* for a block, or the new one, or a torn name.                            *)
THEOREM SavedLogIsKept == Spec => []TornInFirstCopy
<1>1. ASSUME LogInv, NEW c \in Clients
      PROVE  /\ copying[c] = {} \/ pc[c] # "first" => global_log[c] = kept[c]
             /\ pc[c] = "loop" => kept[c] = log[c]
             /\ \A x \in Fields :
                  \/ global_log[c][x] \in {kept[c][x], log[c][x]}
                  \/ x = "filename" /\ global_log[c][x] = Torn
  <2>1. Copied(c)
    BY <1>1 DEF LogInv, Sound, Processes
  <2> QED
    BY <2>1 DEF Copied
<1>2. LogInv => TornInFirstCopy
  BY <1>1 DEF TornInFirstCopy
<1> QED
  BY <1>2, ResumeLogInvariant, PTL

=============================================================================
