---------------------------- MODULE KernelProofs ----------------------------
(***************************************************************************)
(* For any number of philosophers and slots: the kernel with its scheduler *)
(* is a behaviour of module Dining, so what holds at the table whatever    *)
(* the interleaving holds under round robin, with a console that starts    *)
(* and kills programs and slots that change hands.                         *)
(***************************************************************************)
EXTENDS Kernel, DiningProofs

(* The scheduler.                                                            *)

\* The loop looks only at slots of the table.
LEMMA CandidateInTable ==
  \A pid, i \in Pids : Candidate(pid, i) \in Pids
BY KernelAssumption, TableAssumption, SMT DEF Pids, Candidate

\* While somebody lives, the processor goes to one who lives.
LEMMA SchedulerPicksLive ==
  ASSUME NEW programs, NEW w \in Pids, programs[w] # "free",
         current \in Pids, scheduler(programs)
  PROVE  current' \in Pids /\ programs[current'] # "free"
<1> DEFINE t == PcbTable(programs)
<1>1. \A p \in Pids : t[p].available = IF programs[p] = "free" THEN 1 ELSE 0
  BY DEF PcbTable
<1>2. t[w].available = 0
  BY <1>1
<1>3. current' \in nextProcess(t, current)
  BY DEF scheduler
<1> HIDE DEF t
<1>4. current' \in Pids /\ t[current'].available = 0
  BY <1>2, <1>3 DEF nextProcess
<1> QED
  BY <1>1, <1>4

-----------------------------------------------------------------------------
(* Slots and philosophers.                                                   *)

LEMMA PidsOfPhils ==
  /\ ConsolePid \in Pids /\ WaiterPid \in Pids /\ ConsolePid # WaiterPid
  /\ \A i \in Phils : PhilPid(i) \in Pids \ {ConsolePid, WaiterPid}
  /\ \A i, m \in Phils : i # m => PhilPid(i) # PhilPid(m)
BY KernelAssumption, TableAssumption DEF Pids, Phils, ConsolePid, WaiterPid, PhilPid

\* Nobody kills the waiter, so there is always one who can run; and no slot but a
\* philosopher's runs a philosopher.
SlotsKept ==
  /\ prog[ConsolePid] = "console"
  /\ prog[WaiterPid] = "waiter"
  /\ \A p \in Pids : prog[p] = "phil" => p - 2 \in Phils

KInv == KTypeOK /\ SlotsKept

LEMMA KInitInv == KInit => KInv
<1> SUFFICES ASSUME KInit PROVE KInv
  OBVIOUS
<1>1. \A p \in Pids : prog[p] = IF p = ConsolePid THEN "console"
                                ELSE IF p = WaiterPid THEN "waiter"
                                ELSE IF p \in {PhilPid(i) : i \in Phils} THEN "phil"
                                ELSE "free"
  BY PidsOfPhils DEF KInit
<1>2. prog \in [Pids -> {"console", "waiter", "phil", "P3", "free"}]
  <2>1. prog = [p \in Pids |-> prog[p]]
    BY DEF KInit
  <2>2. \A p \in Pids : prog[p] \in {"console", "waiter", "phil", "P3", "free"}
    BY <1>1
  <2> QED
    BY <2>1, <2>2
<1>3. \A i \in Phils : prog[PhilPid(i)] = "phil" /\ pc[i] = "ask"
  BY <1>1, PidsOfPhils DEF KInit, Init
<1>4. \A p \in Pids : prog[p] = "phil" => p - 2 \in Phils
  BY <1>1 DEF PhilPid, Phils
<1>5. TypeOK
  BY TypeInit DEF KInit
<1> QED
  BY <1>1, <1>2, <1>3, <1>4, <1>5, PidsOfPhils DEF KInit, KInv, KTypeOK, SlotsKept

\* The steps that leave every slot to its program and everybody alive who was.
LEMMA SlotsUnchanged ==
  ASSUME KInv, TypeOK', UNCHANGED prog,
         current' \in Pids, prog[current'] # "free",
         \A i \in Phils : (pc[i] = "killed") = (pc'[i] = "killed")
  PROVE  KInv'
BY DEF KInv, KTypeOK, SlotsKept

LEMMA PhilAlive ==
  ASSUME TypeOK, NEW i \in Phils, Phil(i), NEW k \in Phils
  PROVE  (pc[k] = "killed") = (pc'[k] = "killed")
BY DEF TypeOK, Phil, Ask, Request, RequestFull, Look, ReadPermission,
       ClearPermission, Finish, FinishFull

\* One slot p changes hands, and it is neither the console's nor the waiter's.
LEMMA SlotChanges ==
  ASSUME KInv, TypeOK', NEW p \in Pids \ {ConsolePid, WaiterPid}, NEW v \in {"P3", "free"},
         prog' = [prog EXCEPT ![p] = v],
         current' \in Pids, prog'[current'] # "free",
         \A i \in Phils : IF PhilPid(i) = p THEN pc'[i] = "killed" ELSE pc'[i] = pc[i]
  PROVE  KInv'
<1>1. \A q \in Pids : prog'[q] = IF q = p THEN v ELSE prog[q]
  BY DEF KInv, KTypeOK
<1>2. SlotsKept'
  BY <1>1, PidsOfPhils DEF KInv, SlotsKept
<1>3. prog' \in [Pids -> {"console", "waiter", "phil", "P3", "free"}]
  BY DEF KInv, KTypeOK
<1>4. \A i \in Phils : pc'[i] = "killed" <=> prog'[PhilPid(i)] # "phil"
  BY <1>1, PidsOfPhils DEF KInv, KTypeOK
<1> QED
  BY <1>2, <1>3, <1>4 DEF KInv, KTypeOK

-----------------------------------------------------------------------------
(* Steps.                                                                    *)

\* What the scheduler lets happen at the table could happen there anyway.
LEMMA KStepDines ==
  ASSUME KInv, [KNext]_kvars
  PROVE  [Next]_vars
<1>1. CASE WaiterCall
  BY <1>1 DEF WaiterCall, Next
<1>2. ASSUME NEW i \in Phils, PhilCall(i)
      PROVE  [Next]_vars
  BY <1>2 DEF PhilCall, Next
<1>3. CASE ConsoleKill
  <2>1. UNCHANGED vars \/ \E i \in Killable : Kill(i)
    BY <1>3 DEF ConsoleKill, Kill
  <2> QED
    BY <2>1, TableAssumption DEF Next
<1>4. CASE Timer \/ ConsoleFork \/ ProgramExit \/ UNCHANGED kvars
  BY <1>4 DEF Timer, ConsoleFork, ProgramExit, kvars
<1> QED
  BY <1>1, <1>2, <1>3, <1>4 DEF KNext

LEMMA KInvStep == KInv /\ [KNext]_kvars => KInv'
<1> SUFFICES ASSUME KInv, [KNext]_kvars PROVE KInv'
  OBVIOUS
<1>0. TypeOK /\ TypeOK'
  BY KStepDines, TypeStep DEF KInv, KTypeOK
<1>a. current \in Pids /\ prog[current] # "free" /\ prog[WaiterPid] # "free"
      /\ WaiterPid \in Pids
  BY PidsOfPhils DEF KInv, KTypeOK, SlotsKept
<1>1. CASE Timer
  <2>1. current' \in Pids /\ prog[current'] # "free"
    BY <1>1, <1>a, SchedulerPicksLive DEF Timer
  <2> QED
    BY <1>0, <1>1, <2>1, SlotsUnchanged DEF Timer, vars
<1>2. CASE WaiterCall
  BY <1>0, <1>2, <1>a, WaiterLeavesPhils, SlotsUnchanged DEF WaiterCall
<1>3. ASSUME NEW i \in Phils, PhilCall(i)
      PROVE  KInv'
  BY <1>0, <1>3, <1>a, PhilAlive, SlotsUnchanged DEF PhilCall
<1>4. CASE ConsoleFork
  <2>1. PICK q \in Pids : newPid(PcbTable(prog), q) /\ prog' = [prog EXCEPT ![q] = "P3"]
    BY <1>4 DEF ConsoleFork
  <2>2. prog[q] = "free"
    BY <2>1 DEF newPid, PcbTable
  <2>3. q \notin {ConsolePid, WaiterPid} /\ q # current
    BY <1>a, <2>2, PidsOfPhils DEF KInv, SlotsKept
  <2>4. UNCHANGED << pc, current >>
    BY <1>4 DEF ConsoleFork, vars
  <2>5. \A i \in Phils : PhilPid(i) = q => pc'[i] = "killed"
    BY <2>2, <2>4 DEF KInv, KTypeOK
  <2>6. prog'[current'] # "free"
    BY <1>a, <2>1, <2>3, <2>4 DEF KInv, KTypeOK
  <2> QED
    BY <1>0, <1>a, <2>1, <2>3, <2>4, <2>5, <2>6, SlotChanges
<1>5. CASE ConsoleKill
  <2>1. PICK p \in Pids \ {ConsolePid, WaiterPid} :
          /\ IF prog[p] = "phil" THEN Kill(p - 2) ELSE UNCHANGED vars
          /\ prog' = [prog EXCEPT ![p] = "free"]
    BY <1>5 DEF ConsoleKill
  <2>2. prog'[WaiterPid] # "free"
    BY <1>a, <2>1 DEF KInv, KTypeOK
  <2>3. current' \in Pids /\ prog'[current'] # "free"
    BY <1>5, <1>a, <2>2, SchedulerPicksLive DEF ConsoleKill
  <2>4. ASSUME NEW i \in Phils
        PROVE  IF PhilPid(i) = p THEN pc'[i] = "killed" ELSE pc'[i] = pc[i]
    <3>1. CASE prog[p] = "phil"
      <4>1. Kill(p - 2) /\ p - 2 \in Phils
        BY <2>1, <3>1, TableAssumption DEF Kill
      <4>2. PhilPid(i) = p <=> i = p - 2
        BY DEF PhilPid, Pids, Phils
      <4> QED
        BY <1>0, <4>1, <4>2 DEF TypeOK, Kill
    <3>2. CASE prog[p] # "phil"
      BY <2>1, <3>2 DEF vars, KInv, KTypeOK
    <3> QED
      BY <3>1, <3>2
  <2> QED
    BY <1>0, <2>1, <2>3, <2>4, SlotChanges
<1>6. CASE ProgramExit
  <2>1. prog[current] = "P3" /\ prog' = [prog EXCEPT ![current] = "free"] /\ UNCHANGED pc
    BY <1>6 DEF ProgramExit, vars
  <2>2. current \in Pids \ {ConsolePid, WaiterPid}
    BY <1>a, <2>1 DEF KInv, SlotsKept
  <2>3. prog'[WaiterPid] # "free"
    BY <1>a, <2>1, <2>2 DEF KInv, KTypeOK
  <2>4. current' \in Pids /\ prog'[current'] # "free"
    BY <1>6, <1>a, <2>3, SchedulerPicksLive DEF ProgramExit
  <2>5. \A i \in Phils : PhilPid(i) = current => pc'[i] = "killed"
    BY <2>1 DEF KInv, KTypeOK
  <2> QED
    BY <1>0, <2>1, <2>2, <2>4, <2>5, SlotChanges
<1>7. CASE UNCHANGED kvars
  BY <1>0, <1>7, <1>a, SlotsUnchanged DEF kvars, vars
<1> QED
  BY <1>1, <1>2, <1>3, <1>4, <1>5, <1>6, <1>7 DEF KNext

LEMMA KInvHolds == KSpec => []KInv
BY KInitInv, KInvStep, PTL DEF KSpec

\* The processor is never with a slot nobody lives in, and a philosopher's slot is
\* his as long as he lives.
THEOREM KernelTypeCorrect == KSpec => []KTypeOK
BY KInvHolds, PTL DEF KInv

\* The scheduled kernel is a behaviour of the table at which everybody acts when he
\* likes: the safety half of Dines (the fairness it gives is left to TLC).
THEOREM KernelDines == KSpec => Spec
<1>1. KInv /\ [KNext]_kvars => [Next]_vars
  BY KStepDines
<1>2. KInit => Init
  BY DEF KInit
<1> QED
  BY <1>1, <1>2, KInvHolds, PTL DEF KSpec, Spec

\* So under the scheduler, too, no two philosophers who share a fork are permitted
\* to eat together.
THEOREM KernelExclusive == KSpec => []ExclusivePermission
BY KernelDines, Exclusive, PTL

\* And while one of them is, the waiter's array withholds the forks he shares.
THEOREM KernelWithheld == KSpec => []ForksWithheld
BY KernelDines, Withheld, PTL

\* And the table's promise is kept: each eats once, and never beside a neighbour.
THEOREM KernelKeepsTable == KSpec => KeepsTable
BY KernelDines, KeepsTheTable, PTL
=============================================================================
