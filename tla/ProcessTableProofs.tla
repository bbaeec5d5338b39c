------------------------- MODULE ProcessTableProofs -------------------------
(***************************************************************************)
(* Theorems about ProcessTable for a table of any size, any stack size and *)
(* any set of programs: its types, the identity of slots and PCBs, the     *)
(* disjointness of the stacks and the fairness of a scheduling decision.   *)
(***************************************************************************)
EXTENDS ProcessTable, TLAPS

-----------------------------------------------------------------------------
(* The arithmetic of a ring of TOTALP slots.                                 *)

\* The slot i + 1 places after slot c.
LEMMA CandidateValue ==
  ASSUME NEW c \in Pids, NEW i \in Pids
  PROVE  Candidate(c, i) = IF i + c + 1 < TOTALP THEN i + c + 1 ELSE i + c + 1 - TOTALP
BY TableAssumption, SMT DEF Candidate, Pids

\* The number of slots to pass when going from slot c to slot q.
LEMMA BehindValue ==
  ASSUME NEW c \in Pids, NEW q \in Pids
  PROVE  Behind(c, q) = IF q > c THEN q - c - 1 ELSE q - c - 1 + TOTALP
BY TableAssumption, SMT DEF Behind, Pids

\* The i-th slot the search looks at is a slot of the table, i places behind.
LEMMA CandidateBehind ==
  ASSUME NEW c \in Pids, NEW i \in Pids
  PROVE  /\ Candidate(c, i) \in Pids
         /\ Behind(c, Candidate(c, i)) = i
<1>1. Candidate(c, i) \in Pids
  BY CandidateValue, TableAssumption DEF Pids
<1>2. Behind(c, Candidate(c, i)) = i
  <2>1. Behind(c, Candidate(c, i)) =
          IF Candidate(c, i) > c THEN Candidate(c, i) - c - 1
                                 ELSE Candidate(c, i) - c - 1 + TOTALP
    BY <1>1, BehindValue
  <2> QED
    BY <2>1, CandidateValue, TableAssumption DEF Pids
<1> QED
  BY <1>1, <1>2

\* Every slot is looked at, at the place it has in the ring.
LEMMA BehindCandidate ==
  ASSUME NEW c \in Pids, NEW q \in Pids
  PROVE  /\ Behind(c, q) \in Pids
         /\ Candidate(c, Behind(c, q)) = q
<1>1. Behind(c, q) \in Pids
  BY BehindValue, TableAssumption DEF Pids
<1>2. Candidate(c, Behind(c, q)) = q
  <2>1. Candidate(c, Behind(c, q)) =
          IF Behind(c, q) + c + 1 < TOTALP THEN Behind(c, q) + c + 1
                                           ELSE Behind(c, q) + c + 1 - TOTALP
    BY <1>1, CandidateValue
  <2> QED
    BY <2>1, BehindValue, TableAssumption DEF Pids
<1> QED
  BY <1>1, <1>2

\* nextProcess() finds a process if there is one, and the one it finds is live
\* and no live process is nearer.
LEMMA NextProcessFinds ==
  ASSUME NEW t \in [Pids -> Pcb], NEW c \in Pids, NEW new \in nextProcess(t, c)
  PROVE  /\ new \in Pids
         /\ (\E p \in Pids : t[p].available = 0) =>
              /\ t[new].available = 0
              /\ \A q \in Pids : t[q].available = 0 => Behind(c, new) <= Behind(c, q)
<1>1. CASE \A p \in Pids : t[p].available # 0
  BY <1>1 DEF nextProcess
<1>2. CASE ~ \A p \in Pids : t[p].available # 0
  <2>1. PICK i \in Pids : /\ new = Candidate(c, i)
                          /\ t[new].available = 0
                          /\ \A j \in Pids : j < i => t[Candidate(c, j)].available # 0
    BY <1>2 DEF nextProcess
  <2>2. new \in Pids /\ Behind(c, new) = i
    BY <2>1, CandidateBehind
  <2>3. ASSUME NEW q \in Pids, t[q].available = 0
        PROVE  i <= Behind(c, q)
    <3>1. Behind(c, q) \in Pids /\ Candidate(c, Behind(c, q)) = q
      BY BehindCandidate
    <3>2. ~ (Behind(c, q) < i)
      BY <3>1, <2>1, <2>3
    <3> QED
      BY <3>1, <3>2, TableAssumption DEF Pids
  <2> QED
    BY <2>1, <2>2, <2>3
<1> QED
  BY <1>1, <1>2

-----------------------------------------------------------------------------
(* Types.                                                                    *)

LEMMA TosInt == \A i \in Pids : Tos(i) \in Int
BY TableAssumption DEF Tos, Pids

\* A context switch keeps the types, whatever slots the handler freed first.
LEMMA SchedulerTypes ==
  ASSUME TypeOK, NEW t \in [Pids -> Pcb], scheduler(t)
  PROVE  TypeOK'
<1>1. PICK new \in nextProcess(t, t[current].pid) :
         /\ pcb' = [t EXCEPT ![t[current].pid].ctx = ctx]
         /\ ctx' = pcb'[new].ctx
         /\ current' = new
         /\ orphaned' = (orphaned \/ \A p \in Pids : t[p].available # 0)
  BY DEF scheduler
<1>2. current \in Pids /\ t[current] \in Pcb /\ t[current].pid \in Pids
  BY DEF TypeOK, Pcb
<1>3. new \in Pids
  BY <1>1, <1>2, NextProcessFinds
<1>4. pcb' \in [Pids -> Pcb]
  BY <1>1, <1>2 DEF TypeOK, Pcb
<1>5. ctx' \in Ctx
  BY <1>1, <1>3, <1>4 DEF Pcb
<1>6. orphaned' \in BOOLEAN
  BY <1>1 DEF TypeOK
<1> QED
  BY <1>1, <1>3, <1>4, <1>5, <1>6 DEF TypeOK

\* A PCB whose process ended is still a PCB.
LEMMA FreedTypes ==
  ASSUME NEW p \in Pcb
  PROVE  /\ Freed(p) \in Pcb
         /\ \A x \in Values : [Freed(p) EXCEPT !.ctx.r0 = x] \in Pcb
<1>1. Freed(p) \in Pcb
  BY DEF Freed, Pcb
<1>2. ASSUME NEW x \in Values PROVE [Freed(p) EXCEPT !.ctx.r0 = x] \in Pcb
  <2>1. x \in Int
    BY TableAssumption
  <2> QED
    BY <1>1, <2>1 DEF Pcb, Ctx
<1> QED
  BY <1>1, <1>2

\* exit() and kill() leave the number, the stack and the registers, r0 apart.
LEMMA FreedFields ==
  ASSUME NEW p \in Pcb
  PROVE  /\ Freed(p).pid = p.pid /\ Freed(p).tos = p.tos
         /\ Freed(p).ctx.sp = p.ctx.sp /\ Freed(p).available = 1
         /\ \A x \in Values :
              LET k == [Freed(p) EXCEPT !.ctx.r0 = x]
              IN  /\ k.pid = p.pid /\ k.tos = p.tos
                  /\ k.ctx.sp = p.ctx.sp /\ k.available = 1
<1>1. /\ Freed(p).pid = p.pid /\ Freed(p).tos = p.tos
      /\ Freed(p).ctx = p.ctx /\ Freed(p).available = 1
  BY DEF Freed, Pcb
<1>2. Freed(p) \in Pcb
  BY FreedTypes
<1>3. ASSUME NEW x \in Values
      PROVE  LET k == [Freed(p) EXCEPT !.ctx.r0 = x]
             IN  /\ k.pid = p.pid /\ k.tos = p.tos
                 /\ k.ctx.sp = p.ctx.sp /\ k.available = 1
  BY <1>1, <1>2 DEF Pcb, Ctx
<1> QED
  BY <1>1, <1>3

\* A register context with another stack pointer and another r0.
LEMMA MovedCtx ==
  ASSUME NEW c \in Ctx, NEW s \in Int, NEW v \in Int
  PROVE  /\ [c EXCEPT !.sp = s, !.r0 = v] \in Ctx
         /\ [c EXCEPT !.sp = s, !.r0 = v] = [pc |-> c.pc, sp |-> s, r0 |-> v]
<1> DEFINE e == [c EXCEPT !.sp = s]
           d == [e EXCEPT !.r0 = v]
<1>1. e \in Ctx /\ e = [pc |-> c.pc, sp |-> s, r0 |-> c.r0]
  BY DEF Ctx
<1> HIDE DEF e
<1>2. d \in Ctx /\ d = [pc |-> e.pc, sp |-> e.sp, r0 |-> v]
  BY <1>1 DEF Ctx
<1> QED
  BY <1>1, <1>2 DEF e

\* A register context with another program and another stack pointer.
LEMMA ExecutedCtx ==
  ASSUME NEW c \in Ctx, NEW x \in Programs \cup {NoProgram}, NEW s \in Int
  PROVE  /\ [c EXCEPT !.pc = x, !.sp = s] \in Ctx
         /\ [c EXCEPT !.pc = x, !.sp = s] = [pc |-> x, sp |-> s, r0 |-> c.r0]
<1> DEFINE e == [c EXCEPT !.pc = x]
           d == [e EXCEPT !.sp = s]
<1>1. e \in Ctx /\ e = [pc |-> x, sp |-> c.sp, r0 |-> c.r0]
  BY DEF Ctx
<1> HIDE DEF e
<1>2. d \in Ctx /\ d = [pc |-> e.pc, sp |-> s, r0 |-> e.r0]
  BY <1>1 DEF Ctx
<1> QED
  BY <1>1, <1>2 DEF e

\* What fork() puts in the PCB of the child.
LEMMA ChildPcb ==
  ASSUME TypeOK, NEW newId \in Pids
  PROVE  LET t == [pcb EXCEPT ![newId] = ZeroPcb]
             k == Child(newId)
         IN  /\ k \in Pcb
             /\ k.pid = newId
             /\ k.available = 0
             /\ k.tos = Tos(newId)
             /\ k.ctx.pc = ctx.pc
             /\ k.ctx.sp = Tos(newId) - (t[t[current].pid].tos - ctx.sp)
             /\ k.ctx.r0 = 0
<1> DEFINE t == [pcb EXCEPT ![newId] = ZeroPcb]
           parent == t[t[current].pid]
           s == Tos(newId) - (parent.tos - ctx.sp)
           c == [ctx EXCEPT !.sp = s, !.r0 = 0]
<1>1. ZeroPcb \in Pcb
  BY TableAssumption DEF ZeroPcb, ZeroCtx, Pcb, Ctx, Pids
<1>2. t \in [Pids -> Pcb]
  BY <1>1 DEF TypeOK
<1>3. parent \in Pcb
  BY <1>2 DEF TypeOK, Pcb
<1>4. s \in Int
  BY <1>3, TosInt DEF TypeOK, Pcb, Ctx
<1>5. ctx \in Ctx
  BY DEF TypeOK
<1>6. c \in Ctx /\ c = [pc |-> ctx.pc, sp |-> s, r0 |-> 0]
  <2> HIDE DEF parent, s
  <2>1. 0 \in Int
    OBVIOUS
  <2> QED
    BY <1>4, <1>5, <2>1, MovedCtx, Zenon
<1>7. parent.priority \in Nat
  BY <1>3 DEF Pcb
<1>8. Child(newId) = [pid |-> newId, available |-> 0, priority |-> parent.priority,
                      age |-> 0, tos |-> Tos(newId), ctx |-> c]
  BY DEF Child
<1> HIDE DEF parent, s, c
<1>9. /\ Child(newId) \in Pcb
      /\ Child(newId).pid = newId
      /\ Child(newId).available = 0
      /\ Child(newId).tos = Tos(newId)
      /\ Child(newId).ctx = c
  BY <1>1, <1>6, <1>7, <1>8, TosInt DEF Pcb
<1> QED
  BY <1>6, <1>9 DEF parent, s

\* Every handler and every step of a program keeps the types.
LEMMA TypeStep == TypeOK /\ [Next]_vars => TypeOK'
<1> SUFFICES ASSUME TypeOK, [Next]_vars PROVE TypeOK'
  OBVIOUS
<1>1. CASE UserStep
  <2>1. PICK depth \in 0 .. StackSize - 1, v \in Values :
          ctx' = [ctx EXCEPT !.sp = pcb[current].tos - depth, !.r0 = v]
    BY <1>1 DEF UserStep
  <2>2. pcb[current].tos - depth \in Int /\ v \in Int /\ ctx \in Ctx
    BY TableAssumption DEF TypeOK, Pcb
  <2>3. ctx' \in Ctx
    BY <2>1, <2>2, MovedCtx, Zenon
  <2> QED
    BY <1>1, <2>3 DEF UserStep, TypeOK
<1>2. CASE TimerIRQ
  BY <1>2, SchedulerTypes DEF TimerIRQ, TypeOK
<1>3. CASE Fork
  <2>1. ASSUME NEW newId \in Pids, newPid(pcb, newId),
               pcb' = [pcb EXCEPT ![newId] = Child(newId)],
               ctx' = [ctx EXCEPT !.r0 = newId]
        PROVE  TypeOK'
    <3>1. Child(newId) \in Pcb
      BY ChildPcb
    <3>2. newId \in Int
      BY DEF Pids
    <3> QED
      BY <1>3, <2>1, <3>1, <3>2 DEF Fork, TypeOK, Ctx
  <2>2. CASE ctx' = [ctx EXCEPT !.r0 = -1] /\ UNCHANGED pcb
    BY <1>3, <2>2 DEF Fork, TypeOK, Ctx
  <2> QED
    BY <1>3, <2>1, <2>2 DEF Fork
<1>4. CASE Exit
  <2>1. pcb[current].pid \in Pids
    BY DEF TypeOK, Pcb
  <2>2. [pcb EXCEPT ![pcb[current].pid] = Freed(@)] \in [Pids -> Pcb]
    BY <2>1, FreedTypes DEF TypeOK
  <2> QED
    BY <1>4, <2>2, SchedulerTypes DEF Exit
<1>5. CASE Exec
  <2>1. PICK x \in Programs \cup {NoProgram} :
          ctx' = [ctx EXCEPT !.pc = x, !.sp = pcb[pcb[current].pid].tos]
    BY <1>5 DEF Exec
  <2>2. ctx' \in Ctx
    BY <2>1, ExecutedCtx DEF TypeOK, Pcb
  <2> QED
    BY <1>5, <2>2 DEF Exec, TypeOK
<1>6. CASE Kill
  <2>1. PICK x \in Values :
          scheduler([pcb EXCEPT ![ctx.r0] = [Freed(@) EXCEPT !.ctx.r0 = x]])
    BY <1>6 DEF Kill
  <2>2. [pcb EXCEPT ![ctx.r0] = [Freed(@) EXCEPT !.ctx.r0 = x]] \in [Pids -> Pcb]
    BY <1>6, FreedTypes DEF Kill, TypeOK
  <2> QED
    BY <2>1, <2>2, SchedulerTypes
<1>7. CASE UNCHANGED vars
  BY <1>7 DEF vars, TypeOK
<1> QED
  BY <1>1, <1>2, <1>3, <1>4, <1>5, <1>6, <1>7 DEF Next

LEMMA TypeInit == Init => TypeOK
<1> SUFFICES ASSUME Init PROVE TypeOK
  OBVIOUS
<1>1. ZeroPcb \in Pcb /\ Tos(0) \in Int /\ 0 \in Pids
  BY TableAssumption, TosInt DEF ZeroPcb, ZeroCtx, Pcb, Ctx, Pids
<1>2. ConsolePcb \in Pcb
  BY <1>1, TableAssumption DEF ConsolePcb, Pcb, Ctx
<1>3. pcb \in [Pids -> Pcb]
  BY <1>1, <1>2 DEF Init, Pcb
<1> QED
  BY <1>1, <1>3 DEF Init, TypeOK, Pcb

\* The handlers keep every field within the type hilevel.h gives it, and every
\* index into the table (current, a pid of a PCB) within the table.
THEOREM TypeCorrect == Spec => []TypeOK
BY TypeInit, TypeStep, PTL DEF Spec

-----------------------------------------------------------------------------
(* Slots, PCBs and stacks.  A step is inductive only for the three parts      *)
(* together: where a context is saved (PrivateStack) depends on the pid of    *)
(* the running process (SlotIdentity), and both on the types.                 *)

IInv == TypeOK /\ SlotIdentity /\ PrivateStack

\* What a context switch does to a table t that differs from the one before
\* the handler in the availability of slots and in r0 at most.
LEMMA SchedulerStep ==
  ASSUME TypeOK, NEW t \in [Pids -> Pcb], scheduler(t)
  PROVE  /\ \A p \in Pids : /\ pcb'[p].available = t[p].available
                            /\ pcb'[p].pid = t[p].pid
                            /\ pcb'[p].tos = t[p].tos
                            /\ pcb'[p].ctx = IF p = t[current].pid THEN ctx ELSE t[p].ctx
         /\ current' \in Pids
         /\ ctx' = pcb'[current'].ctx
         /\ ~orphaned' => /\ ~orphaned
                          /\ current' \in LivePids'
                          /\ t[current].pid \in Pids
                          /\ \A q \in LivePids' :
                               Behind(t[current].pid, current') <= Behind(t[current].pid, q)
<1>1. PICK new \in nextProcess(t, t[current].pid) :
         /\ pcb' = [t EXCEPT ![t[current].pid].ctx = ctx]
         /\ ctx' = pcb'[new].ctx
         /\ current' = new
         /\ orphaned' = (orphaned \/ \A p \in Pids : t[p].available # 0)
  BY DEF scheduler
<1>2. current \in Pids /\ t[current].pid \in Pids
  BY DEF TypeOK, Pcb
<1>3. ASSUME NEW p \in Pids
      PROVE  /\ pcb'[p].available = t[p].available
             /\ pcb'[p].pid = t[p].pid
             /\ pcb'[p].tos = t[p].tos
             /\ pcb'[p].ctx = IF p = t[current].pid THEN ctx ELSE t[p].ctx
  BY <1>1, <1>2 DEF Pcb
<1>4. new \in Pids
  BY <1>2, NextProcessFinds
<1>5. ASSUME ~orphaned'
      PROVE  /\ ~orphaned
             /\ current' \in LivePids'
             /\ \A q \in LivePids' :
                  Behind(t[current].pid, current') <= Behind(t[current].pid, q)
  <2>1. ~orphaned /\ \E p \in Pids : t[p].available = 0
    BY <1>1, <1>5
  <2>2. /\ t[new].available = 0
        /\ \A q \in Pids : t[q].available = 0 =>
             Behind(t[current].pid, new) <= Behind(t[current].pid, q)
    BY <1>2, <2>1, NextProcessFinds
  <2>3. LivePids' = { p \in Pids : t[p].available = 0 }
    BY <1>3 DEF LivePids
  <2> QED
    BY <1>1, <1>4, <2>1, <2>2, <2>3
<1> QED
  BY <1>1, <1>2, <1>3, <1>4, <1>5

\* A handler that ends processes, or none, and then switches keeps the parts.
LEMMA SwitchKeepsStacks ==
  ASSUME IInv, NEW t \in [Pids -> Pcb], scheduler(t),
         \A p \in Pids : /\ t[p].pid = pcb[p].pid
                         /\ t[p].tos = pcb[p].tos
                         /\ t[p].ctx.sp = pcb[p].ctx.sp
                         /\ t[p].available = 0 => pcb[p].available = 0
  PROVE  SlotIdentity' /\ PrivateStack'
<1>1. SUFFICES ASSUME ~orphaned'
               PROVE  /\ current' \in LivePids'
                      /\ \A p \in LivePids' : /\ pcb'[p].pid = p
                                              /\ pcb'[p].tos = Tos(p)
                                              /\ CtxOf(p)'.sp <= Tos(p)
                                              /\ CtxOf(p)'.sp > Tos(p) - StackSize
  BY DEF SlotIdentity, PrivateStack
<1>2. ~orphaned /\ current' \in LivePids'
  BY <1>1, SchedulerStep DEF IInv
<1>3. t[current].pid = current
  BY <1>2 DEF IInv, SlotIdentity, TypeOK
<1>4. ASSUME NEW p \in LivePids'
      PROVE  /\ pcb'[p].pid = p
             /\ pcb'[p].tos = Tos(p)
             /\ CtxOf(p)'.sp <= Tos(p)
             /\ CtxOf(p)'.sp > Tos(p) - StackSize
  <2>1. p \in Pids /\ pcb'[p].available = 0
    BY DEF LivePids
  <2>2. p \in LivePids
    BY <2>1, SchedulerStep DEF IInv, LivePids
  <2>3. pcb'[p].pid = p /\ pcb'[p].tos = Tos(p)
    BY <1>2, <2>1, <2>2, SchedulerStep DEF IInv, SlotIdentity
  <2>4. CtxOf(p)' = pcb'[p].ctx
    BY SchedulerStep DEF IInv, CtxOf
  <2>5. pcb'[p].ctx.sp = CtxOf(p).sp
    BY <1>3, <2>1, SchedulerStep DEF IInv, CtxOf
  <2> QED
    BY <1>2, <2>2, <2>3, <2>4, <2>5 DEF IInv, PrivateStack
<1> QED
  BY <1>2, <1>4

LEMMA StackStep == IInv /\ [Next]_vars => SlotIdentity' /\ PrivateStack'
<1> SUFFICES ASSUME IInv, [Next]_vars PROVE SlotIdentity' /\ PrivateStack'
  OBVIOUS
<1>0. TypeOK /\ current \in Pids /\ ctx \in Ctx /\ pcb[current] \in Pcb
      /\ pcb[current].pid \in Pids
  BY DEF IInv, TypeOK, Pcb
<1>1. CASE UserStep
  <2>1. PICK depth \in 0 .. StackSize - 1, v \in Values :
          ctx' = [ctx EXCEPT !.sp = pcb[current].tos - depth, !.r0 = v]
    BY <1>1 DEF UserStep
  <2>2. pcb[current].tos - depth \in Int /\ v \in Int
    BY <1>0, TableAssumption DEF Pcb
  <2>3. ctx' = [pc |-> ctx.pc, sp |-> pcb[current].tos - depth, r0 |-> v]
    BY <1>0, <2>1, <2>2, MovedCtx, Zenon
  <2>4. UNCHANGED << pcb, current, orphaned >>
    BY <1>1 DEF UserStep
  <2>5. SlotIdentity'
    BY <2>4 DEF IInv, SlotIdentity, LivePids
  <2>6. ASSUME ~orphaned', NEW p \in LivePids'
        PROVE  CtxOf(p)'.sp <= Tos(p) /\ CtxOf(p)'.sp > Tos(p) - StackSize
    <3>1. p \in LivePids /\ p \in Pids
      BY <2>4 DEF LivePids
    <3>2. CASE p = current
      BY <2>3, <2>4, <2>6, <3>1, <3>2, TosInt, TableAssumption
      DEF CtxOf, IInv, SlotIdentity
    <3>3. CASE p # current
      BY <2>4, <2>6, <3>1, <3>3 DEF CtxOf, IInv, PrivateStack
    <3> QED
      BY <3>2, <3>3
  <2> QED
    BY <2>5, <2>6 DEF PrivateStack
<1>2. CASE TimerIRQ
  <2>1. pcb \in [Pids -> Pcb]
    BY <1>0 DEF TypeOK
  <2> QED
    BY <1>2, <2>1, SwitchKeepsStacks DEF TimerIRQ
<1>3. CASE Fork
  <2>1. ASSUME NEW newId \in Pids, newPid(pcb, newId),
               pcb' = [pcb EXCEPT ![newId] = Child(newId)],
               ctx' = [ctx EXCEPT !.r0 = newId],
               ~orphaned'
        PROVE  /\ current' \in LivePids'
               /\ \A p \in LivePids' : /\ pcb'[p].pid = p
                                       /\ pcb'[p].tos = Tos(p)
                                       /\ CtxOf(p)'.sp <= Tos(p)
                                       /\ CtxOf(p)'.sp > Tos(p) - StackSize
    <3>1. ~orphaned /\ current' = current
      BY <1>3, <2>1 DEF Fork
    <3>2. current \in LivePids /\ pcb[current].pid = current /\ current # newId
      BY <2>1, <3>1 DEF IInv, SlotIdentity, newPid, LivePids
    <3>3. ctx'.sp = ctx.sp
      BY <1>0, <2>1 DEF Ctx
    <3>4. LivePids' = LivePids \cup {newId}
      BY <1>0, <2>1, ChildPcb DEF LivePids, TypeOK
    <3>5. /\ pcb'[newId].pid = newId
          /\ pcb'[newId].tos = Tos(newId)
          /\ CtxOf(newId)'.sp <= Tos(newId)
          /\ CtxOf(newId)'.sp > Tos(newId) - StackSize
      <4>1. /\ pcb'[newId].pid = newId
            /\ pcb'[newId].tos = Tos(newId)
            /\ pcb'[newId].ctx.sp = Tos(newId) - (pcb[current].tos - ctx.sp)
        BY <1>0, <2>1, <3>2, ChildPcb DEF TypeOK
      <4>2. ctx.sp <= pcb[current].tos /\ ctx.sp > pcb[current].tos - StackSize
        BY <3>1, <3>2 DEF IInv, PrivateStack, SlotIdentity, CtxOf
      <4>3. CtxOf(newId)' = pcb'[newId].ctx
        BY <3>1, <3>2 DEF CtxOf
      <4>4. pcb[current].tos \in Int /\ ctx.sp \in Int /\ Tos(newId) \in Int
            /\ StackSize \in Int
        BY <1>0, TosInt, TableAssumption DEF Pcb, Ctx
      <4> QED
        BY <4>1, <4>2, <4>3, <4>4
    <3>6. ASSUME NEW p \in LivePids
          PROVE  /\ pcb'[p].pid = p
                 /\ pcb'[p].tos = Tos(p)
                 /\ CtxOf(p)'.sp <= Tos(p)
                 /\ CtxOf(p)'.sp > Tos(p) - StackSize
      <4>1. p # newId /\ p \in Pids
        BY <2>1 DEF newPid, LivePids
      <4>2. pcb'[p] = pcb[p]
        BY <2>1, <4>1 DEF IInv, TypeOK
      <4>3. CtxOf(p)'.sp = CtxOf(p).sp
        BY <3>1, <3>3, <4>2 DEF CtxOf
      <4> QED
        BY <3>1, <4>2, <4>3 DEF IInv, SlotIdentity, PrivateStack
    <3> QED
      BY <3>1, <3>2, <3>4, <3>5, <3>6
  <2>2. CASE ctx' = [ctx EXCEPT !.r0 = -1] /\ UNCHANGED pcb
    <3>1. ctx'.sp = ctx.sp
      BY <1>0, <2>2 DEF Ctx
    <3> QED
      BY <1>3, <2>2, <3>1 DEF Fork, IInv, SlotIdentity, PrivateStack, LivePids, CtxOf
  <2> QED
    BY <1>3, <2>1, <2>2 DEF Fork, SlotIdentity, PrivateStack
<1>4. CASE Exit
  <2> DEFINE t == [pcb EXCEPT ![pcb[current].pid] = Freed(@)]
  <2>1. t \in [Pids -> Pcb]
    BY <1>0, FreedTypes DEF TypeOK
  <2>2. ASSUME NEW p \in Pids
        PROVE  /\ t[p].pid = pcb[p].pid
               /\ t[p].tos = pcb[p].tos
               /\ t[p].ctx.sp = pcb[p].ctx.sp
               /\ t[p].available = 0 => pcb[p].available = 0
    BY <1>0, FreedFields DEF TypeOK
  <2>3. scheduler(t)
    BY <1>4 DEF Exit
  <2> HIDE DEF t
  <2> QED
    BY <2>1, <2>2, <2>3, SwitchKeepsStacks
<1>5. CASE Exec
  <2>1. PICK x \in Programs \cup {NoProgram} :
          ctx' = [ctx EXCEPT !.pc = x, !.sp = pcb[pcb[current].pid].tos]
    BY <1>5 DEF Exec
  <2>2. pcb[pcb[current].pid].tos \in Int
    BY <1>0 DEF TypeOK, Pcb
  <2>3. ctx' = [pc |-> x, sp |-> pcb[pcb[current].pid].tos, r0 |-> ctx.r0]
    BY <1>0, <2>1, <2>2, ExecutedCtx, Zenon
  <2>4. UNCHANGED << pcb, current, orphaned >>
    BY <1>5 DEF Exec
  <2>5. SlotIdentity'
    BY <2>4 DEF IInv, SlotIdentity, LivePids
  <2>6. ASSUME ~orphaned', NEW p \in LivePids'
        PROVE  CtxOf(p)'.sp <= Tos(p) /\ CtxOf(p)'.sp > Tos(p) - StackSize
    <3>1. p \in LivePids /\ p \in Pids
      BY <2>4 DEF LivePids
    <3>2. CASE p = current
      BY <2>3, <2>4, <2>6, <3>1, <3>2, TosInt, TableAssumption
      DEF CtxOf, IInv, SlotIdentity
    <3>3. CASE p # current
      BY <2>4, <2>6, <3>1, <3>3 DEF CtxOf, IInv, PrivateStack
    <3> QED
      BY <3>2, <3>3
  <2> QED
    BY <2>5, <2>6 DEF PrivateStack
<1>6. CASE Kill
  <2>1. PICK x \in Values :
          scheduler([pcb EXCEPT ![ctx.r0] = [Freed(@) EXCEPT !.ctx.r0 = x]])
    BY <1>6 DEF Kill
  <2> DEFINE t == [pcb EXCEPT ![ctx.r0] = [Freed(@) EXCEPT !.ctx.r0 = x]]
  <2>2. ctx.r0 \in Pids
    BY <1>6 DEF Kill
  <2>3. t \in [Pids -> Pcb]
    BY <1>0, <2>2, FreedTypes DEF TypeOK
  <2>4. ASSUME NEW p \in Pids
        PROVE  /\ t[p].pid = pcb[p].pid
               /\ t[p].tos = pcb[p].tos
               /\ t[p].ctx.sp = pcb[p].ctx.sp
               /\ t[p].available = 0 => pcb[p].available = 0
    BY <1>0, <2>2, FreedFields DEF TypeOK
  <2> HIDE DEF t
  <2> QED
    BY <2>1, <2>3, <2>4, SwitchKeepsStacks DEF t
<1>7. CASE UNCHANGED vars
  BY <1>7 DEF vars, IInv, SlotIdentity, PrivateStack, LivePids, CtxOf
<1> QED
  BY <1>1, <1>2, <1>3, <1>4, <1>5, <1>6, <1>7 DEF Next

LEMMA StackInit == Init => SlotIdentity /\ PrivateStack
<1> SUFFICES ASSUME Init PROVE SlotIdentity /\ PrivateStack
  OBVIOUS
<1>1. 0 \in Pids /\ pcb[0] = ConsolePcb
  BY TableAssumption DEF Init, Pids
<1>2. ASSUME NEW p \in Pids, p # 0 PROVE pcb[p].available = 1
  BY <1>2 DEF Init, ZeroPcb
<1>3. LivePids = {0} /\ current = 0
  BY <1>1, <1>2 DEF Init, LivePids, ConsolePcb
<1>4. pcb[0].pid = 0 /\ pcb[0].tos = Tos(0) /\ ctx.sp = Tos(0)
  BY <1>1 DEF Init, ConsolePcb
<1> QED
  BY <1>1, <1>3, <1>4, TosInt, TableAssumption DEF SlotIdentity, PrivateStack, CtxOf

LEMMA IInvHolds == Spec => []IInv
<1>1. Init => IInv
  BY TypeInit, StackInit DEF IInv
<1>2. IInv /\ [Next]_vars => IInv'
  BY TypeStep, StackStep DEF IInv
<1> QED
  BY <1>1, <1>2, PTL DEF Spec

\* The PCB of every live process carries the number and the stack of its slot,
\* and the running process is live, in a table of any size.
THEOREM SlotIdentityHolds == Spec => []SlotIdentity
BY IInvHolds, PTL DEF IInv

\* After any sequence of fork(), exec(), exit(), kill() and timer interrupts, no
\* live process has its stack pointer in another one's stack.
THEOREM PrivateStackHolds == Spec => []PrivateStack
BY IInvHolds, PTL DEF IInv

-----------------------------------------------------------------------------
(* Scheduling.                                                               *)

LEMMA PassesNobodyStep == IInv /\ [Next]_vars => [PassesNobody]_vars
<1> SUFFICES ASSUME IInv, Next, current' # current, ~orphaned'
             PROVE  \A q \in LivePids' : Behind(current, current') <= Behind(current, q)
  BY DEF PassesNobody
<1>0. TypeOK /\ current \in Pids /\ pcb[current] \in Pcb
  BY DEF IInv, TypeOK
<1>1. ASSUME NEW t \in [Pids -> Pcb], t[current].pid = pcb[current].pid, scheduler(t)
      PROVE  \A q \in LivePids' : Behind(current, current') <= Behind(current, q)
  <2>1. ~orphaned /\ \A q \in LivePids' :
          Behind(t[current].pid, current') <= Behind(t[current].pid, q)
    BY <1>0, <1>1, SchedulerStep
  <2>2. t[current].pid = current
    BY <1>1, <2>1 DEF IInv, SlotIdentity
  <2> QED
    BY <2>1, <2>2
<1>2. CASE TimerIRQ
  BY <1>0, <1>1, <1>2 DEF TimerIRQ, TypeOK
<1>3. CASE Exit
  <2> DEFINE t == [pcb EXCEPT ![pcb[current].pid] = Freed(@)]
  <2>1. t \in [Pids -> Pcb] /\ t[current].pid = pcb[current].pid
    BY <1>0, FreedTypes, FreedFields DEF TypeOK, Pcb
  <2>2. scheduler(t)
    BY <1>3 DEF Exit
  <2> HIDE DEF t
  <2> QED
    BY <1>1, <2>1, <2>2
<1>4. CASE Kill
  <2>1. PICK x \in Values :
          scheduler([pcb EXCEPT ![ctx.r0] = [Freed(@) EXCEPT !.ctx.r0 = x]])
    BY <1>4 DEF Kill
  <2> DEFINE t == [pcb EXCEPT ![ctx.r0] = [Freed(@) EXCEPT !.ctx.r0 = x]]
  <2>2. ctx.r0 \in Pids
    BY <1>4 DEF Kill
  <2>3. t \in [Pids -> Pcb] /\ t[current].pid = pcb[current].pid
    BY <1>0, <2>2, FreedTypes, FreedFields DEF TypeOK
  <2> HIDE DEF t
  <2> QED
    BY <1>1, <2>1, <2>3 DEF t
<1> QED
  BY <1>2, <1>3, <1>4 DEF Next, UserStep, Fork, Exec

\* Whoever loses the processor, and why, the next process is the nearest live one
\* in the ring: nobody waits for more than one turn of everybody else.
THEOREM RoundRobinHolds == Spec => RoundRobin
<1>1. IInv /\ [Next]_vars => [PassesNobody]_vars
  BY PassesNobodyStep
<1> QED
  BY <1>1, IInvHolds, PTL DEF Spec, RoundRobin

-----------------------------------------------------------------------------
(* ProcessTable implements Processes.                                        *)

\* A switch to a table in which some processes were freed leaves the context of
\* every process that is still live as it was.
LEMMA SwitchKeepsViews ==
  ASSUME IInv, ~orphaned, NEW t \in [Pids -> Pcb], scheduler(t),
         \A p \in Pids : /\ t[p].pid = pcb[p].pid
                         /\ t[p].tos = pcb[p].tos
                         /\ t[p].available = 0 => t[p].ctx = pcb[p].ctx
  PROVE  /\ LivePids' = { p \in Pids : t[p].available = 0 }
         /\ \A p \in LivePids' : View(p)' = View(p)
         /\ IF LivePids' = {} THEN orphaned' ELSE ~orphaned' /\ current' \in LivePids'
<1>1. LivePids' = { p \in Pids : t[p].available = 0 }
  BY SchedulerStep DEF IInv, LivePids
<1>2. t[current].pid = current
  BY DEF IInv, SlotIdentity, TypeOK
<1>3. ASSUME NEW p \in LivePids' PROVE View(p)' = View(p)
  <2>1. p \in Pids /\ t[p].available = 0
    BY <1>1
  <2>2. CtxOf(p)' = pcb'[p].ctx
    BY SchedulerStep DEF IInv, CtxOf
  <2>3. pcb'[p].ctx = CtxOf(p) /\ pcb'[p].tos = pcb[p].tos
    BY <1>2, <2>1, SchedulerStep DEF IInv, CtxOf
  <2> QED
    BY <2>2, <2>3 DEF View
<1>4. orphaned' = (LivePids' = {})
  BY <1>1 DEF scheduler
<1>5. ~orphaned' => current' \in LivePids'
  BY SchedulerStep DEF IInv
<1> QED
  BY <1>1, <1>3, <1>4, <1>5

\* The abstract state.
Contexts == [p \in LivePids |-> View(p)]

\* A step of the running process that leaves the table alone.
LEMMA OwnStepRefines ==
  ASSUME IInv, ~orphaned, UNCHANGED << pcb, current, orphaned >>
  PROVE  Abstract!Run
<1>1. LivePids' = LivePids
  BY DEF LivePids
<1>2. ASSUME NEW p \in LivePids \ {current} PROVE View(p)' = View(p)
  BY <1>2 DEF View, CtxOf
<1> QED
  BY <1>1, <1>2 DEF Abstract!Run, Abstract!Live, Abstract!Untouched

LEMMA ForkRefines ==
  ASSUME IInv, ~orphaned, Fork
  PROVE  Abstract!Run \/ Abstract!Fork
<1>0. TypeOK /\ current \in LivePids /\ current \in Pids /\ ctx \in Ctx
      /\ pcb[current].pid = current /\ pcb \in [Pids -> Pcb]
  BY DEF IInv, TypeOK, SlotIdentity
<1>c. PICK c \in Pids : c = current
  BY <1>0
<1>1. ASSUME NEW newId \in Pids, newPid(pcb, newId),
             pcb' = [pcb EXCEPT ![newId] = Child(newId)],
             ctx' = [ctx EXCEPT !.r0 = newId]
      PROVE  Abstract!Fork
  <2>1. current' = current /\ orphaned' = orphaned
    BY DEF Fork
  <2>2. newId \notin LivePids /\ current # newId
    BY <1>0, <1>1 DEF newPid, LivePids
  <2>3. LivePids' = LivePids \cup {newId}
    BY <1>0, <1>1, ChildPcb DEF LivePids
  <2>4. ASSUME NEW p \in LivePids \ {current} PROVE View(p)' = View(p)
    BY <1>0, <1>1, <2>1, <2>2, <2>4 DEF View, CtxOf, LivePids
  <2>5. /\ ctx.pc = ctx'.pc /\ ctx.sp = ctx'.sp /\ ctx'.r0 = newId
    BY <1>0, <1>1 DEF Ctx
  <2>6. View(c)' = [View(c) EXCEPT !.r0 = newId]
    <3>1. pcb'[c] = pcb[c]
      BY <1>0, <1>1, <1>c, <2>2
    <3> QED
      BY <1>c, <2>1, <2>5, <3>1 DEF View, CtxOf
  <2>7. View(newId)' = [View(c) EXCEPT !.r0 = 0]
    <3>1. pcb'[newId] = Child(newId)
      BY <1>0, <1>1
    <3>2. /\ pcb'[newId].tos = Tos(newId)
          /\ pcb'[newId].ctx.pc = ctx.pc
          /\ pcb'[newId].ctx.sp = Tos(newId) - (pcb[current].tos - ctx.sp)
          /\ pcb'[newId].ctx.r0 = 0
      BY <1>0, <2>2, <3>1, ChildPcb
    <3>3. pcb[current].tos \in Int /\ ctx.sp \in Int /\ Tos(newId) \in Int
      BY <1>0, TosInt DEF Pcb, Ctx
    <3>4. Tos(newId) - pcb'[newId].ctx.sp = pcb[current].tos - ctx.sp
      BY <3>2, <3>3
    <3>5. CtxOf(newId)' = pcb'[newId].ctx
      BY <2>1, <2>2 DEF CtxOf
    <3> QED
      BY <1>c, <3>2, <3>4, <3>5 DEF View, CtxOf
  <2>8. newId \in Pids \ LivePids
    BY <2>2
  <2>9. /\ DOMAIN Contexts' = LivePids \cup {newId}
        /\ \A p \in LivePids \ {current} : Contexts'[p] = Contexts[p]
        /\ Contexts'[current] = [Contexts[current] EXCEPT !.r0 = newId]
        /\ Contexts'[newId] = [Contexts[current] EXCEPT !.r0 = 0]
    <3>1. /\ \A p \in LivePids : Contexts[p] = View(p)
          /\ \A p \in LivePids' : Contexts'[p] = View(p)'
          /\ DOMAIN Contexts' = LivePids'
      BY DEF Contexts
    <3>2. \A p \in LivePids \ {current} : Contexts'[p] = Contexts[p]
      BY <2>3, <2>4, <3>1
    <3>3. /\ Contexts'[current] = [Contexts[current] EXCEPT !.r0 = newId]
          /\ Contexts'[newId] = [Contexts[current] EXCEPT !.r0 = 0]
      <4>1. current \in LivePids' /\ newId \in LivePids'
        BY <1>0, <2>3
      <4>2. Contexts[c] = View(c) /\ Contexts'[c] = View(c)' /\ Contexts'[newId] = View(newId)'
        BY <1>0, <1>c, <3>1, <4>1
      <4> QED
        BY <1>c, <2>6, <2>7, <4>2, Zenon
    <3> QED
      BY <2>3, <3>1, <3>2, <3>3
  <2> QED
    BY <2>1, <2>8, <2>9 DEF Abstract!Fork, Abstract!Live, Abstract!Untouched, Contexts
<1>2. CASE ctx' = [ctx EXCEPT !.r0 = -1] /\ UNCHANGED pcb
  BY <1>2, OwnStepRefines DEF Fork
<1> QED
  BY <1>1, <1>2 DEF Fork

\* A switch after the process e was freed, or nobody if e is not live.
LEMMA SwitchRefines ==
  ASSUME IInv, ~orphaned, NEW t \in [Pids -> Pcb], scheduler(t),
         \A p \in Pids : /\ t[p].pid = pcb[p].pid
                         /\ t[p].tos = pcb[p].tos
                         /\ t[p].available = 0 => t[p].ctx = pcb[p].ctx,
         NEW e,
         \A p \in Pids : t[p].available = 0 <=> p \in LivePids \ {e}
  PROVE  Abstract!Switch \/ Abstract!End \/ Abstract!Orphan
<1>1. current \in LivePids
  BY DEF IInv, SlotIdentity
<1>2. LivePids' = LivePids \ {e}
  BY SwitchKeepsViews DEF LivePids
<1>3. \A p \in LivePids' : View(p)' = View(p)
  BY SwitchKeepsViews
<1>4. IF LivePids' = {} THEN orphaned' ELSE ~orphaned' /\ current' \in LivePids'
  BY SwitchKeepsViews
<1>5. CASE LivePids' = {}
  <2>1. LivePids = {current} /\ orphaned'
    BY <1>1, <1>2, <1>4, <1>5
  <2>2. orphaned' = TRUE
    BY <2>1 DEF scheduler
  <2> QED
    BY <2>1, <2>2 DEF Abstract!Orphan, Abstract!Live
<1>6. CASE LivePids' # {}
  <2>1. current' \in LivePids' /\ orphaned' = orphaned
    <3>1. orphaned \in BOOLEAN /\ orphaned' \in BOOLEAN
      BY SchedulerTypes DEF IInv, TypeOK
    <3> QED
      BY <1>4, <1>6, <3>1
  <2>2. CASE e \in LivePids
    BY <1>2, <1>3, <2>1, <2>2 DEF Abstract!End, Abstract!Live, Abstract!Untouched
  <2>3. CASE e \notin LivePids
    BY <1>2, <1>3, <2>1, <2>3 DEF Abstract!Switch, Abstract!Live, Abstract!Untouched
  <2> QED
    BY <2>2, <2>3
<1> QED
  BY <1>5, <1>6

LEMMA StepRefines ==
  ASSUME IInv, [Next]_vars
  PROVE  [Abstract!Next]_(Abstract!vars)
<1>0. TypeOK /\ current \in Pids /\ pcb \in [Pids -> Pcb] /\ orphaned \in BOOLEAN
      /\ pcb[current].pid \in Pids
  BY DEF IInv, TypeOK, Pcb
<1>1. CASE orphaned /\ Next
  <2>1. orphaned'
    BY <1>1 DEF Next, UserStep, TimerIRQ, Fork, Exit, Exec, Kill, scheduler
  <2> QED
    BY <1>1, <2>1 DEF Abstract!Next
<1>2. CASE ~orphaned /\ Next
  <2>0. pcb[current].pid = current /\ current \in LivePids
    BY <1>2 DEF IInv, SlotIdentity
  <2>1. CASE UserStep \/ Exec
    BY <1>2, <2>1, OwnStepRefines DEF UserStep, Exec, Abstract!Next
  <2>2. CASE Fork
    BY <1>2, <2>2, ForkRefines DEF Abstract!Next
  <2>3. CASE TimerIRQ
    <3>1. \A p \in Pids : pcb[p].available = 0 <=> p \in LivePids \ {-1}
      BY DEF LivePids, Pids
    <3> QED
      BY <1>0, <1>2, <2>3, <3>1, SwitchRefines DEF TimerIRQ, Abstract!Next
  <2>4. CASE Exit
    <3> DEFINE t == [pcb EXCEPT ![pcb[current].pid] = Freed(@)]
    <3>1. t \in [Pids -> Pcb]
      BY <1>0, FreedTypes
    <3>2. ASSUME NEW p \in Pids
          PROVE  /\ t[p].pid = pcb[p].pid
                 /\ t[p].tos = pcb[p].tos
                 /\ t[p].available = 0 => t[p].ctx = pcb[p].ctx
                 /\ t[p].available = 0 <=> p \in LivePids \ {current}
      BY <1>0, <2>0, FreedFields DEF LivePids
    <3>3. scheduler(t)
      BY <2>4 DEF Exit
    <3> HIDE DEF t
    <3> QED
      BY <1>0, <1>2, <3>1, <3>2, <3>3, SwitchRefines DEF Abstract!Next
  <2>5. CASE Kill
    <3>1. PICK x \in Values, e \in Pids :
            /\ e = ctx.r0
            /\ scheduler([pcb EXCEPT ![e] = [Freed(@) EXCEPT !.ctx.r0 = x]])
      BY <2>5 DEF Kill
    <3> DEFINE t == [pcb EXCEPT ![e] = [Freed(@) EXCEPT !.ctx.r0 = x]]
    <3>2. t \in [Pids -> Pcb]
      BY <1>0, FreedTypes
    <3>3. ASSUME NEW p \in Pids
          PROVE  /\ t[p].pid = pcb[p].pid
                 /\ t[p].tos = pcb[p].tos
                 /\ t[p].available = 0 => t[p].ctx = pcb[p].ctx
                 /\ t[p].available = 0 <=> p \in LivePids \ {e}
      BY <1>0, FreedFields DEF LivePids
    <3>4. scheduler(t)
      BY <3>1
    <3> HIDE DEF t
    <3> QED
      BY <1>0, <1>2, <3>2, <3>3, <3>4, SwitchRefines DEF Abstract!Next
  <2> QED
    BY <1>2, <2>1, <2>2, <2>3, <2>4, <2>5 DEF Next
<1>3. CASE UNCHANGED vars
  <2>1. LivePids' = LivePids /\ \A p \in LivePids : View(p)' = View(p)
    BY <1>3 DEF vars, LivePids, View, CtxOf
  <2> QED
    BY <1>3, <2>1 DEF Abstract!vars, vars
<1> QED
  BY <1>0, <1>1, <1>2, <1>3

LEMMA InitRefines == Init => Abstract!Init
<1> SUFFICES ASSUME Init PROVE Abstract!Init
  OBVIOUS
<1>1. ASSUME NEW p \in Pids, p # 0 PROVE pcb[p].available = 1
  BY <1>1 DEF Init, ZeroPcb
<1>2. 0 \in Pids /\ pcb[0].available = 0
  BY TableAssumption DEF Init, ConsolePcb, Pids
<1>3. LivePids = {0}
  BY <1>1, <1>2 DEF LivePids
<1> QED
  BY <1>3 DEF Init, Abstract!Init, Abstract!Live

\* The table, the pointer and the copies between them implement a set of
\* processes each of which owns its context: the refinement, step by step.
THEOREM PrivateContextsHold == Spec => PrivateContexts
<1>1. IInv /\ [Next]_vars => [Abstract!Next]_(Abstract!vars)
  BY StepRefines
<1> QED
  BY <1>1, InitRefines, IInvHolds, PTL DEF Spec, PrivateContexts, Abstract!Spec
=============================================================================
