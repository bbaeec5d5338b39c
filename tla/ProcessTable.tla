---------------------------- MODULE ProcessTable ----------------------------
(***************************************************************************)
(* The process table of kernel/hilevel.c: the PCBs, the pointer current,   *)
(* the register context the low-level handlers copy between the processor  *)
(* and the kernel, the round robin scheduler and the handlers that create, *)
(* replace and end processes.                                              *)
(*                                                                         *)
(* A handler is one action: exception entry masks IRQ (the CPSR a process  *)
(* runs with, 0x50, is the only one with IRQ enabled), so nothing happens  *)
(* between the first and the last statement of a handler.  Exceptions      *)
(* checks that against the low-level handlers and the calls they nest.     *)
(***************************************************************************)
EXTENDS Scheduling

CONSTANTS
  startOfStack,      \* &tos_console, the top of the stack of slot 0
  StackSize,         \* the distance between two stacks (0x1000 in the code)
  Programs,          \* the entry points a process may be executing
  NoProgram,         \* address 0, the pc of a PCB that was never filled in
  Console,           \* main_console
  Values             \* what a program may put in a register

ASSUME TableAssumption ==
  /\ TOTALP \in Nat \ {0}
  /\ startOfStack \in Nat
  /\ StackSize \in Nat \ {0}
  /\ Console \in Programs /\ NoProgram \notin Programs
  /\ Values \subseteq Int

VARIABLES
  pcb,               \* the process table
  current,           \* the slot the pointer current points to
  ctx,               \* the user registers: pc (which program), sp and r0
  orphaned           \* history: nextProcess() was called and found nobody

vars == << pcb, current, ctx, orphaned >>

-----------------------------------------------------------------------------
\* What memset( &pcb[ i ], 0, ... ) leaves, and what .bss holds at reset.
ZeroCtx == [pc |-> NoProgram, sp |-> 0, r0 |-> 0]
ZeroPcb == [pid |-> 0, ctx |-> ZeroCtx, available |-> 0, priority |-> 0,
            age |-> 0, tos |-> 0]

\* &tos_console + i * 0x1000.
Tos(i) == startOfStack + i * StackSize

\* Slot 0 is the console's from the start.
ConsolePcb == [pid |-> 0, ctx |-> [pc |-> Console, sp |-> Tos(0), r0 |-> 0],
               available |-> 0, priority |-> 2, age |-> 0, tos |-> Tos(0)]

\* What hilevel_handler_rst leaves.
Init ==
  /\ pcb = [i \in Pids |-> IF i = 0 THEN ConsolePcb
                                    ELSE [ZeroPcb EXCEPT !.available = 1]]
  /\ current = 0
  /\ ctx = pcb[0].ctx
  /\ orphaned = FALSE

-----------------------------------------------------------------------------
\* Faulty: the context is loaded before it is saved, and what is saved is the
\* context of the process that is about to run.
scheduler_LoadFirst(t) ==
  \E new \in nextProcess(t, t[current].pid) :
    /\ pcb' = [t EXCEPT ![t[current].pid].ctx = t[new].ctx]
    /\ ctx' = t[new].ctx
    /\ current' = new
    /\ orphaned' = (orphaned \/ \A p \in Pids : t[p].available # 0)

\* scheduler( ctx ), called when the table is t: save, then load.
scheduler(t) ==
  \E new \in nextProcess(t, t[current].pid) :
    LET saved == [t EXCEPT ![t[current].pid].ctx = ctx]
    IN  /\ pcb' = saved
        /\ ctx' = saved[new].ctx
        /\ current' = new
        /\ orphaned' = (orphaned \/ \A p \in Pids : t[p].available # 0)

-----------------------------------------------------------------------------
(* The processor, between two exceptions: the running program changes its    *)
(* registers and moves its stack pointer within the stack it was given.      *)
UserStep ==
  /\ \E depth \in 0 .. StackSize - 1, v \in Values :
       ctx' = [ctx EXCEPT !.sp = pcb[current].tos - depth, !.r0 = v]
  /\ UNCHANGED << pcb, current, orphaned >>

\* hilevel_handler_irq, the timer's interrupt.
TimerIRQ == scheduler(pcb)

\* Faulty: the pid of the new PCB is left at the 0 that memset() wrote.
Child_NoPid(newId) ==
  LET t == [pcb EXCEPT ![newId] = ZeroPcb]
      parent == t[t[current].pid]
      offset == parent.tos - ctx.sp
  IN [pid |-> 0, available |-> 0, priority |-> parent.priority, age |-> 0,
      tos |-> Tos(newId),
      ctx |-> [ctx EXCEPT !.sp = Tos(newId) - offset, !.r0 = 0]]

\* Faulty: the child keeps the stack pointer of its parent.
Child_SharedStack(newId) ==
  LET t == [pcb EXCEPT ![newId] = ZeroPcb]
      parent == t[t[current].pid]
  IN [pid |-> newId, available |-> 0, priority |-> parent.priority, age |-> 0,
      tos |-> Tos(newId), ctx |-> [ctx EXCEPT !.r0 = 0]]

\* The PCB fork() fills in: the registers of the parent, r0 apart, on a stack
\* of the child's own, used as deep as the parent's is.
Child(newId) ==
  LET t == [pcb EXCEPT ![newId] = ZeroPcb]
      parent == t[t[current].pid]
      offset == parent.tos - ctx.sp
  IN [pid |-> newId, available |-> 0, priority |-> parent.priority, age |-> 0,
      tos |-> Tos(newId),
      ctx |-> [ctx EXCEPT !.sp = Tos(newId) - offset, !.r0 = 0]]

\* SVC 0x03.
Fork ==
  /\ \/ \E newId \in Pids : /\ newPid(pcb, newId)
                             /\ pcb' = [pcb EXCEPT ![newId] = Child(newId)]
                             /\ ctx' = [ctx EXCEPT !.r0 = newId]
     \/ /\ \A i \in Pids : pcb[i].available # 1
        /\ ctx' = [ctx EXCEPT !.r0 = -1]
        /\ UNCHANGED pcb
  /\ UNCHANGED << current, orphaned >>

\* Faulty: a freed slot is marked the way initialisePipes() marks a free pipe.
Freed_Minus1(p) == [p EXCEPT !.available = -1, !.age = 0, !.priority = 0]

\* What exit() and kill() do to the PCB of the process that ends.
Freed(p) == [p EXCEPT !.available = 1, !.age = 0, !.priority = 0]

\* SVC 0x04.
Exit == scheduler([pcb EXCEPT ![pcb[current].pid] = Freed(@)])

\* SVC 0x05: the program is replaced and its stack emptied.  The console may
\* ask for address 0: load() returns it for a name it does not know.
Exec ==
  /\ \E x \in Programs \cup {NoProgram} :
       ctx' = [ctx EXCEPT !.pc = x, !.sp = pcb[pcb[current].pid].tos]
  /\ UNCHANGED << pcb, current, orphaned >>

\* SVC 0x06, for a pid of the table (in r0): the code checks nothing about it.
\* The signal x (in r1) becomes the r0 of the PCB, and is seen by nobody.
Kill ==
  /\ ctx.r0 \in Pids
  /\ \E x \in Values :
       scheduler([pcb EXCEPT ![ctx.r0] = [Freed(@) EXCEPT !.ctx.r0 = x]])

Next == UserStep \/ TimerIRQ \/ Fork \/ Exit \/ Exec \/ Kill

Spec == Init /\ [][Next]_vars

\* TIMER0 is periodic and every process runs with IRQ enabled.
FairSpec == Spec /\ WF_vars(TimerIRQ)

-----------------------------------------------------------------------------
Ctx == [pc : Programs \cup {NoProgram}, sp : Int, r0 : Int]
Pcb == [pid : Pids, ctx : Ctx, available : {0, 1}, priority : Nat, age : Nat,
        tos : Int]

\* The types of kernel/hilevel.h.
TypeOK == /\ pcb \in [Pids -> Pcb]
          /\ current \in Pids
          /\ ctx \in Ctx
          /\ orphaned \in BOOLEAN

LivePids == { p \in Pids : pcb[p].available = 0 }

\* The registers of process p: in the processor, or saved in its PCB.
CtxOf(p) == IF p = current THEN ctx ELSE pcb[p].ctx

\* The handlers index the table by current->pid, by the pointer current and by
\* the number fork() returned, as if all three named one slot: as long as a
\* process is left, the PCB of a live process carries the number of its slot
\* and the stack of that slot, and the running process is a live one.
SlotIdentity ==
  ~orphaned => /\ current \in LivePids
               /\ \A p \in LivePids : pcb[p].pid = p /\ pcb[p].tos = Tos(p)

\* fork() moves the child's stack pointer and exec() resets it: after any
\* sequence of the two, and of context switches, no live process has its stack
\* pointer in the stack of another one.
PrivateStack ==
  ~orphaned => \A p \in LivePids : /\ CtxOf(p).sp <= Tos(p)
                                  /\ CtxOf(p).sp > Tos(p) - StackSize

\* A constraint for the runs: nothing is explored after the last process ended.
NotOrphaned == ~orphaned

\* How far slot q is behind slot p in the ring; p itself comes last.
Behind(p, q) == (q - p - 1) % TOTALP

\* Whatever made the processor change hands (the timer, the end of a process),
\* no process that is live afterwards is passed over.
PassesNobody ==
  current' # current /\ ~orphaned' =>
    \A q \in LivePids' : Behind(current, current') <= Behind(current, q)

RoundRobin == [][PassesNobody]_vars

\* Every process that stays live gets the processor again and again, however
\* many processes others create and end around it.
NoStarvation ==
  \A p \in Pids : []<>(orphaned \/ current = p \/ pcb[p].available # 0)

\* The context a process observes is a pc, the value of r0 and the part of its
\* stack that is in use.
View(p) == [pc |-> CtxOf(p).pc, r0 |-> CtxOf(p).r0,
            depth |-> pcb[p].tos - CtxOf(p).sp]

Abstract == INSTANCE Processes WITH
  procs <- [p \in LivePids |-> View(p)], running <- current, chaos <- orphaned

\* Copying contexts between the processor and the table gives every process a
\* context of its own: nobody else's step changes it, and fork() duplicates it.
PrivateContexts == Abstract!Spec
-----------------------------------------------------------------------------
(* Next lets every program make every call.  These are the calls the programs *)
(* of user/ make to start and to end others.                                  *)

\* Every child has its program: the user does not type before that.
ChildrenLoaded == \A p \in LivePids \ {0} : pcb[p].ctx.pc # Console

\* main_console, which never ends: each line is a fork or a kill.
ConsoleCall == current = 0 /\ ctx.pc = Console /\ ChildrenLoaded /\ (Fork \/ Kill)

\* A child of the console: exec( load( ... ) ), and load() knows no main_console.
ChildCall == current # 0 /\ ctx.pc = Console /\ Exec /\ ctx'.pc # Console

\* main_waiter, the only other program that forks.
WaiterCall == ctx.pc \in Programs \ {Console} /\ Fork

CommandNext == UserStep \/ TimerIRQ \/ ConsoleCall \/ ChildCall \/ WaiterCall

CommandSpec == Init /\ [][CommandNext]_vars

\* libc.h of fork(): "returning 0 iff. child or > 0 iff. parent process".  The
\* slot of a process that ended is given to a new one, slot 0 too, and the
\* parent is told its number.
ForkTellsParent ==
  [][LivePids' \ LivePids # {} => ctx'.r0 # 0]_vars
=============================================================================
