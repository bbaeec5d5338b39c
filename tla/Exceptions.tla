----------------------------- MODULE Exceptions -----------------------------
(***************************************************************************)
(* What the other modules take for granted: that a handler is one action,  *)
(* and that the reset handler gets to the console.  The processor has      *)
(* three modes.  svc and irq have a link register, a saved PSR and a stack *)
(* of their own; kernel/lolevel.s saves the user registers on these stacks *)
(* and restores them.  The kernel prints with the programs' own write(), a *)
(* supervisor call, so that one handler runs inside another, and inside    *)
(* the reset handler, which is not done when interrupts are enabled.       *)
(*                                                                         *)
(* ctx is the context a handler was given, a part of a stack; regs are the *)
(* user registers in the processor.  ProcessTable has one ctx for both.    *)
(***************************************************************************)
EXTENDS ProcessTable, Sequences

VARIABLES
  mode, irqs,        \* of the CPSR: the mode, and whether IRQ is enabled
  at,                \* what the processor executes next
  regs,              \* the user registers pc (which program), sp and r0
  lr, spsr,          \* the banked registers, by mode
  stack,             \* the stacks of the kernel, by mode; the top comes first
  raised,            \* the interrupts whose lines are up
  active,            \* the interrupt the GIC waits for the end of
  calls,             \* the functions the reset handler has called
  exposed            \* history: print() met a return address kept in lr only

processor == << mode, irqs, at, regs, lr, spsr, stack >>
table == << pcb, current, ctx, orphaned >>
xvars == << table, processor, raised, active, calls, exposed >>

-----------------------------------------------------------------------------
\* The sources of interrupts; the GIC delivers the one with the lowest number.
TIMER0 == 36
PS20 == 52
PS21 == 53
Sources == {TIMER0, PS20, PS21}
NONE == 1023

Psr(m, enabled) == [mode |-> m, irqs |-> enabled]
cpsr == Psr(mode, irqs)

\* A stack holds the frames of the low-level handlers and the return addresses
\* C functions saved.  Only the words that decide what is executed are here.
Frame(by, return, psr) == [by |-> by, lr |-> return, psr |-> psr]
Push(m, frame) == [stack EXCEPT ![m] = << frame >> \o @]
Top(m, by) == stack[m] # << >> /\ Head(stack[m]).by = by

\* The processor goes to an address that nobody meant.
GetsLost == at' = "lost" /\ UNCHANGED << mode, irqs, regs, lr, spsr, stack >>

\* pop { pc } of a function that had saved its return address.
Return(by) ==
  IF Top(mode, by)
    THEN /\ at' = Head(stack[mode]).lr
         /\ stack' = [stack EXCEPT ![mode] = Tail(@)]
         /\ UNCHANGED << mode, irqs, regs, lr, spsr >>
    ELSE GetsLost

\* The functions hilevel_handler_rst calls with IRQ enabled, and those which in
\* the image keep their return address in lr.
Functions == << "int_enable_irq", "resetImage", "memset", "memcpy", "initialisePipes" >>
Leaves == {"int_enable_irq", "resetImage", "memcpy"}
Booted == calls > Len(Functions)

\* int_enable_irq has just cleared bit 7.  Nobody looks at the table earlier than
\* at the first exception of the console, so it is there from the start.
XInit ==
  /\ Init
  /\ mode = "svc" /\ irqs = TRUE /\ at = "leaf" /\ regs = ZeroCtx
  /\ lr = [svc |-> "rst", irq |-> "rst"]
  /\ spsr = [svc |-> Psr("svc", FALSE), irq |-> Psr("svc", FALSE)]
  /\ stack = [svc |-> << Frame("rst", "lolevel_rst", Psr("svc", FALSE)) >>, irq |-> << >>]
  /\ raised = {} /\ active = NONE /\ calls = 1 /\ exposed = FALSE

-----------------------------------------------------------------------------
(* Exceptions, and the low-level handlers.                                   *)

\* Faulty: the handler begins at the top of its stack, whoever is there.
Take_FromTop(m, return, handler) ==
  /\ lr' = [lr EXCEPT ![m] = return] /\ spsr' = [spsr EXCEPT ![m] = cpsr]
  /\ mode' = m /\ irqs' = FALSE /\ at' = handler
  /\ stack' = [stack EXCEPT ![m] = << Frame("lolevel", return, cpsr) >>]
  /\ ctx' = IF mode = "usr" THEN regs ELSE ctx
  /\ UNCHANGED << regs, pcb, current, orphaned, calls >>

\* Faulty: a nested handler stores the registers where the first one did.
Take_OneContext(m, return, handler) ==
  /\ lr' = [lr EXCEPT ![m] = return] /\ spsr' = [spsr EXCEPT ![m] = cpsr]
  /\ mode' = m /\ irqs' = FALSE /\ at' = handler
  /\ stack' = Push(m, Frame("lolevel", return, cpsr))
  /\ ctx' = regs
  /\ UNCHANGED << regs, pcb, current, orphaned, calls >>

\* An exception to mode m that will return to return, and the five instructions
\* that store the user registers, the PSR and lr.
Take(m, return, handler) ==
  /\ lr' = [lr EXCEPT ![m] = return] /\ spsr' = [spsr EXCEPT ![m] = cpsr]
  /\ mode' = m /\ irqs' = FALSE /\ at' = handler
  /\ stack' = Push(m, Frame("lolevel", return, cpsr))
  /\ ctx' = IF mode = "usr" THEN regs ELSE ctx
  /\ UNCHANGED << regs, pcb, current, orphaned, calls >>

\* Faulty: add sp, sp, #60 is missing.
Leave_KeepsFrame ==
  /\ at = "leave"
  /\ IF Top(mode, "lolevel")
       THEN LET frame == Head(stack[mode])
            IN  /\ lr' = [lr EXCEPT ![mode] = frame.lr]
                /\ spsr' = [spsr EXCEPT ![mode] = frame.psr]
                /\ mode' = frame.psr.mode /\ irqs' = frame.psr.irqs /\ at' = frame.lr
                /\ UNCHANGED stack
                /\ regs' = IF frame.psr.mode = "usr" THEN ctx ELSE regs
       ELSE GetsLost
  /\ UNCHANGED << table, raised, active, calls, exposed >>

\* The last five instructions of a low-level handler: all is loaded and popped,
\* and movs returns to the mode and the place of the exception.
Leave ==
  /\ at = "leave"
  /\ IF Top(mode, "lolevel")
       THEN LET frame == Head(stack[mode])
            IN  /\ lr' = [lr EXCEPT ![mode] = frame.lr]
                /\ spsr' = [spsr EXCEPT ![mode] = frame.psr]
                /\ mode' = frame.psr.mode /\ irqs' = frame.psr.irqs /\ at' = frame.lr
                /\ stack' = [stack EXCEPT ![mode] = Tail(@)]
                /\ regs' = IF frame.psr.mode = "usr" THEN ctx ELSE regs
       ELSE GetsLost
  /\ UNCHANGED << table, raised, active, calls, exposed >>

-----------------------------------------------------------------------------
(* The kernel prints: write() saves lr, is a supervisor call, and returns by *)
(* what it saved.  One character stands for the text.                        *)

\* A handler calls print() and goes on at next.
CallPrint(next) ==
  /\ stack' = Push(mode, Frame("write", next, cpsr))
  /\ at' = "write"
  /\ UNCHANGED << mode, irqs, regs, lr, spsr >>

\* The svc in write().  What the reset handler kept in lr is gone, if it was
\* interrupted while it did so.
Write ==
  /\ at = "write"
  /\ Take("svc", "written", "svc")
  /\ exposed' = (exposed \/ (mode = "irq" /\ stack.irq[Len(stack.irq)].lr \in {"leaf", "entry", "movs"}))
  /\ UNCHANGED << raised, active >>

\* Faulty: write() is compiled to a function that leaves lr alone.
Written_Leaf == /\ at = "written"
                /\ at' = lr[mode]
                /\ UNCHANGED << table, mode, irqs, regs, lr, spsr, stack, raised, active, calls,
                                exposed >>

Written == /\ at = "written"
           /\ Return("write")
           /\ UNCHANGED << table, raised, active, calls, exposed >>

-----------------------------------------------------------------------------
(* The reset handler, from int_enable_irq on.                                *)

\* bl
Call ==
  /\ at = "rst" /\ calls < Len(Functions)
  /\ calls' = calls + 1
  /\ lr' = [lr EXCEPT !.svc = "rst"]
  /\ at' = IF Functions[calls + 1] \in Leaves THEN "leaf" ELSE "entry"
  /\ UNCHANGED << table, mode, irqs, regs, spsr, stack, raised, active, exposed >>

\* push { lr }, the first instruction of a function that is no leaf.
Entry ==
  /\ at = "entry"
  /\ stack' = Push("svc", Frame("function", lr.svc, cpsr))
  /\ at' = "function"
  /\ UNCHANGED << table, mode, irqs, regs, lr, spsr, raised, active, calls, exposed >>

\* bx lr
LeafReturn == /\ at = "leaf"
              /\ at' = lr.svc
              /\ UNCHANGED << table, mode, irqs, regs, lr, spsr, stack, raised, active, calls,
                              exposed >>

FunctionReturn ==
  /\ \/ at = "function" /\ Return("function")
     \/ at = "rst" /\ calls = Len(Functions) /\ Return("rst")
  /\ UNCHANGED << table, raised, active, calls, exposed >>

\* ldmia and msr: the console's pc and CPSR, in lr and spsr, with IRQ enabled.
LoadConsole ==
  /\ at = "lolevel_rst"
  /\ lr' = [lr EXCEPT !.svc = "user"] /\ spsr' = [spsr EXCEPT !.svc = Psr("usr", TRUE)]
  /\ at' = "movs"
  /\ UNCHANGED << table, mode, irqs, regs, stack, raised, active, calls, exposed >>

\* movs pc, lr
EnterConsole ==
  /\ at = "movs"
  /\ mode' = spsr.svc.mode /\ irqs' = spsr.svc.irqs /\ at' = lr.svc
  /\ regs' = ctx
  /\ calls' = calls + 1
  /\ UNCHANGED << table, lr, spsr, stack, raised, active, exposed >>

Boot == Call \/ Entry \/ LeafReturn \/ FunctionReturn \/ LoadConsole \/ EnterConsole

-----------------------------------------------------------------------------
(* hilevel_handler_irq.                                                      *)

\* A device raises its line.  The first tick of the timer comes 2^20 ticks after
\* it was started, when the reset handler is done.
Raise(s) == /\ s \notin raised /\ (s = TIMER0 => Booted)
            /\ raised' = raised \cup {s}
            /\ UNCHANGED << table, processor, active, calls, exposed >>

\* Instructions with IRQ enabled are interrupted.
TakeIRQ == /\ irqs /\ raised # {} /\ active = NONE
           /\ Take("irq", at, "irq")
           /\ UNCHANGED << raised, active, exposed >>

\* The handler reads IAR.
Acknowledge(id) == /\ at = "irq"
                   /\ id \in raised /\ \A s \in raised : id <= s
                   /\ active' = id
                   /\ raised' = raised \ {id}

Tick == /\ Acknowledge(TIMER0)
        /\ TimerIRQ
        /\ at' = "eoi"
        /\ UNCHANGED << mode, irqs, regs, lr, spsr, stack, calls, exposed >>

\* A key prints; of the bytes of the mouse, the first one does if a button is down.
Key == /\ Acknowledge(PS20) /\ CallPrint("eoi")
       /\ UNCHANGED << table, calls, exposed >>
Move == /\ Acknowledge(PS21)
        /\ \/ CallPrint("eoi")
           \/ at' = "eoi" /\ UNCHANGED << mode, irqs, regs, lr, spsr, stack >>
        /\ UNCHANGED << table, calls, exposed >>

\* Faulty: the handler returns before it writes EOIR.
EndOfInterrupt_None ==
  /\ at = "eoi"
  /\ at' = "leave"
  /\ UNCHANGED << table, mode, irqs, regs, lr, spsr, stack, raised, active, calls, exposed >>

EndOfInterrupt ==
  /\ at = "eoi"
  /\ active' = NONE
  /\ at' = "leave"
  /\ UNCHANGED << table, mode, irqs, regs, lr, spsr, stack, raised, calls, exposed >>

-----------------------------------------------------------------------------
(* hilevel_handler_svc, and the programs.                                    *)

\* The call is read from the instruction in front of lr: a write() of the
\* kernel, whose result goes to the frame of that exception.
SvcWrite == /\ at = "svc" /\ Head(stack.svc).lr = "written"
            /\ UNCHANGED table

\* A call that prints is about to: no slot is free, or nobody will be left.
NoSlot == \A i \in Pids : pcb[i].available # 1
NobodyElse(p) == \A i \in Pids \ {p} : pcb[i].available # 0

UserCall == at = "svc" /\ Head(stack.svc).lr = "user"

\* Calls that neither print nor switch: those for pipes and write() give a result;
\* yield(), read() and numbers without a handler do nothing.
SvcSimple == /\ UserCall
             /\ \/ \E v \in Values : ctx' = [ctx EXCEPT !.r0 = v]
                \/ UNCHANGED ctx
             /\ UNCHANGED << pcb, current, orphaned >>

SvcTable == UserCall /\ \/ ~NoSlot /\ Fork
                        \/ Exec
                        \/ ~NobodyElse(current) /\ Exit
                        \/ ~NobodyElse(ctx.r0) /\ Kill

\* What these calls do after they printed.
SvcPrinted == \/ at = "fork" /\ Fork
              \/ at = "exit" /\ Exit
              \/ at = "kill" /\ Kill

SvcPrint == /\ UserCall
            /\ \/ NoSlot /\ CallPrint("fork")
               \/ NobodyElse(current) /\ CallPrint("exit")
               \/ ctx.r0 \in Pids /\ NobodyElse(ctx.r0) /\ CallPrint("kill")
            /\ UNCHANGED << table, raised, active, calls, exposed >>

Svc == \/ /\ SvcWrite \/ SvcSimple \/ SvcTable \/ SvcPrinted
          /\ at' = "leave"
          /\ UNCHANGED << mode, irqs, regs, lr, spsr, stack, raised, active, calls, exposed >>
       \/ SvcPrint

\* The running program computes, or makes a system call.
Compute == /\ at = "user"
           /\ \E depth \in 0 .. StackSize - 1, v \in Values :
                regs' = [regs EXCEPT !.sp = pcb[current].tos - depth, !.r0 = v]
           /\ UNCHANGED << table, mode, irqs, at, lr, spsr, stack, raised, active, calls, exposed >>

SystemCall == at = "user" /\ Take("svc", "user", "svc") /\ UNCHANGED << raised, active, exposed >>

-----------------------------------------------------------------------------
Handlers == Boot \/ Tick \/ Key \/ Move \/ EndOfInterrupt \/ Svc \/ Write \/ Written \/ Leave

Stop == at = "lost" /\ UNCHANGED xvars

XNext == Handlers \/ TakeIRQ \/ (\E s \in Sources : Raise(s)) \/ Compute \/ SystemCall \/ Stop

XSpec == XInit /\ [][XNext]_xvars

\* The processor executes what is next; the reset handler gets on between the
\* interrupts of keys and of the mouse, which are slow; the timer is periodic; and
\* the processor does not overlook an interrupt again and again.
XFairSpec == XSpec /\ WF_xvars(Handlers) /\ SF_xvars(Boot)
                   /\ WF_xvars(Raise(TIMER0)) /\ SF_xvars(TakeIRQ)

-----------------------------------------------------------------------------
Places == {"rst", "leaf", "entry", "function", "lolevel_rst", "movs", "user", "irq", "eoi",
           "svc", "fork", "exit", "kill", "write", "written", "leave", "lost"}
PsrType == [mode : {"usr", "svc", "irq"}, irqs : BOOLEAN]
FrameType == [by : {"rst", "function", "lolevel", "write"}, lr : Places, psr : PsrType]

\* No chain of handlers puts more than three frames on the stack of svc, nor more
\* than two on that of irq, which have 4 KB each.
XTypeOK ==
  /\ TypeOK
  /\ cpsr \in PsrType /\ at \in Places /\ regs \in Ctx
  /\ lr \in [{"svc", "irq"} -> Places] /\ spsr \in [{"svc", "irq"} -> PsrType]
  /\ \A m \in {"svc", "irq"} : \A k \in 1 .. Len(stack[m]) : stack[m][k] \in FrameType
  /\ Len(stack.svc) <= 3 /\ Len(stack.irq) <= 2
  /\ raised \subseteq Sources /\ active \in Sources \cup {NONE}
  /\ calls \in 1 .. Len(Functions) + 1 /\ exposed \in BOOLEAN

\* Whatever interrupted what, and however deep the handlers were nested: once a
\* program runs again, both stacks are as they were, and interrupts come.
UserClean ==
  mode = "usr" => /\ at = "user" /\ irqs /\ active = NONE
                  /\ stack.svc = << >> /\ stack.irq = << >>

\* Interrupts are enabled while the reset handler runs, and the handler of a key
\* or of the mouse overwrites lr of svc.  That does harm in a function that keeps
\* its return address there, before any function saves it, and between the last
\* ldmia and movs; nowhere else.
LostOnlyIfExposed == at = "lost" => exposed

\* To a program, and to the table, every exception is what ProcessTable says: one
\* step, in which nothing else happens.
Atomic == INSTANCE ProcessTable WITH ctx <- IF mode = "usr" THEN regs ELSE ctx
HandlersAtomic == Atomic!Spec

\* The console is reached, and after every exception a program is.
BackToUser == []<>(mode = "usr" \/ exposed \/ orphaned)

\* The fairness assumed by ProcessTable is what the interrupts deliver: nobody
\* starves, though keys and the mouse keep interrupting.
EveryoneRuns ==
  \A p \in Pids : []<>(exposed \/ orphaned \/ current = p \/ pcb[p].available # 0)
=============================================================================
