-------------------------- MODULE ExceptionsProofs --------------------------
(***************************************************************************)
(* Theorems about Exceptions, for any process table: the stacks of the     *)
(* kernel and its banked registers, whatever interrupts whatever, and that *)
(* a handler with all it nests is one step of ProcessTable.                *)
(***************************************************************************)
EXTENDS Exceptions, ProcessTableProofs

-----------------------------------------------------------------------------
(* Where the processor can be: a phase says what is on both stacks of the    *)
(* kernel, and what may be executed then.                                    *)

\* What the stacks hold.
Start == Frame("rst", "lolevel_rst", Psr("svc", FALSE))
Function(r) == Frame("function", r, Psr("svc", TRUE))
Interrupted(x) == Frame("lolevel", x, Psr(IF x = "user" THEN "usr" ELSE "svc", TRUE))
Printing(next, m) == Frame("write", next, Psr(m, FALSE))
Nested(m) == Frame("lolevel", "written", Psr(m, FALSE))

\* What is on the stack of svc while IRQ is enabled.
Kept == {<< >>, << Start >>} \cup { << Function(r), Start >> : r \in {"rst", "written"} }

\* The places at which IRQ is enabled, and what a function may find in lr.
Open == {"user", "rst", "leaf", "entry", "function", "lolevel_rst", "movs", "written", "lost"}

ReturnsTo(r) == r = "rst" \/ (r = "written" /\ exposed)

\* Execution may be at x with IRQ enabled and s on the stack of svc.
Runs(x, s) ==
  /\ x \in Open
  /\ x # "user" => calls \in 1 .. 5
  /\ x \in {"user", "lolevel_rst", "movs"} => s = << >>
  /\ x \in {"rst", "leaf", "entry", "written"} => s = << Start >>
  /\ x = "function" => \E r \in {"rst", "written"} : ReturnsTo(r) /\ s = << Function(r), Start >>
  /\ x = "lost" => s = << Start >>
  /\ x \in {"written", "lost"} => exposed
  /\ x \in {"leaf", "entry"} => ReturnsTo(lr.svc)
  /\ x = "movs" => \/ lr.svc = "user" /\ spsr.svc = Psr("usr", TRUE)
                   \/ lr.svc = "written" /\ spsr.svc = Psr("irq", FALSE) /\ exposed

\* No handler runs.
InProgram ==
  /\ at \in Open /\ mode = (IF at = "user" THEN "usr" ELSE "svc") /\ irqs = TRUE
  /\ active = NONE /\ stack.irq = << >> /\ Runs(at, stack.svc)

\* The handler of an interrupt that came at x, which may have called write().
InIRQ(x) ==
  /\ mode = "irq" /\ irqs = FALSE /\ Runs(x, stack.svc)
  /\ \/ at \in {"irq", "leave"} /\ active = NONE /\ stack.irq = << Interrupted(x) >>
     \/ at = "eoi" /\ active \in Sources /\ stack.irq = << Interrupted(x) >>
     \/ at \in {"write", "written"} /\ active \in Sources
        /\ stack.irq = << Printing("eoi", "irq"), Interrupted(x) >>

\* The supervisor call of that write().
InNestedSVC(x) ==
  /\ mode = "svc" /\ irqs = FALSE /\ at \in {"svc", "leave"} /\ active \in Sources
  /\ stack.irq = << Printing("eoi", "irq"), Interrupted(x) >>
  /\ x \in {"leaf", "entry", "movs"} => exposed
  /\ lr.svc = "written" /\ spsr.svc = Psr("irq", FALSE)
  /\ \E s \in Kept : Runs(x, s) /\ stack.svc = << Nested("irq") >> \o s

\* The handler of a program's supervisor call, which may have called write().
InSVC ==
  /\ mode = "svc" /\ irqs = FALSE /\ active = NONE /\ stack.irq = << >>
  /\ \/ at \in {"svc", "leave", "fork", "exit", "kill"} /\ stack.svc = << Interrupted("user") >>
     \/ at \in {"write", "written"}
        /\ \E n \in {"fork", "exit", "kill"} :
             stack.svc = << Printing(n, "svc"), Interrupted("user") >>
     \/ at \in {"svc", "leave"}
        /\ \E n \in {"fork", "exit", "kill"} :
             stack.svc = << Nested("svc"), Printing(n, "svc"), Interrupted("user") >>

\* movs went to the place after the svc of a write() that is long over.
Astray ==
  /\ mode = "irq" /\ irqs = FALSE /\ active = NONE
  /\ stack.irq = << >> /\ stack.svc = << >>
  /\ at \in {"written", "lost"} /\ exposed

Shape == \/ InProgram
         \/ \E x \in Open : InIRQ(x) \/ InNestedSVC(x)
         \/ InSVC
         \/ Astray

\* The types of XTypeOK that Shape says nothing about.
Banked ==
  /\ TypeOK
  /\ regs \in Ctx
  /\ lr \in [{"svc", "irq"} -> Places] /\ spsr \in [{"svc", "irq"} -> PsrType]
  /\ stack \in [{"svc", "irq"} -> Seq(FrameType)]
  /\ raised \subseteq Sources /\ calls \in 1 .. 6 /\ exposed \in BOOLEAN

XInv == Banked /\ Shape

-----------------------------------------------------------------------------
(* Frames and short stacks.                                                  *)

LEMMA FrameTypes ==
  /\ Start \in FrameType
  /\ \A r \in {"rst", "written"} : Function(r) \in FrameType
  /\ \A x \in Open : Interrupted(x) \in FrameType
  /\ \A n \in {"eoi", "fork", "exit", "kill"}, m \in {"svc", "irq"} : Printing(n, m) \in FrameType
  /\ \A m \in {"svc", "irq"} : Nested(m) \in FrameType
BY DEF Start, Function, Interrupted, Printing, Nested, Frame, Psr, FrameType, PsrType, Places, Open

LEMMA KeptSeq == \A s \in Kept : s \in Seq(FrameType) /\ Len(s) <= 2
<1> TAKE s \in Kept
<1>1. CASE s = << >>
  BY <1>1
<1>2. CASE s = << Start >>
  BY <1>2, FrameTypes
<1>3. ASSUME NEW r \in {"rst", "written"}, s = << Function(r), Start >>
      PROVE  s \in Seq(FrameType) /\ Len(s) <= 2
  BY <1>3, FrameTypes
<1> QED
  BY <1>1, <1>2, <1>3 DEF Kept

LEMMA RunsKept == \A x, s : Runs(x, s) => s \in Kept
BY DEF Runs, Kept, Open

\* What is pushed on a stack is what comes off it again.
LEMMA PushPop ==
  ASSUME NEW S, NEW f \in S, NEW s \in Seq(S)
  PROVE  /\ << f >> \o s \in Seq(S) /\ << f >> \o s # << >>
         /\ Len(<< f >> \o s) = Len(s) + 1
         /\ Head(<< f >> \o s) = f /\ Tail(<< f >> \o s) = s
<1>1. /\ << f >> \o s \in Seq(S) /\ Len(<< f >> \o s) = Len(s) + 1
      /\ << f >> \o s # << >> /\ Head(<< f >> \o s) = f
  OBVIOUS
<1>2. /\ Tail(<< f >> \o s) \in Seq(S) /\ Len(Tail(<< f >> \o s)) = Len(s)
      /\ \A i \in 1 .. Len(s) : Tail(<< f >> \o s)[i] = s[i]
  OBVIOUS
<1> QED
  BY <1>1, <1>2

LEMMA PushOne ==
  ASSUME NEW f, NEW g
  PROVE  << f >> \o << g >> = << f, g >>
<1> DEFINE s == << f >> \o << g >>
           t == << f, g >>
<1>1. s \in Seq({f, g}) /\ t \in Seq({f, g}) /\ Len(s) = 2 /\ Len(t) = 2
  OBVIOUS
<1>2. s[1] = t[1] /\ s[2] = t[2]
  OBVIOUS
<1> HIDE DEF s, t
<1>3. s = t
  BY <1>1, <1>2
<1> QED
  BY <1>3 DEF s, t

LEMMA PushTwo ==
  ASSUME NEW f, NEW g, NEW h
  PROVE  << f >> \o << g, h >> = << f, g, h >>
<1> DEFINE s == << f >> \o << g, h >>
           t == << f, g, h >>
<1>1. s \in Seq({f, g, h}) /\ t \in Seq({f, g, h}) /\ Len(s) = 3 /\ Len(t) = 3
  OBVIOUS
<1>2. s[1] = t[1] /\ s[2] = t[2] /\ s[3] = t[3]
  OBVIOUS
<1> HIDE DEF s, t
<1>3. s = t
  BY <1>1, <1>2
<1> QED
  BY <1>3 DEF s, t

\* Storing the registers, by mode.
LEMMA TakeSvc ==
  ASSUME Banked, NEW x, NEW h, Take("svc", x, h)
  PROVE  /\ mode' = "svc" /\ irqs' = FALSE /\ at' = h /\ calls' = calls
         /\ stack'.svc = << Frame("lolevel", x, cpsr) >> \o stack.svc /\ stack'.irq = stack.irq
         /\ lr'.svc = x /\ spsr'.svc = cpsr
BY DEF Banked, Take, Push

LEMMA TakeIrq ==
  ASSUME Banked, NEW x, NEW h, Take("irq", x, h)
  PROVE  /\ mode' = "irq" /\ irqs' = FALSE /\ at' = h /\ calls' = calls
         /\ stack'.irq = << Frame("lolevel", x, cpsr) >> \o stack.irq /\ stack'.svc = stack.svc
         /\ lr'.svc = lr.svc /\ spsr'.svc = spsr.svc
BY DEF Banked, Take, Push

\* A function returns by the frame on top, or not at all.
LEMMA ReturnSvc ==
  ASSUME Banked, mode = "svc", NEW f, NEW s,
         stack.svc # << >>, Head(stack.svc) = f, Tail(stack.svc) = s, Return(f.by)
  PROVE  /\ at' = f.lr /\ UNCHANGED << mode, irqs, regs, lr, spsr >>
         /\ stack'.svc = s /\ stack'.irq = stack.irq
<1>1. Top(mode, f.by)
  BY DEF Top
<1>2. at' = f.lr /\ UNCHANGED << mode, irqs, regs, lr, spsr >>
  BY <1>1 DEF Return
<1>3. stack' = [stack EXCEPT !["svc"] = s]
  BY <1>1 DEF Return
<1> QED
  BY <1>2, <1>3 DEF Banked

LEMMA ReturnIrq ==
  ASSUME Banked, mode = "irq", NEW f, NEW s,
         stack.irq # << >>, Head(stack.irq) = f, Tail(stack.irq) = s, Return(f.by)
  PROVE  /\ at' = f.lr /\ UNCHANGED << mode, irqs, regs, lr, spsr >>
         /\ stack'.irq = s /\ stack'.svc = stack.svc
<1>1. Top(mode, f.by)
  BY DEF Top
<1>2. at' = f.lr /\ UNCHANGED << mode, irqs, regs, lr, spsr >>
  BY <1>1 DEF Return
<1>3. stack' = [stack EXCEPT !["irq"] = s]
  BY <1>1 DEF Return
<1> QED
  BY <1>2, <1>3 DEF Banked

LEMMA ReturnLost ==
  ASSUME Banked, NEW by, ~Top(mode, by), Return(by)
  PROVE  at' = "lost" /\ UNCHANGED << mode, irqs, regs, lr, spsr, stack >>
BY DEF Return, GetsLost

\* The words Runs depends on.
LEMMA RunsStays ==
  ASSUME NEW x, NEW s, Runs(x, s), UNCHANGED << calls, lr, spsr, exposed >>
  PROVE  Runs(x, s)'
BY DEF Runs, ReturnsTo

-----------------------------------------------------------------------------
(* Every step goes from phase to phase.                                      *)

LEMMA InitShape == XInit => Shape
<1> SUFFICES ASSUME XInit PROVE InProgram
  BY DEF Shape
<1>1. /\ at = "leaf" /\ mode = "svc" /\ irqs = TRUE /\ active = NONE /\ calls = 1
      /\ stack.irq = << >> /\ stack.svc = << Start >> /\ lr.svc = "rst"
  BY DEF XInit, Start
<1>2. Runs("leaf", stack.svc)
  BY <1>1 DEF Runs, ReturnsTo, Open
<1> QED
  BY <1>1, <1>2 DEF InProgram, Open

LEMMA TakeIRQShape ==
  ASSUME XInv, TakeIRQ
  PROVE  Shape'
<1>1. InProgram /\ at \in Open
  BY DEF XInv, Shape, InProgram, InIRQ, InNestedSVC, InSVC, Astray, TakeIRQ
<1>2. PICK x \in Open : x = at
  BY <1>1
<1>3. Frame("lolevel", x, cpsr) = Interrupted(x)
  BY <1>1, <1>2 DEF cpsr, InProgram, Interrupted, Psr
<1>4. /\ mode' = "irq" /\ irqs' = FALSE /\ at' = "irq" /\ active' = NONE
      /\ calls' = calls /\ exposed' = exposed
      /\ stack'.irq = << Interrupted(x) >> \o stack.irq /\ stack'.svc = stack.svc
      /\ lr'.svc = lr.svc /\ spsr'.svc = spsr.svc
  <2>1. Take("irq", x, "irq")
    BY <1>2 DEF TakeIRQ
  <2> QED
    BY <1>3, <2>1, TakeIrq DEF TakeIRQ, XInv
<1>5. stack'.irq = << Interrupted(x) >>
  BY <1>1, <1>4 DEF InProgram
<1>6. Runs(x, stack.svc)'
  <2>1. Runs(x, stack.svc)
    BY <1>1, <1>2 DEF InProgram
  <2> QED
    BY <2>1, <1>4 DEF Runs, ReturnsTo
<1> QED
  BY <1>4, <1>5, <1>6 DEF Shape, InIRQ

\* Nothing but the lines of the devices, or the registers of a program, changes.
LEMMA QuietShape ==
  ASSUME Shape, UNCHANGED << mode, irqs, at, lr, spsr, stack, active, calls, exposed >>
  PROVE  Shape'
<1>1. ASSUME NEW x, NEW s, Runs(x, s) PROVE Runs(x, s)'
  BY <1>1, RunsStays
<1>2. CASE InProgram
  <2>1. Runs(at, stack.svc)'
    BY <1>2 DEF InProgram, Runs, ReturnsTo
  <2> QED
    BY <1>2, <2>1 DEF InProgram, Shape
<1>3. ASSUME NEW x \in Open, InIRQ(x) PROVE Shape'
  <2>1. Runs(x, stack.svc)'
    BY <1>3 DEF InIRQ, Runs, ReturnsTo
  <2>2. InIRQ(x)'
    BY <1>3, <2>1 DEF InIRQ
  <2> QED
    BY <2>2 DEF Shape
<1>4. ASSUME NEW x \in Open, InNestedSVC(x) PROVE Shape'
  <2>1. InNestedSVC(x)'
    BY <1>1, <1>4 DEF InNestedSVC
  <2> QED
    BY <2>1 DEF Shape
<1>5. CASE InSVC
  <2>1. InSVC'
    BY <1>5 DEF InSVC
  <2> QED
    BY <2>1 DEF Shape
<1>6. CASE Astray
  BY <1>6 DEF Astray, Shape
<1> QED
  BY <1>2, <1>3, <1>4, <1>5, <1>6 DEF Shape

LEMMA SystemCallShape ==
  ASSUME XInv, SystemCall
  PROVE  Shape'
<1>1. InProgram /\ at = "user"
  BY DEF XInv, Shape, InProgram, InIRQ, InNestedSVC, InSVC, Astray, SystemCall
<1>2. Frame("lolevel", "user", cpsr) = Interrupted("user")
  BY <1>1 DEF cpsr, InProgram, Interrupted, Psr
<1>3. /\ mode' = "svc" /\ irqs' = FALSE /\ at' = "svc" /\ active' = NONE
      /\ stack'.svc = << Interrupted("user") >> \o stack.svc /\ stack'.irq = << >>
  BY <1>1, <1>2, TakeSvc DEF SystemCall, XInv, InProgram
<1>4. stack'.svc = << Interrupted("user") >>
  <2>1. stack.svc = << >>
    BY <1>1 DEF InProgram, Runs
  <2> QED
    BY <1>3, <2>1
<1> QED
  BY <1>3, <1>4 DEF Shape, InSVC

-----------------------------------------------------------------------------
(* The reset handler.                                                        *)

LEMMA InBoot ==
  ASSUME Shape, at \in {"rst", "leaf", "entry", "function", "lolevel_rst", "movs"}
  PROVE  /\ InProgram /\ mode = "svc" /\ calls \in 1 .. 5 /\ Runs(at, stack.svc)
         /\ irqs = TRUE /\ active = NONE /\ stack.irq = << >>
BY DEF Shape, InProgram, InIRQ, InNestedSVC, InSVC, Astray, Runs

LEMMA CallShape ==
  ASSUME XInv, Call
  PROVE  Shape'
<1>1. /\ mode = "svc" /\ calls \in 1 .. 5 /\ stack.svc = << Start >>
      /\ irqs = TRUE /\ active = NONE /\ stack.irq = << >>
  BY InBoot DEF XInv, Call, Runs
<1>2. /\ calls' \in 1 .. 5 /\ lr'.svc = "rst" /\ at' \in {"leaf", "entry"}
      /\ UNCHANGED << mode, irqs, stack, active, exposed >>
  BY <1>1 DEF XInv, Banked, Call, Functions, xvars, processor
<1>3. Runs(at, stack.svc)'
  BY <1>1, <1>2 DEF Runs, ReturnsTo, Open
<1>4. InProgram'
  BY <1>1, <1>2, <1>3 DEF InProgram, Open
<1> QED
  BY <1>4 DEF Shape

LEMMA EntryShape ==
  ASSUME XInv, Entry
  PROVE  Shape'
<1>1. /\ mode = "svc" /\ calls \in 1 .. 5 /\ stack.svc = << Start >> /\ ReturnsTo(lr.svc)
      /\ irqs = TRUE /\ active = NONE /\ stack.irq = << >>
  BY InBoot DEF XInv, Entry, Runs
<1>2. PICK r \in {"rst", "written"} : r = lr.svc /\ ReturnsTo(r)
  BY <1>1 DEF ReturnsTo
<1>3. /\ at' = "function" /\ UNCHANGED << mode, irqs, active, exposed, calls >>
      /\ stack'.svc = << Function(r) >> \o stack.svc /\ stack'.irq = stack.irq
  BY <1>1, <1>2 DEF Entry, Push, XInv, Banked, cpsr, Function
<1>4. stack'.svc = << Function(r), Start >>
  BY <1>1, <1>3, PushOne
<1>5. Runs(at, stack.svc)'
  BY <1>1, <1>2, <1>3, <1>4 DEF Runs, ReturnsTo, Open
<1>6. InProgram'
  BY <1>1, <1>3, <1>5 DEF InProgram, Open
<1> QED
  BY <1>6 DEF Shape

LEMMA LeafReturnShape ==
  ASSUME XInv, LeafReturn
  PROVE  Shape'
<1>1. /\ mode = "svc" /\ calls \in 1 .. 5 /\ stack.svc = << Start >> /\ ReturnsTo(lr.svc)
      /\ irqs = TRUE /\ active = NONE /\ stack.irq = << >>
  BY InBoot DEF XInv, LeafReturn, Runs
<1>2. at' = lr.svc /\ UNCHANGED << mode, irqs, active, exposed, calls, lr, stack >>
  BY DEF LeafReturn
<1>3. at' = "rst" \/ (at' = "written" /\ exposed)
  BY <1>1, <1>2 DEF ReturnsTo
<1>4. Runs(at, stack.svc)'
  BY <1>1, <1>2, <1>3 DEF Runs, Open
<1>5. InProgram'
  BY <1>1, <1>2, <1>3, <1>4 DEF InProgram, Open
<1> QED
  BY <1>5 DEF Shape

LEMMA FunctionReturnShape ==
  ASSUME XInv, FunctionReturn
  PROVE  Shape'
<1>1. /\ mode = "svc" /\ calls \in 1 .. 5 /\ Runs(at, stack.svc)
      /\ irqs = TRUE /\ active = NONE /\ stack.irq = << >>
  BY InBoot DEF XInv, FunctionReturn
<1>2. UNCHANGED << active, exposed, calls >>
  BY DEF FunctionReturn
<1>3. CASE at = "function" /\ Return("function")
  <2>1. PICK r \in {"rst", "written"} : ReturnsTo(r) /\ stack.svc = << Function(r), Start >>
    BY <1>1, <1>3 DEF Runs
  <2>2. stack.svc # << >> /\ Head(stack.svc) = Function(r) /\ Tail(stack.svc) = << Start >>
    BY <2>1
  <2>3. Function(r).by = "function" /\ Function(r).lr = r
    BY DEF Function, Frame
  <2>4. /\ at' = r /\ UNCHANGED << mode, irqs, lr >>
        /\ stack'.svc = << Start >> /\ stack'.irq = << >>
    BY <1>1, <1>3, <2>2, <2>3, ReturnSvc DEF XInv
  <2>5. Runs(at, stack.svc)'
    BY <1>1, <1>2, <2>1, <2>4 DEF Runs, ReturnsTo, Open
  <2>6. InProgram'
    BY <1>1, <1>2, <2>4, <2>5 DEF InProgram, Open
  <2> QED
    BY <2>6 DEF Shape
<1>4. CASE at = "rst" /\ Return("rst")
  <2>1. stack.svc = << Start >>
    BY <1>1, <1>4 DEF Runs
  <2>2. stack.svc # << >> /\ Head(stack.svc) = Start /\ Tail(stack.svc) = << >>
    BY <2>1
  <2>3. Start.by = "rst" /\ Start.lr = "lolevel_rst"
    BY DEF Start, Frame
  <2>4. /\ at' = "lolevel_rst" /\ UNCHANGED << mode, irqs, lr >>
        /\ stack'.svc = << >> /\ stack'.irq = << >>
    BY <1>1, <1>4, <2>2, <2>3, ReturnSvc DEF XInv
  <2>5. Runs(at, stack.svc)'
    BY <1>1, <1>2, <2>4 DEF Runs, Open
  <2>6. InProgram'
    BY <1>1, <1>2, <2>4, <2>5 DEF InProgram, Open
  <2> QED
    BY <2>6 DEF Shape
<1> QED
  BY <1>3, <1>4 DEF FunctionReturn

LEMMA LoadConsoleShape ==
  ASSUME XInv, LoadConsole
  PROVE  Shape'
<1>1. /\ mode = "svc" /\ calls \in 1 .. 5 /\ stack.svc = << >>
      /\ irqs = TRUE /\ active = NONE /\ stack.irq = << >>
  BY InBoot DEF XInv, LoadConsole, Runs
<1>2. /\ at' = "movs" /\ lr'.svc = "user" /\ spsr'.svc = Psr("usr", TRUE)
      /\ UNCHANGED << mode, irqs, active, exposed, calls, stack >>
  BY DEF LoadConsole, XInv, Banked
<1>3. Runs(at, stack.svc)'
  BY <1>1, <1>2 DEF Runs, Open, Psr
<1>4. InProgram'
  BY <1>1, <1>2, <1>3 DEF InProgram, Open
<1> QED
  BY <1>4 DEF Shape

LEMMA EnterConsoleShape ==
  ASSUME XInv, EnterConsole
  PROVE  Shape'
<1>1. /\ calls \in 1 .. 5 /\ stack.svc = << >> /\ active = NONE /\ stack.irq = << >>
      /\ Runs(at, stack.svc) /\ at = "movs"
  BY InBoot DEF XInv, EnterConsole, Runs
<1>2. /\ mode' = spsr.svc.mode /\ irqs' = spsr.svc.irqs /\ at' = lr.svc
      /\ UNCHANGED << active, exposed, stack >>
  BY DEF EnterConsole
<1>3. CASE lr.svc = "user" /\ spsr.svc = Psr("usr", TRUE)
  <2>1. mode' = "usr" /\ irqs' = TRUE /\ at' = "user"
    BY <1>2, <1>3 DEF Psr
  <2>2. Runs(at, stack.svc)'
    BY <1>1, <1>2, <2>1 DEF Runs, Open
  <2>3. InProgram'
    BY <1>1, <1>2, <2>1, <2>2 DEF InProgram, Open
  <2> QED
    BY <2>3 DEF Shape
<1>4. CASE lr.svc = "written" /\ spsr.svc = Psr("irq", FALSE) /\ exposed
  <2>1. mode' = "irq" /\ irqs' = FALSE /\ at' = "written"
    BY <1>2, <1>4 DEF Psr
  <2>2. Astray'
    BY <1>1, <1>2, <1>4, <2>1 DEF Astray
  <2> QED
    BY <2>2 DEF Shape
<1> QED
  BY <1>1, <1>3, <1>4 DEF Runs

-----------------------------------------------------------------------------
(* Interrupts.                                                               *)

LEMMA RunsSame ==
  ASSUME NEW x, Runs(x, stack.svc), UNCHANGED << calls, exposed >>,
         stack'.svc = stack.svc, lr'.svc = lr.svc, spsr'.svc = spsr.svc
  PROVE  Runs(x, stack.svc)'
BY DEF Runs, ReturnsTo

\* A handler is about to print.
LEMMA PrintIrq ==
  ASSUME Banked, mode = "irq", irqs = FALSE, NEW n, CallPrint(n)
  PROVE  /\ at' = "write" /\ UNCHANGED << mode, irqs, lr, spsr >>
         /\ stack'.irq = << Printing(n, "irq") >> \o stack.irq /\ stack'.svc = stack.svc
<1>1. stack' = [stack EXCEPT !["irq"] = << Printing(n, "irq") >> \o @]
  BY DEF CallPrint, Push, cpsr, Printing
<1> QED
  BY <1>1 DEF CallPrint, Banked

LEMMA PrintSvc ==
  ASSUME Banked, mode = "svc", irqs = FALSE, NEW n, CallPrint(n)
  PROVE  /\ at' = "write" /\ UNCHANGED << mode, irqs, lr, spsr >>
         /\ stack'.svc = << Printing(n, "svc") >> \o stack.svc /\ stack'.irq = stack.irq
<1>1. stack' = [stack EXCEPT !["svc"] = << Printing(n, "svc") >> \o @]
  BY DEF CallPrint, Push, cpsr, Printing
<1> QED
  BY <1>1 DEF CallPrint, Banked

\* What is done when IAR has been read.
LEMMA AtIRQ ==
  ASSUME Shape, at = "irq"
  PROVE  \E x \in Open : InIRQ(x) /\ stack.irq = << Interrupted(x) >> /\ active = NONE
BY DEF Shape, InProgram, InIRQ, InNestedSVC, InSVC, Astray, Open

LEMMA AcknowledgedShape ==
  ASSUME XInv, Tick \/ Key \/ Move
  PROVE  Shape'
<1>1. PICK x \in Open : InIRQ(x) /\ stack.irq = << Interrupted(x) >>
  BY AtIRQ DEF XInv, Tick, Key, Move, Acknowledge
<1>2. /\ active' \in Sources /\ UNCHANGED << calls, exposed >>
      /\ \/ at' = "eoi" /\ UNCHANGED << mode, irqs, lr, spsr, stack >>
         \/ CallPrint("eoi")
  BY DEF Tick, Key, Move, Acknowledge, Sources
<1>3. mode = "irq" /\ irqs = FALSE /\ Runs(x, stack.svc)
  BY <1>1 DEF InIRQ
<1>4. CASE at' = "eoi" /\ UNCHANGED << mode, irqs, lr, spsr, stack >>
  <2>1. Runs(x, stack.svc)'
    BY <1>2, <1>3, <1>4, RunsSame
  <2>2. InIRQ(x)'
    BY <1>1, <1>2, <1>3, <1>4, <2>1 DEF InIRQ
  <2> QED
    BY <2>2 DEF Shape
<1>5. CASE CallPrint("eoi")
  <2>1. /\ at' = "write" /\ UNCHANGED << mode, irqs, lr, spsr >>
        /\ stack'.irq = << Printing("eoi", "irq") >> \o stack.irq /\ stack'.svc = stack.svc
    BY <1>3, <1>5, PrintIrq DEF XInv
  <2>2. stack'.irq = << Printing("eoi", "irq"), Interrupted(x) >>
    BY <1>1, <2>1, PushOne
  <2>3. Runs(x, stack.svc)'
    BY <1>2, <1>3, <2>1, RunsSame
  <2>4. InIRQ(x)'
    BY <1>2, <1>3, <2>1, <2>2, <2>3 DEF InIRQ
  <2> QED
    BY <2>4 DEF Shape
<1> QED
  BY <1>2, <1>4, <1>5

LEMMA EndOfInterruptShape ==
  ASSUME XInv, EndOfInterrupt
  PROVE  Shape'
<1>1. PICK x \in Open : InIRQ(x)
  BY DEF XInv, Shape, InProgram, InIRQ, InNestedSVC, InSVC, Astray, Open, EndOfInterrupt
<1>2. /\ at = "eoi" /\ active' = NONE /\ at' = "leave"
      /\ UNCHANGED << mode, irqs, lr, spsr, stack, calls, exposed >>
  BY DEF EndOfInterrupt
<1>3. Runs(x, stack.svc)'
  BY <1>1, <1>2, RunsSame DEF InIRQ
<1>4. InIRQ(x)'
  BY <1>1, <1>2, <1>3 DEF InIRQ
<1> QED
  BY <1>4 DEF Shape

LEMMA WriteShape ==
  ASSUME XInv, Write
  PROVE  Shape'
<1>1. /\ mode' = "svc" /\ irqs' = FALSE /\ at' = "svc" /\ calls' = calls /\ active' = active
      /\ stack'.svc = << Frame("lolevel", "written", cpsr) >> \o stack.svc
      /\ stack'.irq = stack.irq /\ lr'.svc = "written" /\ spsr'.svc = cpsr
  BY TakeSvc DEF XInv, Write
<1>2. ASSUME NEW x \in Open, InIRQ(x) PROVE Shape'
  <2>1. /\ mode = "irq" /\ irqs = FALSE /\ Runs(x, stack.svc) /\ active \in Sources
        /\ stack.irq = << Printing("eoi", "irq"), Interrupted(x) >>
    BY <1>2 DEF InIRQ, Write
  <2>2. Frame("lolevel", "written", cpsr) = Nested("irq") /\ cpsr = Psr("irq", FALSE)
    BY <2>1 DEF Nested, cpsr
  <2>3. x \in {"leaf", "entry", "movs"} => exposed' = TRUE
    <3>1. stack.irq[Len(stack.irq)] = Interrupted(x)
      BY <2>1
    <3>2. Interrupted(x).lr = x
      BY DEF Interrupted, Frame
    <3> QED
      BY <2>1, <3>1, <3>2 DEF Write
  <2>4. exposed => exposed'
    BY DEF Write
  <2>5. PICK s \in Kept : s = stack.svc
    BY <2>1, RunsKept
  <2>6. Runs(x, s)'
    <3>1. Runs(x, s)
      BY <2>1, <2>5
    <3> QED
      BY <1>1, <2>2, <2>3, <2>4, <3>1 DEF Runs, ReturnsTo
  <2>7. InNestedSVC(x)'
    BY <1>1, <2>1, <2>2, <2>3, <2>5, <2>6 DEF InNestedSVC
  <2> QED
    BY <2>7 DEF Shape
<1>3. CASE InSVC
  <2>1. PICK n \in {"fork", "exit", "kill"} :
          stack.svc = << Printing(n, "svc"), Interrupted("user") >>
    BY <1>3 DEF InSVC, Write
  <2>2. Frame("lolevel", "written", cpsr) = Nested("svc")
    BY <1>3 DEF Nested, cpsr, InSVC
  <2>3. stack'.svc = << Nested("svc"), Printing(n, "svc"), Interrupted("user") >>
    BY <1>1, <2>1, <2>2, PushTwo
  <2>4. InSVC'
    BY <1>1, <1>3, <2>3 DEF InSVC
  <2> QED
    BY <2>4 DEF Shape
<1>4. (\E x \in Open : InIRQ(x)) \/ InSVC
  BY DEF XInv, Shape, InProgram, InNestedSVC, Astray, Open, Write
<1> QED
  BY <1>2, <1>3, <1>4

LEMMA WrittenShape ==
  ASSUME XInv, Written
  PROVE  Shape'
<1>0. at = "written" /\ Return("write") /\ UNCHANGED << active, calls, exposed >>
  BY DEF Written
<1>1. CASE InProgram
  <2>1. /\ stack.svc = << Start >> /\ exposed /\ mode = "svc" /\ calls \in 1 .. 5
        /\ irqs = TRUE /\ active = NONE /\ stack.irq = << >>
    BY <1>0, <1>1 DEF InProgram, Runs
  <2>2. ~Top(mode, "write")
    <3>1. Head(stack.svc) = Start
      BY <2>1
    <3>2. Start.by = "rst"
      BY DEF Start, Frame
    <3> QED
      BY <2>1, <3>1, <3>2 DEF Top
  <2>3. at' = "lost" /\ UNCHANGED << mode, irqs, lr, spsr, stack >>
    BY <1>0, <2>2, ReturnLost DEF XInv
  <2>4. Runs(at, stack.svc)'
    BY <1>0, <2>1, <2>3 DEF Runs, Open
  <2>5. InProgram'
    BY <1>0, <2>1, <2>3, <2>4 DEF InProgram, Open
  <2> QED
    BY <2>5 DEF Shape
<1>2. ASSUME NEW x \in Open, InIRQ(x) PROVE Shape'
  <2>1. /\ mode = "irq" /\ irqs = FALSE /\ Runs(x, stack.svc) /\ active \in Sources
        /\ stack.irq = << Printing("eoi", "irq"), Interrupted(x) >>
    BY <1>0, <1>2 DEF InIRQ
  <2>2. /\ stack.irq # << >> /\ Head(stack.irq) = Printing("eoi", "irq")
        /\ Tail(stack.irq) = << Interrupted(x) >>
    BY <2>1
  <2>3. Printing("eoi", "irq").by = "write" /\ Printing("eoi", "irq").lr = "eoi"
    BY DEF Printing, Frame
  <2>4. /\ at' = "eoi" /\ UNCHANGED << mode, irqs, lr, spsr >>
        /\ stack'.irq = << Interrupted(x) >> /\ stack'.svc = stack.svc
    BY <1>0, <2>1, <2>2, <2>3, ReturnIrq DEF XInv
  <2>5. Runs(x, stack.svc)'
    BY <1>0, <2>1, <2>4, RunsSame
  <2>6. InIRQ(x)'
    BY <1>0, <2>1, <2>4, <2>5 DEF InIRQ
  <2> QED
    BY <2>6 DEF Shape
<1>3. CASE InSVC
  <2>1. PICK n \in {"fork", "exit", "kill"} :
          stack.svc = << Printing(n, "svc"), Interrupted("user") >>
    BY <1>0, <1>3 DEF InSVC
  <2>2. /\ stack.svc # << >> /\ Head(stack.svc) = Printing(n, "svc")
        /\ Tail(stack.svc) = << Interrupted("user") >>
    BY <2>1
  <2>3. Printing(n, "svc").by = "write" /\ Printing(n, "svc").lr = n
    BY DEF Printing, Frame
  <2>4. mode = "svc" /\ irqs = FALSE /\ active = NONE /\ stack.irq = << >>
    BY <1>3 DEF InSVC
  <2>5. /\ at' = n /\ UNCHANGED << mode, irqs, lr, spsr >>
        /\ stack'.svc = << Interrupted("user") >> /\ stack'.irq = stack.irq
    BY <1>0, <2>2, <2>3, <2>4, ReturnSvc DEF XInv
  <2>6. InSVC'
    BY <1>0, <2>4, <2>5 DEF InSVC
  <2> QED
    BY <2>6 DEF Shape
<1>4. CASE Astray
  <2>1. ~Top(mode, "write")
    BY <1>4 DEF Astray, Top
  <2>2. at' = "lost" /\ UNCHANGED << mode, irqs, lr, spsr, stack >>
    BY <1>0, <2>1, ReturnLost DEF XInv
  <2>3. Astray'
    BY <1>0, <1>4, <2>2 DEF Astray
  <2> QED
    BY <2>3 DEF Shape
<1> QED
  BY <1>0, <1>1, <1>2, <1>3, <1>4 DEF XInv, Shape, InNestedSVC

\* movs goes back to what the frame on top says.
LEMMA LeaveSvc ==
  ASSUME Banked, Leave, mode = "svc", NEW f, NEW s,
         stack.svc # << >>, Head(stack.svc) = f, Tail(stack.svc) = s, f.by = "lolevel"
  PROVE  /\ mode' = f.psr.mode /\ irqs' = f.psr.irqs /\ at' = f.lr
         /\ lr'.svc = f.lr /\ spsr'.svc = f.psr /\ stack'.svc = s /\ stack'.irq = stack.irq
<1>1. Top(mode, "lolevel")
  BY DEF Top
<1>2. mode' = f.psr.mode /\ irqs' = f.psr.irqs /\ at' = f.lr
  BY <1>1 DEF Leave
<1>3. /\ stack' = [stack EXCEPT !["svc"] = s] /\ lr' = [lr EXCEPT !["svc"] = f.lr]
      /\ spsr' = [spsr EXCEPT !["svc"] = f.psr]
  BY <1>1 DEF Leave
<1> QED
  BY <1>2, <1>3 DEF Banked

LEMMA LeaveIrq ==
  ASSUME Banked, Leave, mode = "irq", NEW f, NEW s,
         stack.irq # << >>, Head(stack.irq) = f, Tail(stack.irq) = s, f.by = "lolevel"
  PROVE  /\ mode' = f.psr.mode /\ irqs' = f.psr.irqs /\ at' = f.lr
         /\ lr'.svc = lr.svc /\ spsr'.svc = spsr.svc
         /\ stack'.irq = s /\ stack'.svc = stack.svc
<1>1. Top(mode, "lolevel")
  BY DEF Top
<1>2. mode' = f.psr.mode /\ irqs' = f.psr.irqs /\ at' = f.lr
  BY <1>1 DEF Leave
<1>3. /\ stack' = [stack EXCEPT !["irq"] = s] /\ lr' = [lr EXCEPT !["irq"] = f.lr]
      /\ spsr' = [spsr EXCEPT !["irq"] = f.psr]
  BY <1>1 DEF Leave
<1> QED
  BY <1>2, <1>3 DEF Banked

LEMMA LeaveShape ==
  ASSUME XInv, Leave
  PROVE  Shape'
<1>0. at = "leave" /\ UNCHANGED << active, calls, exposed >>
  BY DEF Leave
<1>1. ASSUME NEW x \in Open, InIRQ(x) PROVE Shape'
  <2>1. /\ mode = "irq" /\ irqs = FALSE /\ Runs(x, stack.svc) /\ active = NONE
        /\ stack.irq = << Interrupted(x) >>
    BY <1>0, <1>1 DEF InIRQ
  <2>2. stack.irq # << >> /\ Head(stack.irq) = Interrupted(x) /\ Tail(stack.irq) = << >>
    BY <2>1
  <2>3. /\ Interrupted(x).by = "lolevel" /\ Interrupted(x).lr = x
        /\ Interrupted(x).psr.mode = (IF x = "user" THEN "usr" ELSE "svc")
        /\ Interrupted(x).psr.irqs = TRUE
    BY DEF Interrupted, Frame, Psr
  <2>4. /\ mode' = (IF x = "user" THEN "usr" ELSE "svc") /\ irqs' = TRUE /\ at' = x
        /\ lr'.svc = lr.svc /\ spsr'.svc = spsr.svc
        /\ stack'.irq = << >> /\ stack'.svc = stack.svc
    BY <2>1, <2>2, <2>3, LeaveIrq DEF XInv
  <2>5. Runs(x, stack.svc)'
    BY <1>0, <2>1, <2>4, RunsSame
  <2>6. Runs(at, stack.svc)'
    BY <2>4, <2>5
  <2>7. InProgram'
    BY <1>0, <2>1, <2>4, <2>6 DEF InProgram
  <2> QED
    BY <2>7 DEF Shape
<1>2. ASSUME NEW x \in Open, InNestedSVC(x) PROVE Shape'
  <2>1. /\ mode = "svc" /\ active \in Sources
        /\ stack.irq = << Printing("eoi", "irq"), Interrupted(x) >>
        /\ lr.svc = "written" /\ spsr.svc = Psr("irq", FALSE)
    BY <1>2 DEF InNestedSVC
  <2>2. PICK s \in Kept : Runs(x, s) /\ stack.svc = << Nested("irq") >> \o s
    BY <1>2 DEF InNestedSVC
  <2>3. stack.svc # << >> /\ Head(stack.svc) = Nested("irq") /\ Tail(stack.svc) = s
    <3>1. Nested("irq") \in FrameType /\ s \in Seq(FrameType)
      BY FrameTypes, KeptSeq
    <3> QED
      BY <2>2, <3>1, PushPop
  <2>4. /\ Nested("irq").by = "lolevel" /\ Nested("irq").lr = "written"
        /\ Nested("irq").psr = Psr("irq", FALSE)
        /\ Nested("irq").psr.mode = "irq" /\ Nested("irq").psr.irqs = FALSE
    BY DEF Nested, Frame, Psr
  <2>5. /\ mode' = "irq" /\ irqs' = FALSE /\ at' = "written"
        /\ lr'.svc = "written" /\ spsr'.svc = Psr("irq", FALSE)
        /\ stack'.svc = s /\ stack'.irq = stack.irq
    BY <2>1, <2>3, <2>4, LeaveSvc DEF XInv
  <2>6. Runs(x, s)'
    BY <1>0, <2>1, <2>2, <2>5 DEF Runs, ReturnsTo
  <2>7. Runs(x, stack.svc)'
    BY <2>5, <2>6
  <2>8. InIRQ(x)'
    BY <1>0, <2>1, <2>5, <2>7 DEF InIRQ
  <2> QED
    BY <2>8 DEF Shape
<1>3. CASE InSVC
  <2>1. mode = "svc" /\ irqs = FALSE /\ active = NONE /\ stack.irq = << >>
    BY <1>3 DEF InSVC
  <2>2. CASE stack.svc = << Interrupted("user") >>
    <3>1. /\ stack.svc # << >> /\ Head(stack.svc) = Interrupted("user")
          /\ Tail(stack.svc) = << >>
      BY <2>2
    <3>2. /\ Interrupted("user").by = "lolevel" /\ Interrupted("user").lr = "user"
          /\ Interrupted("user").psr.mode = "usr" /\ Interrupted("user").psr.irqs = TRUE
      BY DEF Interrupted, Frame, Psr
    <3>3. /\ mode' = "usr" /\ irqs' = TRUE /\ at' = "user"
          /\ stack'.svc = << >> /\ stack'.irq = << >>
      BY <2>1, <3>1, <3>2, LeaveSvc DEF XInv
    <3>4. Runs(at, stack.svc)'
      BY <3>3 DEF Runs, Open
    <3>5. InProgram'
      BY <1>0, <2>1, <3>3, <3>4 DEF InProgram, Open
    <3> QED
      BY <3>5 DEF Shape
  <2>3. ASSUME NEW n \in {"fork", "exit", "kill"},
               stack.svc = << Nested("svc"), Printing(n, "svc"), Interrupted("user") >>
        PROVE  Shape'
    <3>1. /\ stack.svc # << >> /\ Head(stack.svc) = Nested("svc")
          /\ Tail(stack.svc) = << Printing(n, "svc"), Interrupted("user") >>
      BY <2>3
    <3>2. /\ Nested("svc").by = "lolevel" /\ Nested("svc").lr = "written"
          /\ Nested("svc").psr.mode = "svc" /\ Nested("svc").psr.irqs = FALSE
      BY DEF Nested, Frame, Psr
    <3>3. /\ mode' = "svc" /\ irqs' = FALSE /\ at' = "written" /\ stack'.irq = << >>
          /\ stack'.svc = << Printing(n, "svc"), Interrupted("user") >>
      BY <2>1, <3>1, <3>2, LeaveSvc DEF XInv
    <3>4. InSVC'
      BY <1>0, <2>1, <3>3 DEF InSVC
    <3> QED
      BY <3>4 DEF Shape
  <2> QED
    BY <1>0, <1>3, <2>2, <2>3 DEF InSVC
<1> QED
  BY <1>0, <1>1, <1>2, <1>3 DEF XInv, Shape, InProgram, Astray, Open

-----------------------------------------------------------------------------
(* Supervisor calls.                                                         *)

\* A handler that does not print.
LEMMA HandledShape ==
  ASSUME Shape, at \in {"svc", "fork", "exit", "kill"}, at' = "leave",
         UNCHANGED << mode, irqs, lr, spsr, stack, active, calls, exposed >>
  PROVE  Shape'
<1>1. ASSUME NEW x \in Open, InNestedSVC(x) PROVE Shape'
  <2>1. InNestedSVC(x)'
    BY <1>1, RunsStays DEF InNestedSVC
  <2> QED
    BY <2>1 DEF Shape
<1>2. CASE InSVC
  <2>1. InSVC'
    BY <1>2 DEF InSVC
  <2> QED
    BY <2>1 DEF Shape
<1> QED
  BY <1>1, <1>2 DEF Shape, InProgram, InIRQ, Astray, Open

LEMMA SvcPrintShape ==
  ASSUME XInv, SvcPrint
  PROVE  Shape'
<1>1. InSVC /\ stack.svc = << Interrupted("user") >>
  <2>1. at = "svc" /\ Head(stack.svc).lr = "user"
    BY DEF SvcPrint, UserCall
  <2>2. Nested("irq").lr = "written" /\ Nested("svc").lr = "written"
    BY DEF Nested, Frame
  <2>3. ASSUME NEW x \in Open, InNestedSVC(x) PROVE FALSE
    <3>1. PICK s \in Kept : stack.svc = << Nested("irq") >> \o s
      BY <2>3 DEF InNestedSVC
    <3>2. Nested("irq") \in FrameType /\ s \in Seq(FrameType)
      BY FrameTypes, KeptSeq
    <3>3. Head(stack.svc) = Nested("irq")
      BY <3>1, <3>2, PushPop
    <3> QED
      BY <2>1, <2>2, <3>3
  <2>4. ASSUME NEW n \in {"fork", "exit", "kill"},
               stack.svc = << Nested("svc"), Printing(n, "svc"), Interrupted("user") >>
        PROVE  FALSE
    <3>1. Head(stack.svc) = Nested("svc")
      BY <2>4
    <3> QED
      BY <2>1, <2>2, <3>1
  <2>5. InSVC
    BY <2>1, <2>3 DEF XInv, Shape, InProgram, InIRQ, Astray, Open
  <2> QED
    BY <2>1, <2>4, <2>5 DEF InSVC
<1>2. mode = "svc" /\ irqs = FALSE /\ active = NONE /\ stack.irq = << >>
  BY <1>1 DEF InSVC
<1>3. PICK n \in {"fork", "exit", "kill"} : CallPrint(n)
  BY DEF SvcPrint
<1>4. /\ at' = "write" /\ UNCHANGED << mode, irqs, active >>
      /\ stack'.svc = << Printing(n, "svc") >> \o stack.svc /\ stack'.irq = stack.irq
  BY <1>2, <1>3, PrintSvc DEF XInv, SvcPrint
<1>5. stack'.svc = << Printing(n, "svc"), Interrupted("user") >>
  BY <1>1, <1>4, PushOne
<1>6. InSVC'
  BY <1>2, <1>4, <1>5 DEF InSVC
<1> QED
  BY <1>6 DEF Shape

LEMMA SvcShape ==
  ASSUME XInv, Svc
  PROVE  Shape'
<1>1. CASE SvcPrint
  BY <1>1, SvcPrintShape
<1>2. CASE ~SvcPrint
  <2>1. /\ SvcWrite \/ SvcSimple \/ SvcTable \/ SvcPrinted
        /\ at' = "leave" /\ UNCHANGED << mode, irqs, lr, spsr, stack, active, calls, exposed >>
    BY <1>2 DEF Svc
  <2>2. at \in {"svc", "fork", "exit", "kill"}
    BY <2>1 DEF SvcWrite, SvcSimple, SvcTable, SvcPrinted, UserCall
  <2> QED
    BY <2>1, <2>2, HandledShape DEF XInv
<1> QED
  BY <1>1, <1>2

LEMMA ShapeStep == XInv /\ [XNext]_xvars => Shape'
<1> SUFFICES ASSUME XInv, [XNext]_xvars PROVE Shape'
  OBVIOUS
<1>1. CASE Boot
  BY <1>1, CallShape, EntryShape, LeafReturnShape, FunctionReturnShape, LoadConsoleShape,
     EnterConsoleShape DEF Boot
<1>2. CASE Tick \/ Key \/ Move \/ EndOfInterrupt
  BY <1>2, AcknowledgedShape, EndOfInterruptShape
<1>3. CASE Svc \/ Write \/ Written \/ Leave
  BY <1>3, SvcShape, WriteShape, WrittenShape, LeaveShape
<1>4. CASE TakeIRQ \/ SystemCall
  BY <1>4, TakeIRQShape, SystemCallShape
<1>5. CASE Compute \/ Stop \/ UNCHANGED xvars \/ \E s \in Sources : Raise(s)
  <2>1. UNCHANGED << mode, irqs, at, lr, spsr, stack, active, calls, exposed >>
    BY <1>5 DEF Compute, Stop, xvars, Raise, processor
  <2> QED
    BY <2>1, QuietShape DEF XInv
<1> QED
  BY <1>1, <1>2, <1>3, <1>4, <1>5 DEF XNext, Handlers

-----------------------------------------------------------------------------
(* Types.                                                                    *)

LEMMA ShapeTypes ==
  ASSUME Shape
  PROVE  /\ cpsr \in PsrType /\ at \in Places /\ active \in Sources \cup {NONE}
         /\ mode = "usr" <=> at = "user"
         /\ mode # "usr" => mode \in {"svc", "irq"}
<1>1. CASE InProgram
  BY <1>1 DEF InProgram, cpsr, Psr, PsrType, Places, Open, NONE
<1>2. CASE \E x \in Open : InIRQ(x) \/ InNestedSVC(x)
  BY <1>2 DEF InIRQ, InNestedSVC, cpsr, Psr, PsrType, Places
<1>3. CASE InSVC
  BY <1>3 DEF InSVC, cpsr, Psr, PsrType, Places, NONE
<1>4. CASE Astray
  BY <1>4 DEF Astray, cpsr, Psr, PsrType, Places, NONE
<1> QED
  BY <1>1, <1>2, <1>3, <1>4 DEF Shape

LEMMA ShallowStacks ==
  ASSUME Shape
  PROVE  Len(stack.svc) <= 3 /\ Len(stack.irq) <= 2
<1>1. ASSUME NEW x, NEW s, Runs(x, s) PROVE Len(s) \in Nat /\ Len(s) <= 2 /\ s \in Kept
  <2>1. s \in Kept
    BY <1>1, RunsKept
  <2> QED
    BY <2>1, KeptSeq
<1>2. CASE InProgram
  BY <1>1, <1>2 DEF InProgram
<1>3. ASSUME NEW x \in Open, InIRQ(x) PROVE Len(stack.svc) <= 3 /\ Len(stack.irq) <= 2
  <2>1. Len(stack.svc) <= 3
    BY <1>1, <1>3 DEF InIRQ
  <2>2. CASE stack.irq = << Interrupted(x) >>
    BY <2>1, <2>2
  <2>3. CASE stack.irq = << Printing("eoi", "irq"), Interrupted(x) >>
    BY <2>1, <2>3
  <2> QED
    BY <1>3, <2>2, <2>3 DEF InIRQ
<1>4. ASSUME NEW x \in Open, InNestedSVC(x) PROVE Len(stack.svc) <= 3 /\ Len(stack.irq) <= 2
  <2>1. PICK s \in Kept : Runs(x, s) /\ stack.svc = << Nested("irq") >> \o s
    BY <1>4 DEF InNestedSVC
  <2>2. Len(stack.svc) = Len(s) + 1
    <3>1. Nested("irq") \in FrameType /\ s \in Seq(FrameType)
      BY FrameTypes, KeptSeq
    <3> QED
      BY <2>1, <3>1, PushPop
  <2>3. Len(stack.irq) <= 2
    <3>1. stack.irq = << Printing("eoi", "irq"), Interrupted(x) >>
      BY <1>4 DEF InNestedSVC
    <3> QED
      BY <3>1
  <2> QED
    BY <1>1, <2>1, <2>2, <2>3
<1>5. CASE InSVC
  <2>1. stack.irq = << >>
    BY <1>5 DEF InSVC
  <2>2. CASE stack.svc = << Interrupted("user") >>
    BY <2>1, <2>2
  <2>3. ASSUME NEW n \in {"fork", "exit", "kill"},
               stack.svc = << Printing(n, "svc"), Interrupted("user") >>
        PROVE  Len(stack.svc) <= 3
    BY <2>3
  <2>4. ASSUME NEW n \in {"fork", "exit", "kill"},
               stack.svc = << Nested("svc"), Printing(n, "svc"), Interrupted("user") >>
        PROVE  Len(stack.svc) <= 3
    BY <2>4
  <2> QED
    BY <1>5, <2>1, <2>2, <2>3, <2>4 DEF InSVC
<1>6. CASE Astray
  BY <1>6 DEF Astray
<1> QED
  BY <1>2, <1>3, <1>4, <1>5, <1>6 DEF Shape

LEMMA XTypes == XInv => XTypeOK
<1> SUFFICES ASSUME XInv PROVE XTypeOK
  OBVIOUS
<1>1. \A m \in {"svc", "irq"} : \A k \in 1 .. Len(stack[m]) : stack[m][k] \in FrameType
  BY DEF XInv, Banked
<1>2. calls \in 1 .. Len(Functions) + 1
  BY DEF XInv, Banked, Functions
<1> QED
  BY <1>1, <1>2, ShapeTypes, ShallowStacks DEF XInv, Banked, XTypeOK

\* A frame on the stack of m keeps the types.
LEMMA PushTypes ==
  ASSUME Banked, NEW m \in {"svc", "irq"}, NEW f \in FrameType, stack' = Push(m, f)
  PROVE  stack' \in [{"svc", "irq"} -> Seq(FrameType)]
<1>1. stack[m] \in Seq(FrameType)
  BY DEF Banked
<1>2. << f >> \o stack[m] \in Seq(FrameType)
  BY <1>1, PushPop
<1> QED
  BY <1>2 DEF Banked, Push

LEMMA TakeTypes ==
  ASSUME XInv, NEW m \in {"svc", "irq"}, NEW x \in Places, NEW h, Take(m, x, h)
  PROVE  /\ TypeOK' /\ regs' \in Ctx /\ calls' \in 1 .. 6
         /\ lr' \in [{"svc", "irq"} -> Places] /\ spsr' \in [{"svc", "irq"} -> PsrType]
         /\ stack' \in [{"svc", "irq"} -> Seq(FrameType)]
<1>1. cpsr \in PsrType
  BY ShapeTypes DEF XInv
<1>2. Frame("lolevel", x, cpsr) \in FrameType
  BY <1>1 DEF Frame, FrameType
<1>3. stack' \in [{"svc", "irq"} -> Seq(FrameType)]
  BY <1>2, PushTypes DEF Take, XInv
<1>4. TypeOK'
  BY DEF Take, XInv, Banked, TypeOK
<1> QED
  BY <1>1, <1>3, <1>4 DEF Take, XInv, Banked

LEMMA PrintTypes ==
  ASSUME XInv, at # "user", NEW n \in {"eoi", "fork", "exit", "kill"}, CallPrint(n)
  PROVE  stack' \in [{"svc", "irq"} -> Seq(FrameType)]
<1>1. cpsr \in PsrType /\ mode \in {"svc", "irq"}
  BY ShapeTypes DEF XInv
<1>2. Frame("write", n, cpsr) \in FrameType
  BY <1>1 DEF Frame, FrameType, Places
<1> QED
  BY <1>1, <1>2, PushTypes DEF CallPrint, XInv

\* What comes off a stack is a frame, and leaves a stack.
LEMMA PopTypes ==
  ASSUME Banked, NEW m \in {"svc", "irq"}, stack[m] # << >>
  PROVE  /\ Head(stack[m]) \in FrameType
         /\ [stack EXCEPT ![m] = Tail(@)] \in [{"svc", "irq"} -> Seq(FrameType)]
<1>1. stack[m] \in Seq(FrameType)
  BY DEF Banked
<1>2. Head(stack[m]) \in FrameType /\ Tail(stack[m]) \in Seq(FrameType)
  BY <1>1
<1> QED
  BY <1>2 DEF Banked

LEMMA ReturnTypes ==
  ASSUME XInv, at # "user", NEW by, Return(by)
  PROVE  /\ UNCHANGED << regs, lr, spsr >>
         /\ stack' \in [{"svc", "irq"} -> Seq(FrameType)]
<1>1. mode \in {"svc", "irq"}
  BY ShapeTypes DEF XInv
<1>2. CASE Top(mode, by)
  BY <1>1, <1>2, PopTypes DEF Return, XInv, Top
<1>3. CASE ~Top(mode, by)
  BY <1>3, ReturnLost DEF XInv, Banked
<1> QED
  BY <1>2, <1>3

LEMMA LeaveTypes ==
  ASSUME XInv, Leave
  PROVE  Banked'
<1>1. mode \in {"svc", "irq"} /\ UNCHANGED << table, raised, calls, exposed >>
  BY ShapeTypes DEF XInv, Leave
<1>2. TypeOK'
  BY <1>1 DEF XInv, Banked, TypeOK, table
<1>3. CASE Top(mode, "lolevel")
  <2> DEFINE frame == Head(stack[mode])
  <2>1. /\ lr' = [lr EXCEPT ![mode] = frame.lr] /\ spsr' = [spsr EXCEPT ![mode] = frame.psr]
        /\ stack' = [stack EXCEPT ![mode] = Tail(@)] /\ regs' \in {ctx, regs}
    BY <1>3 DEF Leave
  <2>2. frame \in FrameType /\ stack' \in [{"svc", "irq"} -> Seq(FrameType)]
    BY <1>1, <1>3, <2>1, PopTypes DEF XInv, Top
  <2>3. frame.lr \in Places /\ frame.psr \in PsrType
    BY <2>2 DEF FrameType
  <2>4. regs' \in Ctx
    BY <2>1 DEF XInv, Banked, TypeOK
  <2> HIDE DEF frame
  <2>5. lr' \in [{"svc", "irq"} -> Places] /\ spsr' \in [{"svc", "irq"} -> PsrType]
    BY <1>1, <2>1, <2>3 DEF XInv, Banked
  <2> QED
    BY <1>1, <1>2, <2>2, <2>4, <2>5 DEF XInv, Banked
<1>4. CASE ~Top(mode, "lolevel")
  BY <1>1, <1>2, <1>4 DEF Leave, GetsLost, XInv, Banked
<1> QED
  BY <1>3, <1>4

LEMMA BootTypes ==
  ASSUME XInv, Boot
  PROVE  Banked'
<1>1. TypeOK' /\ UNCHANGED << raised, exposed >>
  BY DEF Boot, Call, Entry, LeafReturn, FunctionReturn, LoadConsole, EnterConsole, table,
         XInv, Banked, TypeOK
<1>2. CASE Call
  BY <1>1, <1>2 DEF Call, Functions, XInv, Banked, Places
<1>3. CASE Entry
  <2>1. cpsr \in PsrType /\ lr.svc \in Places
    BY ShapeTypes DEF XInv, Banked
  <2>2. Frame("function", lr.svc, cpsr) \in FrameType
    BY <2>1 DEF Frame, FrameType
  <2>3. stack' \in [{"svc", "irq"} -> Seq(FrameType)]
    BY <1>3, <2>2, PushTypes DEF Entry, XInv
  <2> QED
    BY <1>1, <1>3, <2>3 DEF Entry, XInv, Banked
<1>4. CASE LeafReturn
  BY <1>1, <1>4 DEF LeafReturn, XInv, Banked
<1>5. CASE FunctionReturn
  <2>1. at # "user" /\ UNCHANGED calls /\ (Return("function") \/ Return("rst"))
    BY <1>5 DEF FunctionReturn
  <2> QED
    BY <1>1, <2>1, ReturnTypes DEF XInv, Banked
<1>6. CASE LoadConsole
  BY <1>1, <1>6 DEF LoadConsole, XInv, Banked, Places, Psr, PsrType
<1>7. CASE EnterConsole
  <2>1. calls \in 1 .. 5
    BY <1>7, InBoot DEF EnterConsole, XInv
  <2> QED
    BY <1>1, <1>7, <2>1 DEF EnterConsole, XInv, Banked, TypeOK
<1> QED
  BY <1>2, <1>3, <1>4, <1>5, <1>6, <1>7 DEF Boot

LEMMA SvcTypes ==
  ASSUME XInv, Svc
  PROVE  Banked'
<1>1. TypeOK'
  <2>1. CASE SvcWrite \/ SvcPrint
    BY <2>1 DEF SvcWrite, SvcPrint, table, XInv, Banked, TypeOK
  <2>2. CASE SvcSimple
    BY <2>2, TableAssumption DEF SvcSimple, XInv, Banked, TypeOK, Ctx
  <2>3. CASE SvcTable \/ SvcPrinted
    BY <2>3, TypeStep DEF SvcTable, SvcPrinted, Next, XInv, Banked
  <2> QED
    BY <2>1, <2>2, <2>3 DEF Svc
<1>2. CASE SvcPrint
  <2>1. PICK n \in {"fork", "exit", "kill"} : CallPrint(n)
    BY <1>2 DEF SvcPrint
  <2>2. at # "user" /\ UNCHANGED << regs, lr, spsr, raised, calls, exposed >>
    BY <1>2, <2>1 DEF SvcPrint, UserCall, CallPrint
  <2> QED
    BY <1>1, <2>1, <2>2, PrintTypes DEF XInv, Banked
<1>3. CASE ~SvcPrint
  BY <1>1, <1>3 DEF Svc, XInv, Banked
<1> QED
  BY <1>2, <1>3

LEMMA IrqTypes ==
  ASSUME XInv, Tick \/ Key \/ Move \/ EndOfInterrupt
  PROVE  Banked'
<1>1. raised' \subseteq Sources /\ UNCHANGED << regs, lr, spsr, calls, exposed >>
  BY DEF Tick, Key, Move, EndOfInterrupt, Acknowledge, CallPrint, XInv, Banked
<1>2. TypeOK'
  <2>1. CASE Tick
    BY <2>1, TypeStep DEF Tick, Next, XInv, Banked
  <2>2. CASE Key \/ Move \/ EndOfInterrupt
    BY <2>2 DEF Key, Move, EndOfInterrupt, table, XInv, Banked, TypeOK
  <2> QED
    BY <2>1, <2>2
<1>3. stack' \in [{"svc", "irq"} -> Seq(FrameType)]
  <2>1. CASE UNCHANGED stack
    BY <2>1 DEF XInv, Banked
  <2>2. CASE CallPrint("eoi") /\ at = "irq"
    BY <2>2, PrintTypes
  <2> QED
    BY <2>1, <2>2 DEF Tick, Key, Move, EndOfInterrupt, Acknowledge
<1> QED
  BY <1>1, <1>2, <1>3 DEF XInv, Banked

LEMMA XTypeStep == XInv /\ [XNext]_xvars => Banked'
<1> SUFFICES ASSUME XInv, [XNext]_xvars PROVE Banked'
  OBVIOUS
<1>1. CASE Write \/ TakeIRQ \/ SystemCall
  <2>1. PICK m \in {"svc", "irq"}, x \in Places, h \in {"svc", "irq"} : Take(m, x, h)
    BY <1>1, ShapeTypes DEF Write, TakeIRQ, SystemCall, Places, XInv
  <2>2. UNCHANGED raised /\ exposed' \in BOOLEAN
    BY <1>1 DEF Write, TakeIRQ, SystemCall, XInv, Banked
  <2> QED
    BY <2>1, <2>2, TakeTypes DEF XInv, Banked
<1>2. CASE Written
  BY <1>2, ReturnTypes DEF Written, XInv, Banked, TypeOK, table
<1>3. CASE Compute
  <2>1. pcb[current].tos \in Int
    BY DEF XInv, Banked, TypeOK, Pcb
  <2>2. PICK depth \in 0 .. StackSize - 1, v \in Values :
          regs' = [regs EXCEPT !.sp = pcb[current].tos - depth, !.r0 = v]
    BY <1>3 DEF Compute
  <2>3. pcb[current].tos - depth \in Int /\ v \in Int
    BY <2>1, TableAssumption
  <2>4. regs' \in Ctx
    BY <2>2, <2>3 DEF XInv, Banked, Ctx
  <2> QED
    BY <1>3, <2>4 DEF Compute, XInv, Banked, TypeOK, table
<1>4. CASE \E s \in Sources : Raise(s)
  BY <1>4 DEF Raise, XInv, Banked, TypeOK, table, processor
<1>5. CASE Stop \/ UNCHANGED xvars
  BY <1>5 DEF Stop, xvars, XInv, Banked, TypeOK, table, processor
<1> QED
  BY <1>1, <1>2, <1>3, <1>4, <1>5, LeaveTypes, BootTypes, SvcTypes, IrqTypes DEF XNext, Handlers

\* A record by mode is a function of the modes.
LEMMA ByMode ==
  ASSUME NEW S, NEW a \in S, NEW b \in S
  PROVE  [svc |-> a, irq |-> b] \in [{"svc", "irq"} -> S]
OBVIOUS

LEMMA XInitTypes == XInit => Banked
<1> SUFFICES ASSUME XInit PROVE Banked
  OBVIOUS
<1>1. TypeOK
  BY TypeInit DEF XInit
<1>2. regs \in Ctx
  BY DEF XInit, ZeroCtx, Ctx
<1>3. stack \in [{"svc", "irq"} -> Seq(FrameType)]
  <2>1. << Start >> \in Seq(FrameType) /\ << >> \in Seq(FrameType)
    BY FrameTypes
  <2>2. stack = [svc |-> << Start >>, irq |-> << >>]
    BY DEF XInit, Start
  <2> QED
    BY <2>1, <2>2, ByMode
<1>4. lr \in [{"svc", "irq"} -> Places] /\ spsr \in [{"svc", "irq"} -> PsrType]
  <2>1. "rst" \in Places /\ Psr("svc", FALSE) \in PsrType
    BY DEF Places, Psr, PsrType
  <2>2. /\ lr = [svc |-> "rst", irq |-> "rst"]
        /\ spsr = [svc |-> Psr("svc", FALSE), irq |-> Psr("svc", FALSE)]
    BY DEF XInit
  <2> QED
    BY <2>1, <2>2, ByMode
<1>5. raised \subseteq Sources /\ calls \in 1 .. 6 /\ exposed \in BOOLEAN
  <2>1. raised = {} /\ calls = 1 /\ exposed = FALSE
    BY DEF XInit
  <2>2. calls \in 1 .. 6
    BY <2>1, Z3
  <2> QED
    BY <2>1, <2>2
<1> QED
  BY <1>1, <1>2, <1>3, <1>4, <1>5 DEF Banked

-----------------------------------------------------------------------------
LEMMA XInvHolds == XSpec => []XInv
<1>1. XInit => XInv
  BY InitShape, XInitTypes DEF XInv
<1>2. XInv /\ [XNext]_xvars => XInv'
  BY ShapeStep, XTypeStep DEF XInv
<1> QED
  BY <1>1, <1>2, PTL DEF XSpec

\* However interrupts, supervisor calls and the calls they nest come together, the
\* registers, the banked registers and both stacks have their types, and no stack
\* gets deeper than three frames, that of irq than two.
THEOREM XTypesCorrect == XSpec => []XTypeOK
BY XInvHolds, XTypes, PTL

\* A program never runs with something left on a stack of the kernel, with IRQ
\* masked or with an interrupt that was not ended.
THEOREM UserCleanHolds == XSpec => []UserClean
<1>1. XInv => UserClean
  BY DEF XInv, Shape, InProgram, InIRQ, InNestedSVC, InSVC, Astray, Runs, UserClean
<1> QED
  BY <1>1, XInvHolds, PTL

\* The processor gets lost only if a handler printed while a return address of the
\* reset handler was in lr and nowhere else.
THEOREM LostOnlyIfExposedHolds == XSpec => []LostOnlyIfExposed
<1>1. XInv => LostOnlyIfExposed
  BY DEF XInv, Shape, InProgram, InIRQ, InNestedSVC, InSVC, Astray, Runs, LostOnlyIfExposed
<1> QED
  BY <1>1, XInvHolds, PTL

-----------------------------------------------------------------------------
(* A handler is one step of ProcessTable.  Its context, the registers of the *)
(* program that runs or of the one that was interrupted, takes the place of  *)
(* ctx in what is proved there.                                              *)

observed == IF mode = "usr" THEN regs ELSE ctx

AP == INSTANCE ProcessTableProofs WITH ctx <- IF mode = "usr" THEN regs ELSE ctx

LEMMA SameTable ==
  /\ AP!Pids = Pids
  /\ \A i : AP!Tos(i) = Tos(i)
  /\ AP!ZeroPcb = ZeroPcb
  /\ \A t, p : AP!nextProcess(t, p) = nextProcess(t, p)
  /\ \A p : AP!Freed(p) = Freed(p)
  /\ \A t, i : AP!newPid(t, i) <=> newPid(t, i)
BY DEF AP!Pids, Pids, AP!Tos, Tos, AP!ZeroPcb, ZeroPcb, AP!ZeroCtx, ZeroCtx, AP!Freed, Freed,
       AP!nextProcess, nextProcess, AP!Candidate, Candidate, AP!newPid, newPid

LEMMA SameTableAtomic ==
  /\ Atomic!Pids = Pids
  /\ \A i : Atomic!Tos(i) = Tos(i)
  /\ Atomic!ZeroPcb = ZeroPcb
  /\ \A t, p : Atomic!nextProcess(t, p) = nextProcess(t, p)
  /\ \A p : Atomic!Freed(p) = Freed(p)
  /\ \A t, i : Atomic!newPid(t, i) <=> newPid(t, i)
BY DEF Atomic!Pids, Pids, Atomic!Tos, Tos, Atomic!ZeroPcb, ZeroPcb, Atomic!ZeroCtx, ZeroCtx,
       Atomic!Freed, Freed, Atomic!nextProcess, nextProcess, Atomic!Candidate, Candidate,
       Atomic!newPid, newPid

\* Two names of one thing.
LEMMA AtomicIsAP == (AP!Next <=> Atomic!Next) /\ AP!vars = Atomic!vars /\ (AP!Init <=> Atomic!Init)
<1>1. \A t : AP!scheduler(t) <=> Atomic!scheduler(t)
  BY SameTable, SameTableAtomic DEF AP!scheduler, Atomic!scheduler
<1>2. \A i : AP!Child(i) = Atomic!Child(i)
  BY SameTable, SameTableAtomic DEF AP!Child, Atomic!Child
<1>3. AP!Fork <=> Atomic!Fork
  BY <1>2, SameTable, SameTableAtomic DEF AP!Fork, Atomic!Fork
<1>4. AP!Next <=> Atomic!Next
  BY <1>1, <1>3, SameTable, SameTableAtomic
  DEF AP!Next, Atomic!Next, AP!Exit, Atomic!Exit, AP!TimerIRQ, Atomic!TimerIRQ, AP!UserStep,
      Atomic!UserStep, AP!Exec, Atomic!Exec, AP!Kill, Atomic!Kill
<1>5. AP!Init <=> Atomic!Init
  BY SameTable, SameTableAtomic
  DEF AP!Init, Atomic!Init, AP!ConsolePcb, Atomic!ConsolePcb
<1> QED
  BY <1>4, <1>5 DEF AP!vars, Atomic!vars

\* In a handler, a step on the table is the same step for what is observed.
LEMMA HandlerStep ==
  ASSUME mode # "usr", mode' # "usr", TimerIRQ \/ Fork \/ Exec \/ Exit \/ Kill
  PROVE  AP!Next
<1>0. observed = ctx /\ observed' = ctx'
  BY DEF observed
<1>1. ASSUME NEW t, scheduler(t) PROVE AP!scheduler(t)
  BY <1>0, <1>1, SameTable DEF scheduler, AP!scheduler, observed
<1>2. CASE TimerIRQ
  BY <1>1, <1>2 DEF TimerIRQ, AP!TimerIRQ, AP!Next
<1>3. CASE Fork
  <2>1. \A i : AP!Child(i) = Child(i)
    BY <1>0, SameTable DEF AP!Child, Child, observed
  <2> QED
    BY <1>0, <1>3, <2>1, SameTable DEF Fork, AP!Fork, AP!Next, observed
<1>4. CASE Exec
  BY <1>0, <1>4 DEF Exec, AP!Exec, AP!Next, observed
<1>5. CASE Exit
  BY <1>1, <1>5, SameTable DEF Exit, AP!Exit, AP!Next
<1>6. CASE Kill
  <2>1. PICK x \in Values :
          scheduler([pcb EXCEPT ![ctx.r0] = [Freed(@) EXCEPT !.ctx.r0 = x]])
    BY <1>6 DEF Kill
  <2> QED
    BY <1>0, <1>1, <1>6, <2>1, SameTable DEF Kill, AP!Kill, AP!Next, observed
<1> QED
  BY <1>2, <1>3, <1>4, <1>5, <1>6

\* A call that gives a result in r0 is something the program might have done itself.
LEMMA SimpleStep ==
  ASSUME XInv, AP!IInv, ~orphaned, SvcSimple, mode # "usr", mode' # "usr"
  PROVE  AP!Next \/ UNCHANGED AP!vars
<1>1. UNCHANGED << pcb, current, orphaned >>
  BY DEF SvcSimple
<1>2. CASE UNCHANGED ctx
  BY <1>1, <1>2 DEF AP!vars
<1>3. ASSUME NEW v \in Values, ctx' = [ctx EXCEPT !.r0 = v] PROVE AP!UserStep
  <2>1. /\ current \in Pids /\ pcb[current].available = 0 /\ pcb[current].tos = Tos(current)
        /\ AP!CtxOf(current).sp <= Tos(current)
        /\ AP!CtxOf(current).sp > Tos(current) - StackSize
    BY SameTable DEF AP!IInv, AP!SlotIdentity, AP!PrivateStack, AP!LivePids
  <2>2. AP!CtxOf(current) = ctx
    BY DEF AP!CtxOf
  <2>3. ctx \in Ctx /\ Tos(current) \in Int
    BY <2>1, TosInt DEF XInv, Banked, TypeOK
  <2> DEFINE depth == Tos(current) - ctx.sp
  <2>4. depth \in 0 .. StackSize - 1 /\ ctx.sp = pcb[current].tos - depth
    BY <2>1, <2>2, <2>3, TableAssumption DEF Ctx
  <2>5. ctx' = [ctx EXCEPT !.sp = pcb[current].tos - depth, !.r0 = v]
    BY <1>3, <2>3, <2>4 DEF Ctx
  <2> HIDE DEF depth
  <2> QED
    BY <1>1, <2>4, <2>5 DEF AP!UserStep
<1> QED
  BY <1>2, <1>3 DEF SvcSimple, AP!Next

LEMMA AtomicStep ==
  ASSUME XInv, AP!IInv, ~orphaned, [XNext]_xvars
  PROVE  AP!Next \/ UNCHANGED AP!vars
<1>0. ASSUME UNCHANGED << pcb, current, orphaned >>, observed' = observed
      PROVE  UNCHANGED AP!vars
  BY <1>0 DEF AP!vars, observed
<1>1. mode = "usr" <=> at = "user"
  BY ShapeTypes DEF XInv
<1>2. CASE Write \/ TakeIRQ \/ SystemCall
  BY <1>0, <1>2 DEF Write, TakeIRQ, SystemCall, Take, observed
<1>3. CASE Leave \/ EnterConsole
  BY <1>0, <1>1, <1>3 DEF Leave, EnterConsole, GetsLost, table, observed
<1>4. CASE Call \/ Entry \/ LeafReturn \/ FunctionReturn \/ LoadConsole \/ Written
  BY <1>0, <1>1, <1>4 DEF Call, Entry, LeafReturn, FunctionReturn, LoadConsole, Written, Return,
     GetsLost, table, observed
<1>5. CASE Key \/ Move \/ EndOfInterrupt
  BY <1>0, <1>1, <1>5 DEF Key, Move, EndOfInterrupt, Acknowledge, CallPrint, table, observed
<1>6. CASE Tick
  <2>1. TimerIRQ /\ mode # "usr" /\ mode' # "usr"
    BY <1>1, <1>6 DEF Tick, Acknowledge
  <2> QED
    BY <2>1, HandlerStep
<1>7. CASE Svc
  <2>1. mode # "usr" /\ mode' # "usr"
    BY <1>1, <1>7 DEF Svc, SvcWrite, SvcSimple, SvcTable, SvcPrinted, SvcPrint, UserCall, CallPrint
  <2>2. CASE SvcTable \/ SvcPrinted
    BY <2>1, <2>2, HandlerStep DEF SvcTable, SvcPrinted
  <2>3. CASE SvcSimple
    BY <2>1, <2>3, SimpleStep
  <2>4. CASE SvcWrite \/ SvcPrint
    BY <1>0, <2>1, <2>4 DEF SvcWrite, SvcPrint, table, observed
  <2> QED
    BY <1>7, <2>2, <2>3, <2>4 DEF Svc
<1>8. CASE Compute
  BY <1>1, <1>8, SameTable DEF Compute, table, AP!UserStep, AP!Next
<1>9. CASE Stop \/ UNCHANGED xvars \/ \E s \in Sources : Raise(s)
  BY <1>0, <1>9 DEF Stop, xvars, Raise, table, processor, observed
<1> QED
  BY <1>2, <1>3, <1>4, <1>5, <1>6, <1>7, <1>8, <1>9 DEF XNext, Handlers, Boot

\* As long as a process is left, what is proved of ProcessTable holds of what is
\* observed here.
Held == orphaned \/ AP!IInv

LEMMA HeldStep == XInv /\ Held /\ [XNext]_xvars => Held'
<1> SUFFICES ASSUME XInv, Held, [XNext]_xvars, ~orphaned' PROVE AP!IInv'
  BY DEF Held
<1>1. ~orphaned
  <2>1. orphaned => orphaned'
    BY DEF XNext, Handlers, Boot, Call, Entry, LeafReturn, FunctionReturn, LoadConsole,
       EnterConsole, Tick, TimerIRQ, scheduler, Key, Move, EndOfInterrupt, Svc, SvcWrite,
       SvcSimple, SvcTable, SvcPrinted, SvcPrint, Fork, Exec, Exit, Kill, Write, Written, Leave,
       TakeIRQ, Take, Raise, Compute, SystemCall, Stop, xvars, table
  <2> QED
    BY <2>1
<1>2. AP!IInv /\ [AP!Next]_(AP!vars)
  BY <1>1, AtomicStep DEF Held
<1> QED
  BY <1>2, TableAssumption, AP!StackStep, AP!TypeStep DEF AP!IInv

LEMMA HeldInit == XInit => AP!Init /\ Held
<1> SUFFICES ASSUME XInit PROVE AP!Init /\ Held
  OBVIOUS
<1>1. observed = ctx
  BY DEF observed, XInit
<1>2. AP!ConsolePcb = ConsolePcb
  BY SameTable DEF AP!ConsolePcb, ConsolePcb
<1>3. AP!Init
  BY <1>1, <1>2, SameTable DEF XInit, Init, AP!Init, observed
<1> QED
  BY <1>3, TableAssumption, AP!TypeInit, AP!StackInit DEF Held, AP!IInv

LEMMA HeldHolds == XSpec => []Held
<1>1. XInit => Held
  BY HeldInit
<1>2. XInv /\ Held /\ [XNext]_xvars => Held'
  BY HeldStep
<1> QED
  BY <1>1, <1>2, XInvHolds, PTL DEF XSpec

\* With handlers that interrupt each other, print and return through the stacks, no
\* program that runs or waits has its stack pointer in the stack of another one.
THEOREM StacksStayPrivate == XSpec => [](Atomic!SlotIdentity /\ Atomic!PrivateStack)
<1>1. Held => Atomic!SlotIdentity /\ Atomic!PrivateStack
  BY SameTable, SameTableAtomic
  DEF Held, AP!IInv, AP!SlotIdentity, Atomic!SlotIdentity, AP!PrivateStack,
      Atomic!PrivateStack, AP!LivePids, Atomic!LivePids, AP!CtxOf, Atomic!CtxOf
<1> QED
  BY <1>1, HeldHolds, PTL

\* Until the last process ends, what the programs and the table see of every exception
\* is one step of ProcessTable, in which nothing else happens.
THEOREM HandlersAtomicHolds == XSpec /\ []NotOrphaned => HandlersAtomic
<1>1. XInit => Atomic!Init
  BY HeldInit, AtomicIsAP
<1>2. XInv /\ Held /\ NotOrphaned /\ [XNext]_xvars => [Atomic!Next]_(Atomic!vars)
  <2> SUFFICES ASSUME XInv, Held, NotOrphaned, [XNext]_xvars
               PROVE  Atomic!Next \/ UNCHANGED Atomic!vars
    OBVIOUS
  <2>1. AP!Next \/ UNCHANGED AP!vars
    BY AtomicStep DEF Held, NotOrphaned
  <2> QED
    BY <2>1, AtomicIsAP DEF AP!vars, Atomic!vars
<1> QED
  BY <1>1, <1>2, XInvHolds, HeldHolds, PTL DEF XSpec, HandlersAtomic, Atomic!Spec
=============================================================================
