------------------------------- MODULE Kernel -------------------------------
(***************************************************************************)
(* The table of module Dining on the kernel's scheduler.  Dining lets its  *)
(* processes interleave at will and assumes that each gets through its     *)
(* next call.  Here there is one processor: a call is made by the process  *)
(* the scheduler chose, among a console that never ends, philosophers who  *)
(* poll or spin, and programs that only compute, none of which yields.     *)
(***************************************************************************)
EXTENDS Dining, Scheduling

VARIABLES
  prog,              \* the program each slot of the process table executes
  current            \* the slot that has the processor

kvars == << vars, prog, current >>

\* The waiter is the first program the user starts, and he forks the
\* philosophers (module Startup); getpid() counts on it.
ConsolePid == 0
WaiterPid == 1
PhilPid(i) == i + 2

ASSUME KernelAssumption == TOTALP \in Nat /\ TOTALP >= PHILS + 2

KInit ==
  /\ Init
  /\ prog = [p \in Pids |-> CASE p = ConsolePid -> "console"
                              [] p = WaiterPid -> "waiter"
                              [] p \in {PhilPid(i) : i \in Phils} -> "phil"
                              [] OTHER -> "free"]
  /\ current \in {p \in Pids : prog[p] # "free"}

\* The process table as the scheduler sees it.
PcbTable(programs) == [p \in Pids |-> [available |-> IF programs[p] = "free" THEN 1 ELSE 0]]

-----------------------------------------------------------------------------
\* scheduler( ctx ), when the programs are these.
scheduler(programs) == current' \in nextProcess(PcbTable(programs), current)

\* The timer's interrupt, between two calls of the running process.
Timer == scheduler(prog) /\ UNCHANGED << vars, prog >>

\* The process that runs makes its next call.
WaiterCall == /\ current = WaiterPid
              /\ Waiter
              /\ UNCHANGED << prog, current >>

PhilCall(i) == /\ current = PhilPid(i) /\ prog[current] = "phil"
               /\ Phil(i)
               /\ UNCHANGED << prog, current >>

\* fork: a program that computes is started, if there is a slot.
ConsoleFork ==
  /\ prog[current] = "console"
  /\ \E q \in Pids : /\ newPid(PcbTable(prog), q)
                     /\ prog' = [prog EXCEPT ![q] = "P3"]
  /\ UNCHANGED << vars, current >>

\* kill: the user names a philosopher, a program or a slot that is free, but not
\* the waiter nor the console.  The processor changes hands in any case.
ConsoleKill ==
  /\ prog[current] = "console"
  /\ \E p \in Pids \ {ConsolePid, WaiterPid} :
       /\ IF prog[p] = "phil" THEN Kill(p - 2) ELSE UNCHANGED vars
       /\ prog' = [prog EXCEPT ![p] = "free"]
  /\ scheduler(prog')

\* Faulty: exit() returns to the program that called it.
ProgramExit_Returns ==
  /\ prog[current] = "P3"
  /\ prog' = [prog EXCEPT ![current] = "free"]
  /\ UNCHANGED << vars, current >>

\* The program is done: exit().
ProgramExit ==
  /\ prog[current] = "P3"
  /\ prog' = [prog EXCEPT ![current] = "free"]
  /\ scheduler(prog')
  /\ UNCHANGED vars

KNext == \/ Timer \/ WaiterCall \/ (\E i \in Phils : PhilCall(i))
         \/ ConsoleFork \/ ConsoleKill \/ ProgramExit

KSpec == KInit /\ [][KNext]_kvars

\* TIMER0 is periodic.  A time slice is about a second and a call some
\* microseconds: who gets the processor again and again makes his next call.
\* Nothing is assumed of the console, nor that a program ends.
KFairSpec == /\ KSpec
             /\ WF_kvars(Timer)
             /\ SF_kvars(WaiterCall)
             /\ \A i \in Phils : SF_kvars(PhilCall(i))

-----------------------------------------------------------------------------
\* A slot is the philosopher's as long as he lives, and the processor is never
\* with a slot nobody lives in.
KTypeOK ==
  /\ TypeOK
  /\ prog \in [Pids -> {"console", "waiter", "phil", "P3", "free"}]
  /\ current \in Pids /\ prog[current] # "free"
  /\ \A i \in Phils : pc[i] = "killed" <=> prog[PhilPid(i)] # "phil"

\* What module Dining assumes of the processes, interleaving and fairness, is what
\* the scheduler gives them, though only the timer takes the processor away from a
\* program that computes, and slots are taken from philosophers and given to others.
Dines == FairSpec
=============================================================================
