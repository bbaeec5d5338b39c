----------------------------- MODULE Processes -----------------------------
(***************************************************************************)
(* What the kernel promises the programs it runs: a set of live processes, *)
(* each with a register context and a stack of its own that no other       *)
(* process can touch, exactly one of them running.  The module knows       *)
(* nothing of PCBs, of the context an interrupt leaves on a kernel stack   *)
(* or of the copies a context switch makes; ProcessTable implements it.    *)
(***************************************************************************)
EXTENDS Integers

CONSTANT Pids        \* the process identifiers

VARIABLES
  procs,             \* live pid -> its private context [pc, r0, depth]
  running,           \* the pid of the process on the processor
  chaos              \* the last live process is gone: no promise is left

vars == << procs, running, chaos >>

Live == DOMAIN procs

\* Every process of S is live before and after the step, with the same context.
Untouched(S) == \A p \in S : p \in DOMAIN procs' /\ procs'[p] = procs[p]

Init == /\ Live = {0}
        /\ running = 0
        /\ chaos = FALSE

-----------------------------------------------------------------------------
\* The running process computes, or makes a call that concerns nobody else.
Run == /\ DOMAIN procs' = Live
       /\ Untouched(Live \ {running})
       /\ running' = running
       /\ chaos' = chaos

\* The running process splits in two: the copies differ in nothing but r0,
\* which is 0 in the new process and the name of that process in the old one.
Fork == \E q \in Pids \ Live :
          /\ DOMAIN procs' = Live \cup {q}
          /\ Untouched(Live \ {running})
          /\ procs'[running] = [procs[running] EXCEPT !.r0 = q]
          /\ procs'[q] = [procs[running] EXCEPT !.r0 = 0]
          /\ running' = running
          /\ chaos' = chaos

\* The processor goes to a live process; no context changes.
Switch == /\ DOMAIN procs' = Live
          /\ Untouched(Live)
          /\ running' \in Live
          /\ chaos' = chaos

\* A process ends, and the processor goes to one that is still live.
End == \E p \in Live :
          /\ DOMAIN procs' = Live \ {p}
          /\ Untouched(Live \ {p})
          /\ running' \in Live \ {p}
          /\ chaos' = chaos

\* The only process ends.
Orphan == /\ Live = {running}
          /\ chaos' = TRUE

Next == \/ ~chaos /\ (Run \/ Fork \/ Switch \/ End \/ Orphan)
        \/ chaos /\ chaos'

Spec == Init /\ [][Next]_vars
=============================================================================
