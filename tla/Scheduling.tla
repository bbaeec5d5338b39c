----------------------------- MODULE Scheduling -----------------------------
(***************************************************************************)
(* How kernel/hilevel.c chooses slots of the process table: the first      *)
(* available one for a new process, and round robin for the next one to    *)
(* run.  ProcessTable and Kernel build on these operators; t is a table,   *)
(* of which only available is looked at.                                   *)
(***************************************************************************)
EXTENDS Integers

CONSTANT TOTALP        \* slots of the process table

Pids == 0 .. TOTALP - 1

\* newPid() returns i: the first slot that is available.
newPid(t, i) == /\ t[i].available = 1
                /\ \A j \in Pids : j < i => t[j].available = 0

\* Faulty: the search starts at slot 0 instead of the slot after current's.
Candidate_FromZero(pid, i) == i % TOTALP

\* The slot the i-th iteration of the loop in nextProcess() looks at.
Candidate(pid, i) == (i + pid + 1) % TOTALP

\* What nextProcess() may return when the table is t and current->pid is pid.
\* The code has no return statement for the case that nobody is left: the
\* caller then uses whatever is in r0.
nextProcess(t, pid) ==
  IF \A p \in Pids : t[p].available # 0
    THEN Pids
    ELSE { new \in Pids : \E i \in Pids :
             /\ new = Candidate(pid, i)
             /\ t[new].available = 0
             /\ \A j \in Pids : j < i => t[Candidate(pid, j)].available # 0 }
=============================================================================
