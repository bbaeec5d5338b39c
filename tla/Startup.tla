------------------------------ MODULE Startup ------------------------------
(***************************************************************************)
(* From the prompt to the table: the console forks children and loads      *)
(* programs into them, the waiter creates his pipes and forks the          *)
(* philosophers, and each philosopher derives from his pid which pipes are *)
(* his.  No number is ever passed to a philosopher: he and the waiter      *)
(* agree only if the kernel hands out pids and pipes in the order both     *)
(* count on.                                                               *)
(*                                                                         *)
(* The timer may switch between any two system calls, so the processes     *)
(* interleave freely, one system call per step (Processes says what the    *)
(* kernel keeps apart while they do).                                      *)
(***************************************************************************)
EXTENDS Pipes

CONSTANTS
  TOTALP,            \* slots of the process table (30 in the code)
  PHILS,             \* philosophers (16 in the code)
  Typed,             \* the programs the user may ask for: "W", "P3", ...
  MaxLines           \* bound: how many lines the user types

Pids == 0 .. TOTALP - 1
Phils == 0 .. PHILS - 1

ASSUME StartupAssumption == /\ TOTALP \in Nat /\ PHILS \in Nat \ {0}
                            /\ TOTALP >= PHILS + 2
                            /\ MaxLines \in Nat

\* What the user may ask for has names of its own (load() knows "P3", "P4", "P5" and
\* "W"), and there is a pipe for each end the waiter needs (32 for 16 in the code).
ASSUME TypedAssumption == Typed \cap {"console", "phil", "free", "NULL"} = {}
ASSUME PipesSuffice == PIPES >= 2 * PHILS

VARIABLES
  proc,              \* the processes, by slot
  table,             \* waiter_t on the stack of slot p: wtp and ptw
  token,             \* what strtok( NULL, " " ) returns next
  lines,             \* how many lines were typed
  disturbed          \* history: a line came while the waiter was setting up

vars == << pipe, proc, table, token, lines, disturbed >>

-----------------------------------------------------------------------------
NULL == "NULL"

\* prog is the program a process executes, at the call it makes next, n the i of
\* the loop around that call, id what getpid() returned.  Two are history: boss is
\* the process that forked this one and cmd what it was forked for.
Free == [prog |-> "free", at |-> "free", n |-> 0, id |-> 0, boss |-> 0, cmd |-> NULL]

Live(p) == proc[p].prog # "free"

Init ==
  /\ initialisePipes
  /\ proc = [p \in Pids |-> IF p = 0 THEN [Free EXCEPT !.prog = "console", !.at = "gets"]
                                     ELSE Free]
  /\ table = [p \in Pids |-> [wtp |-> [i \in Phils |-> 0], ptw |-> [i \in Phils |-> 0]]]
  /\ token = NULL /\ lines = 0 /\ disturbed = FALSE

\* newPid() returns q: the first slot that is free, or -1.
newPid(q) == \/ q \in Pids /\ ~Live(q) /\ \A p \in Pids : p < q => Live(p)
             \/ q = -1 /\ \A p \in Pids : Live(p)

\* Process p forks: the child goes on at call c, the parent becomes parent.
Forks(p, c, cmd, parent) ==
  \E q \in Pids \cup {-1} :
    /\ newPid(q)
    /\ proc' = [k \in Pids |->
         IF k = q THEN [proc[p] EXCEPT !.at = c, !.cmd = cmd, !.boss = p]
         ELSE IF k = p THEN parent ELSE proc[k]]

\* Somebody is on the way from fork() to the program he is meant to run.
SettingUp == \E p \in Pids : proc[p].at \in {"fork", "load", "cpipe", "forkPhil", "execPhil",
                                             "getpid"}

-----------------------------------------------------------------------------
(* The console.                                                              *)

\* gets() and strtok( x, " " ): the line is "fork " and a program's name.  The
\* position of strtok() is one static variable for all processes.
ReadLine(p) ==
  /\ proc[p].at = "gets" /\ lines < MaxLines
  /\ \E x \in Typed :
       /\ token' = x
       /\ disturbed' = (disturbed \/ SettingUp \/ (lines = 0) # (x = "W"))
       /\ proc' = [proc EXCEPT ![p].at = "fork", ![p].cmd = x]
  /\ lines' = lines + 1
  /\ UNCHANGED << pipe, table >>

\* Faulty: nobody asks whether pid is 0, and the console loads the program too.
ConsoleFork_BothLoad(p) ==
  /\ proc[p].at = "fork"
  /\ Forks(p, "load", proc[p].cmd, [proc[p] EXCEPT !.at = "load"])
  /\ UNCHANGED << pipe, table, token, lines, disturbed >>

\* pid_t pid = fork( ); the child goes on to load().
ConsoleFork(p) ==
  /\ proc[p].at = "fork"
  /\ Forks(p, "load", proc[p].cmd, [proc[p] EXCEPT !.at = "gets", !.cmd = NULL])
  /\ UNCHANGED << pipe, table, token, lines, disturbed >>

\* The call a program makes first.
Entry(prog) == CASE prog = "W"  -> "cpipe"
                 [] prog = NULL -> "lost"
                 [] OTHER       -> "run"

\* The child: exec( load( strtok( NULL, " " ) ) ); load() returns NULL for NULL.
LoadExec(p) ==
  /\ proc[p].at = "load"
  /\ proc' = [proc EXCEPT ![p].prog = token, ![p].at = Entry(token), ![p].n = 0]
  /\ token' = NULL
  /\ UNCHANGED << pipe, table, lines, disturbed >>

-----------------------------------------------------------------------------
(* The waiter and the philosophers.                                          *)

\* Faulty: the loop runs once too often.
CreatePipe_OneMore(p) ==
  /\ proc[p].at = "cpipe"
  /\ \E r \in PipeIds \cup {PHILS} : cpipe(PHILS, proc[p].n \div 2, r)
  /\ proc' = [proc EXCEPT ![p] = IF @.n + 1 <= 2 * PHILS THEN [@ EXCEPT !.n = proc[p].n + 1]
                                 ELSE [@ EXCEPT !.n = 0, !.at = "forkPhil"]]
  /\ UNCHANGED << table, token, lines, disturbed >>

\* Faulty: all the pipes to philosophers are created before those from them.
CreatePipe_Grouped(p) ==
  /\ proc[p].at = "cpipe"
  /\ LET n == proc[p].n
         i == n % PHILS
         start == IF n < PHILS THEN PHILS ELSE i
         end == IF n < PHILS THEN i ELSE PHILS
     IN \E r \in PipeIds \cup {start} :
          /\ cpipe(start, end, r)
          /\ table' = IF n < PHILS THEN [table EXCEPT ![p].wtp[i] = r]
                                   ELSE [table EXCEPT ![p].ptw[i] = r]
  /\ proc' = [proc EXCEPT ![p] = IF @.n + 1 < 2 * PHILS THEN [@ EXCEPT !.n = proc[p].n + 1]
                                 ELSE [@ EXCEPT !.n = 0, !.at = "forkPhil"]]
  /\ UNCHANGED << token, lines, disturbed >>

\* wtp[ i ] = cpipe( PHILS, i ) and ptw[ i ] = cpipe( i, PHILS ), in turn.
CreatePipe(p) ==
  /\ proc[p].at = "cpipe"
  /\ LET n == proc[p].n
         i == n \div 2
         start == IF n % 2 = 0 THEN PHILS ELSE i
         end == IF n % 2 = 0 THEN i ELSE PHILS
     IN \E r \in PipeIds \cup {start} :
          /\ cpipe(start, end, r)
          /\ table' = IF n % 2 = 0 THEN [table EXCEPT ![p].wtp[i] = r]
                                   ELSE [table EXCEPT ![p].ptw[i] = r]
  /\ proc' = [proc EXCEPT ![p] = IF @.n + 1 < 2 * PHILS THEN [@ EXCEPT !.n = proc[p].n + 1]
                                 ELSE [@ EXCEPT !.n = 0, !.at = "forkPhil"]]
  /\ UNCHANGED << token, lines, disturbed >>

\* Faulty: the loop ends one philosopher too early.
ForkPhil_SkipsLast(p) ==
  /\ proc[p].at = "forkPhil"
  /\ LET i == proc[p].n + 1
     IN  Forks(p, "execPhil", "phil", IF i < PHILS - 1 THEN [proc[p] EXCEPT !.n = i]
                                      ELSE [proc[p] EXCEPT !.at = "serve"])
  /\ UNCHANGED << pipe, table, token, lines, disturbed >>

\* The i-th philosopher is forked; pid == 0 in the child only.
ForkPhil(p) ==
  /\ proc[p].at = "forkPhil"
  /\ LET i == proc[p].n + 1
     IN  Forks(p, "execPhil", "phil",
               IF i < PHILS THEN [proc[p] EXCEPT !.n = i] ELSE [proc[p] EXCEPT !.at = "serve"])
  /\ UNCHANGED << pipe, table, token, lines, disturbed >>

\* exec( &main_philosophers ).  n keeps the seat he was forked for, as history.
ExecPhil(p) ==
  /\ proc[p].at = "execPhil"
  /\ proc' = [proc EXCEPT ![p].prog = "phil", ![p].at = "getpid"]
  /\ UNCHANGED << pipe, table, token, lines, disturbed >>

\* phil.id = getpid( ), which is the pid less 2.
GetPid(p) ==
  /\ proc[p].at = "getpid"
  /\ proc' = [proc EXCEPT ![p].id = p - 2, ![p].at = "run"]
  /\ UNCHANGED << pipe, table, token, lines, disturbed >>

\* The pipes a philosopher uses.
phil_wtp(p) == proc[p].id * 2
phil_ptw(p) == proc[p].id * 2 + 1

\* Programs that end give their slot back; waiters and philosophers never do.
Exit(p) ==
  /\ proc[p].at = "run" /\ proc[p].prog \notin {"phil", "console"}
  /\ proc' = [proc EXCEPT ![p] = Free]
  /\ UNCHANGED << pipe, table, token, lines, disturbed >>

\* From here on the table is set: what follows is module Dining.
RunOn(p) ==
  /\ proc[p].at \in {"serve", "lost", "run"} \/ (proc[p].at = "gets" /\ lines = MaxLines)
  /\ UNCHANGED vars

Next == \E p \in Pids :
  \/ ReadLine(p) \/ ConsoleFork(p) \/ LoadExec(p) \/ Exit(p) \/ RunOn(p)
  \/ CreatePipe(p) \/ ForkPhil(p) \/ ExecPhil(p) \/ GetPid(p)

Spec == Init /\ [][Next]_vars

\* The scheduler gives every process its turn (Dines of Kernel); when the user
\* types, or that a program ends, is not promised.
FairSpec == Spec /\ \A p \in Pids :
  WF_vars(ConsoleFork(p) \/ LoadExec(p) \/ CreatePipe(p) \/ ForkPhil(p) \/ ExecPhil(p)
            \/ GetPid(p))

-----------------------------------------------------------------------------
Programs == Typed \cup {"console", "phil", "free", NULL}
Calls == {"gets", "fork", "load", "run", "lost", "cpipe", "forkPhil", "serve", "execPhil",
          "getpid", "free"}

TypeOK ==
  /\ pipe \in [PipeIds -> [sender : Nobody .. PHILS, receiver : Nobody .. PHILS]]
  /\ proc \in [Pids -> [prog : Programs, at : Calls, n : 0 .. 2 * PHILS - 1, id : Int,
                         boss : Pids, cmd : Programs]]
  /\ table \in [Pids -> [wtp : [Phils -> Int], ptw : [Phils -> Int]]]
  /\ token \in Typed \cup {NULL}
  /\ lines \in 0 .. MaxLines
  /\ disturbed \in BOOLEAN

\* The first line started the waiter, and no other line came until his last
\* philosopher had his id: the two computations of pipe numbers, the waiter's by
\* cpipe() and the philosopher's from his pid, agree for every seat, and the two
\* pipes were created with these two at their ends.
SeatsMatch ==
  ~disturbed => \A p \in Pids : proc[p].prog = "phil" /\ proc[p].at = "run" =>
    LET i == proc[p].n
        w == proc[p].boss
    IN /\ phil_wtp(p) = table[w].wtp[i] /\ pipe[phil_wtp(p)] = [sender |-> PHILS, receiver |-> i]
       /\ phil_ptw(p) = table[w].ptw[i] /\ pipe[phil_ptw(p)] = [sender |-> i, receiver |-> PHILS]

\* And when the waiter begins to serve, somebody was forked for every seat.
EverySeatTaken ==
  \A w \in Pids : ~disturbed /\ proc[w].at = "serve" =>
    \A i \in Phils : \E p \in Pids :
      proc[p].cmd = "phil" /\ proc[p].boss = w /\ proc[p].n = i

\* A user who waits until a program is set up gets the program he asked for.
PatientUser ==
  ~disturbed => \A p \in Pids : proc[p].at \in {"run", "lost", "cpipe", "forkPhil", "serve"}
                                  => proc[p].prog = proc[p].cmd

\* A waiter who has begun and is left alone gets to serve, and a philosopher who
\* knows his id comes to every seat, however the many forks and execs are scheduled.
ServesAll ==
  \A w \in Pids : proc[w].at = "cpipe" ~>
    \/ disturbed
    \/ /\ proc[w].at = "serve"
       /\ \A i \in Phils : \E p \in Pids :
            proc[p].prog = "phil" /\ proc[p].at = "run" /\ proc[p].boss = w /\ proc[p].n = i

-----------------------------------------------------------------------------
(* What the documentation says, and the code does not do.                    *)

\* console.c: "execute whatever steps the command dictates".
ExecutesCommand ==
  \A p \in Pids : proc[p].at \in {"run", "lost", "cpipe", "forkPhil", "serve"}
                     => proc[p].prog = proc[p].cmd
=============================================================================
