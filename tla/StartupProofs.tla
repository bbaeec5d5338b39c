---------------------------- MODULE StartupProofs ----------------------------
(***************************************************************************)
(* Theorems about Startup, for any number of seats and slots: if the user  *)
(* is patient, the waiter and the philosophers agree on their pipes.       *)
(***************************************************************************)
EXTENDS Startup, TLAPS

-----------------------------------------------------------------------------
(* How far the waiter has come, if the user is patient: the console is in    *)
(* slot 0, the waiter in slot 1, the philosopher of seat i in slot i + 2.    *)

\* The i-th pair of pipes joins the waiter and the philosopher of seat i.
Joined(k) == IF k % 2 = 0 THEN [sender |-> PHILS, receiver |-> k \div 2]
                          ELSE [sender |-> k \div 2, receiver |-> PHILS]

\* n pipes were created, in order, and the waiter has their numbers.
PipesMade(n) ==
  /\ \A k \in PipeIds : pipe[k] = IF k < n THEN Joined(k) ELSE NoPipe
  /\ \A i \in Phils : /\ i * 2 < n => table[1].wtp[i] = i * 2
                      /\ i * 2 + 1 < n => table[1].ptw[i] = i * 2 + 1

FreeFrom(m) == \A p \in Pids : p >= m => proc[p] = Free

\* Slot p belongs to a philosopher, who is to be found at one of three calls.
Seated(p) ==
  /\ proc[p].cmd = "phil" /\ proc[p].boss = 1 /\ proc[p].n = p - 2
  /\ \/ proc[p].prog = "W" /\ proc[p].at = "execPhil"
     \/ proc[p].prog = "phil" /\ proc[p].at = "getpid"
     \/ proc[p].prog = "phil" /\ proc[p].at = "run" /\ proc[p].id = p - 2

\* Slot p is free, or somebody is there who came after the waiter.
Guest(p) ==
  \/ proc[p] = Free
  \/ proc[p].prog = "console" /\ proc[p].at = "load" /\ proc[p].cmd \in Typed \ {"W"}
     /\ token = proc[p].cmd
  \/ proc[p].prog \in Typed \ {"W"} /\ proc[p].at = "run" /\ proc[p].cmd = proc[p].prog

\* The waiter, in slot 1, is at the n-th turn of the loop around call c.
Waits(c, n) == /\ proc[1].prog = "W" /\ proc[1].cmd = "W" /\ proc[1].at = c /\ proc[1].n = n

BeforeWaiter ==
  /\ FreeFrom(1) /\ PipesMade(0)
  /\ IF lines = 0 THEN proc[0].at = "gets" ELSE proc[0].at = "fork" /\ proc[0].cmd = "W"

Loading ==
  /\ proc[1].prog = "console" /\ proc[1].at = "load" /\ proc[1].cmd = "W" /\ token = "W"
  /\ proc[0].at = "gets" /\ lines > 0
  /\ FreeFrom(2) /\ PipesMade(0)

CreatingPipes ==
  \E n \in 0 .. 2 * PHILS - 1 :
    /\ Waits("cpipe", n)
    /\ proc[0].at = "gets" /\ lines > 0
    /\ FreeFrom(2) /\ PipesMade(n)

Seating ==
  \E n \in 0 .. PHILS - 1 :
    /\ Waits("forkPhil", n)
    /\ proc[0].at = "gets" /\ lines > 0
    /\ \A p \in 2 .. n + 1 : Seated(p)
    /\ FreeFrom(n + 2) /\ PipesMade(2 * PHILS)

Serving ==
  /\ \E n \in 0 .. PHILS - 1 : Waits("serve", n)
  /\ lines > 0
  /\ \A p \in 2 .. PHILS + 1 : Seated(p)
  /\ \A p \in Pids : p > PHILS + 1 => Guest(p)
  /\ PipesMade(2 * PHILS)
  /\ proc[0].at = "fork" => /\ proc[0].cmd # "W"
                            /\ \A p \in Pids \ {0} : proc[p].at \in {"serve", "run", "free"}
  /\ \A p, q \in Pids : proc[p].at = "load" /\ proc[q].at = "load" => p = q

InOrder ==
  /\ proc[0].prog = "console" /\ proc[0].at \in {"gets", "fork"}
  /\ proc[0].at = "fork" => proc[0].cmd \in Typed /\ token = proc[0].cmd
  /\ BeforeWaiter \/ Loading \/ CreatingPipes \/ Seating \/ Serving

SInv == TypeOK /\ (disturbed \/ InOrder)

-----------------------------------------------------------------------------
(* Arithmetic: the two loops count in pairs.                                 *)

LEMMA Sizes == PHILS \in Nat \ {0} /\ TOTALP \in Nat /\ TOTALP >= PHILS + 2 /\ PIPES \in Nat
               /\ PIPES >= 2 * PHILS
BY StartupAssumption, PipesAssumption, PipesSuffice

LEMMA Halves ==
  ASSUME NEW n \in Nat
  PROVE  /\ n \div 2 \in Nat /\ n % 2 \in {0, 1}
         /\ n % 2 = 0 => n = (n \div 2) * 2
         /\ n % 2 # 0 => n = (n \div 2) * 2 + 1
OBVIOUS

LEMMA JoinedPair ==
  ASSUME NEW i \in Phils
  PROVE  /\ Joined(i * 2) = [sender |-> PHILS, receiver |-> i]
         /\ Joined(i * 2 + 1) = [sender |-> i, receiver |-> PHILS]
<1>1. i \in Nat
  BY Sizes DEF Phils
<1>2. (i * 2) % 2 = 0 /\ (i * 2) \div 2 = i
  BY <1>1
<1>3. (i * 2 + 1) % 2 # 0 /\ (i * 2 + 1) \div 2 = i
  BY <1>1
<1> QED
  BY <1>2, <1>3 DEF Joined

\* No pipe that was created looks like one that was not.
LEMMA JoinedTaken ==
  ASSUME NEW k \in Nat
  PROVE  Joined(k).sender # Nobody
<1>1. k \div 2 \in Nat
  BY Halves
<1> QED
  BY <1>1, Sizes DEF Joined, Nobody

\* The first free pipe comes after those that were created.
LEMMA NextIsNth ==
  ASSUME NEW n \in 0 .. 2 * PHILS - 1, PipesMade(n)
  PROVE  /\ n \in PipeIds /\ FreePipe(n)
         /\ \A index \in PipeIds : nextPipe(index) => index = n
<1>1. n \in PipeIds
  BY Sizes DEF PipeIds
<1>2. FreePipe(n)
  <2>1. pipe[n] = NoPipe
    BY <1>1 DEF PipesMade
  <2> QED
    BY <2>1 DEF FreePipe, NoPipe
<1>3. ASSUME NEW k \in PipeIds, k < n PROVE ~FreePipe(k)
  <2>1. k \in Nat
    BY Sizes DEF PipeIds
  <2>2. pipe[k] = Joined(k)
    BY <1>3 DEF PipesMade
  <2> QED
    BY <2>1, <2>2, JoinedTaken DEF FreePipe
<1>4. ASSUME NEW index \in PipeIds, nextPipe(index) PROVE index = n
  <2>1. ~(index < n)
    BY <1>3, <1>4 DEF nextPipe
  <2>2. ~(n < index)
    BY <1>1, <1>2, <1>4 DEF nextPipe
  <2> QED
    BY <1>1, <2>1, <2>2, Sizes DEF PipeIds
<1> QED
  BY <1>1, <1>2, <1>4

\* cpipe() gives the next number, and joins these two.
LEMMA CpipeIsNth ==
  ASSUME NEW n \in 0 .. 2 * PHILS - 1, PipesMade(n), NEW s, NEW e, NEW r, cpipe(s, e, r)
  PROVE  r = n /\ pipe' = [pipe EXCEPT ![n] = [sender |-> s, receiver |-> e]]
<1>1. n \in PipeIds /\ FreePipe(n) /\ \A index \in PipeIds : nextPipe(index) => index = n
  BY NextIsNth
<1> QED
  BY <1>1 DEF cpipe

-----------------------------------------------------------------------------
(* Types.                                                                    *)

Process == [prog : Programs, at : Calls, n : 0 .. 2 * PHILS - 1, id : Int, boss : Pids,
            cmd : Programs]

LEMMA Names ==
  /\ Typed \subseteq Programs /\ NULL \in Programs
  /\ "console" \in Programs /\ "phil" \in Programs /\ "free" \in Programs
  /\ \A c \in {"gets", "fork", "load", "run", "lost", "cpipe", "forkPhil", "serve", "execPhil",
               "getpid", "free"} : c \in Calls
BY DEF Programs, Calls

LEMMA FreeType == Free \in Process
BY Sizes, Names DEF Free, Process, Pids

\* A process whose call, program or counter changes.
LEMMA AtUpdated ==
  ASSUME NEW x \in Process, NEW c \in Calls
  PROVE  [x EXCEPT !.at = c] \in Process
BY DEF Process

LEMMA CmdUpdated ==
  ASSUME NEW x \in Process, NEW c \in Calls, NEW cmd \in Programs
  PROVE  [x EXCEPT !.at = c, !.cmd = cmd] \in Process
BY DEF Process

LEMMA ProgUpdated ==
  ASSUME NEW x \in Process, NEW c \in Calls, NEW prog \in Programs
  PROVE  [x EXCEPT !.prog = prog, !.at = c] \in Process
BY DEF Process

LEMMA CountUpdated ==
  ASSUME NEW x \in Process, NEW n \in 0 .. 2 * PHILS - 1
  PROVE  [x EXCEPT !.n = n] \in Process
BY DEF Process

LEMMA Restarted ==
  ASSUME NEW x \in Process, NEW c \in Calls
  PROVE  [x EXCEPT !.n = 0, !.at = c] \in Process
<1>1. 0 \in 0 .. 2 * PHILS - 1
  BY Sizes
<1> QED
  BY <1>1 DEF Process

LEMMA IdUpdated ==
  ASSUME NEW x \in Process, NEW c \in Calls, NEW i \in Int
  PROVE  [x EXCEPT !.id = i, !.at = c] \in Process
BY DEF Process

\* A fork fills the first free slot, or none, and leaves all but the parent alone.
LEMMA ForksTypes ==
  ASSUME TypeOK, NEW p \in Pids, NEW c \in Calls, NEW cmd \in Programs, NEW parent \in Process,
         Forks(p, c, cmd, parent)
  PROVE  proc' \in [Pids -> Process]
<1>1. PICK q \in Pids \cup {-1} :
        proc' = [k \in Pids |->
           IF k = q THEN [proc[p] EXCEPT !.at = c, !.cmd = cmd, !.boss = p]
           ELSE IF k = p THEN parent ELSE proc[k]]
  BY DEF Forks
<1>2. proc \in [Pids -> Process]
  BY DEF TypeOK, Process
<1>3. [proc[p] EXCEPT !.at = c, !.cmd = cmd, !.boss = p] \in Process
  BY <1>2 DEF Process
<1> QED
  BY <1>1, <1>2, <1>3

LEMMA CpipeTypes ==
  ASSUME TypeOK, NEW s \in 0 .. PHILS, NEW e \in 0 .. PHILS, NEW r, cpipe(s, e, r)
  PROVE  /\ pipe' \in [PipeIds -> [sender : Nobody .. PHILS, receiver : Nobody .. PHILS]]
         /\ r \in Int
<1>1. [sender |-> s, receiver |-> e] \in [sender : Nobody .. PHILS, receiver : Nobody .. PHILS]
  BY Sizes DEF Nobody
<1>2. CASE UNCHANGED pipe /\ r = s
  BY <1>2, Sizes DEF TypeOK
<1>3. ASSUME NEW index \in PipeIds, r = index,
             pipe' = [pipe EXCEPT ![index] = [sender |-> s, receiver |-> e]]
      PROVE  /\ pipe' \in [PipeIds -> [sender : Nobody .. PHILS, receiver : Nobody .. PHILS]]
             /\ r \in Int
  BY <1>1, <1>3, Sizes DEF TypeOK, PipeIds
<1> QED
  BY <1>2, <1>3 DEF cpipe

LEMMA TypeInit == Init => TypeOK
<1> SUFFICES ASSUME Init PROVE TypeOK
  OBVIOUS
<1>1. NoPipe \in [sender : Nobody .. PHILS, receiver : Nobody .. PHILS]
  BY Sizes DEF NoPipe, Nobody
<1>2. proc \in [Pids -> Process]
  <2>1. [Free EXCEPT !.prog = "console", !.at = "gets"] \in Process
    BY FreeType, Names, ProgUpdated
  <2> QED
    BY <2>1, FreeType DEF Init
<1>3. /\ pipe \in [PipeIds -> [sender : Nobody .. PHILS, receiver : Nobody .. PHILS]]
      /\ table \in [Pids -> [wtp : [Phils -> Int], ptw : [Phils -> Int]]]
  BY <1>1 DEF Init, initialisePipes
<1>4. token \in Typed \cup {NULL} /\ lines \in 0 .. MaxLines /\ disturbed \in BOOLEAN
  <2>1. token = NULL /\ lines = 0 /\ disturbed = FALSE
    BY DEF Init
  <2>2. 0 \in 0 .. MaxLines
    BY StartupAssumption
  <2> QED
    BY <2>1, <2>2
<1> QED
  BY <1>2, <1>3, <1>4 DEF TypeOK, Process

LEMMA TypeStep == TypeOK /\ [Next]_vars => TypeOK'
<1> SUFFICES ASSUME TypeOK, [Next]_vars PROVE TypeOK'
  OBVIOUS
<1>0. proc \in [Pids -> Process]
  BY DEF TypeOK, Process
<1>1. ASSUME NEW p \in Pids, ReadLine(p) PROVE TypeOK'
  <2>1. PICK x \in Typed : /\ token' = x /\ proc' = [proc EXCEPT ![p].at = "fork", ![p].cmd = x]
    BY <1>1 DEF ReadLine
  <2>2. proc' = [proc EXCEPT ![p] = [proc[p] EXCEPT !.at = "fork", !.cmd = x]]
    BY <1>0, <2>1
  <2>4. proc' \in [Pids -> Process]
    <3>1. [proc[p] EXCEPT !.at = "fork", !.cmd = x] \in Process
      BY <1>0, Names, CmdUpdated
    <3> QED
      BY <1>0, <2>2, <3>1
  <2>3. disturbed' \in BOOLEAN /\ lines' \in 0 .. MaxLines
    BY <1>1, StartupAssumption DEF ReadLine, TypeOK
  <2> QED
    BY <1>1, <2>1, <2>3, <2>4 DEF ReadLine, TypeOK, Process
<1>2. ASSUME NEW p \in Pids, ConsoleFork(p) PROVE TypeOK'
  <2>1. /\ [proc[p] EXCEPT !.at = "gets", !.cmd = NULL] \in Process
        /\ "load" \in Calls /\ proc[p].cmd \in Programs
    <3>1. [proc[p] EXCEPT !.at = "gets", !.cmd = NULL] \in Process
      BY <1>0, Names, CmdUpdated
    <3>2. proc[p].cmd \in Programs
      BY <1>0 DEF Process
    <3> QED
      BY <3>1, <3>2, Names
  <2>2. proc' \in [Pids -> Process]
    BY <1>2, <2>1, ForksTypes DEF ConsoleFork
  <2> QED
    BY <1>2, <2>2 DEF ConsoleFork, TypeOK, Process
<1>3. ASSUME NEW p \in Pids, LoadExec(p) PROVE TypeOK'
  <2>1. token \in Programs /\ Entry(token) \in Calls
    <3>1. token \in Programs
      BY DEF TypeOK, Programs
    <3>2. Entry(token) \in {"cpipe", "lost", "run"}
      BY Zenon DEF Entry
    <3> QED
      BY <3>1, <3>2 DEF Calls
  <2>2. proc' = [proc EXCEPT ![p].prog = token, ![p].at = Entry(token), ![p].n = 0]
    BY <1>3 DEF LoadExec
  <2>3. proc' \in [Pids -> Process]
    <3> DEFINE x == [proc[p] EXCEPT !.prog = token, !.at = Entry(token)]
    <3>1. x \in Process
      BY <1>0, <2>1, ProgUpdated
    <3>2. [x EXCEPT !.n = 0] \in Process
      <4>1. 0 \in 0 .. 2 * PHILS - 1
        BY Sizes
      <4> QED
        BY <3>1, <4>1, CountUpdated
    <3>3. proc' = [proc EXCEPT ![p] = [x EXCEPT !.n = 0]]
      BY <1>0, <2>2 DEF Process
    <3> QED
      BY <1>0, <3>2, <3>3
  <2> QED
    BY <1>3, <2>3 DEF LoadExec, TypeOK, Process
<1>4. ASSUME NEW p \in Pids, CreatePipe(p) PROVE TypeOK'
  <2> DEFINE n == proc[p].n
             i == n \div 2
             start == IF n % 2 = 0 THEN PHILS ELSE i
             end == IF n % 2 = 0 THEN i ELSE PHILS
  <2>1. n \in 0 .. 2 * PHILS - 1 /\ n \in Nat
    BY <1>0, Sizes DEF Process
  <2>2. i \in Phils
    BY <2>1, Sizes, Halves DEF Phils
  <2>3. start \in 0 .. PHILS /\ end \in 0 .. PHILS
    BY <2>2, Sizes DEF Phils
  <2>4. PICK r \in PipeIds \cup {start} :
          /\ cpipe(start, end, r)
          /\ table' = IF n % 2 = 0 THEN [table EXCEPT ![p].wtp[i] = r]
                                   ELSE [table EXCEPT ![p].ptw[i] = r]
    BY <1>4 DEF CreatePipe
  <2> HIDE DEF start, end
  <2>5. /\ pipe' \in [PipeIds -> [sender : Nobody .. PHILS, receiver : Nobody .. PHILS]]
        /\ r \in Int
    BY <2>3, <2>4, CpipeTypes
  <2> HIDE DEF i
  <2>6. table' \in [Pids -> [wtp : [Phils -> Int], ptw : [Phils -> Int]]]
    BY <2>2, <2>4, <2>5 DEF TypeOK
  <2>7. proc' = [proc EXCEPT ![p] = IF n + 1 < 2 * PHILS THEN [@ EXCEPT !.n = n + 1]
                                    ELSE [@ EXCEPT !.n = 0, !.at = "forkPhil"]]
    BY <1>4 DEF CreatePipe
  <2>8. proc' \in [Pids -> Process]
    <3>1. n + 1 < 2 * PHILS => [proc[p] EXCEPT !.n = n + 1] \in Process
      <4>1. n + 1 < 2 * PHILS => n + 1 \in 0 .. 2 * PHILS - 1
        BY <2>1, Sizes
      <4> QED
        BY <1>0, <4>1 DEF Process
    <3>2. [proc[p] EXCEPT !.n = 0, !.at = "forkPhil"] \in Process
      BY <1>0, Names, Restarted
    <3> QED
      BY <1>0, <2>7, <3>1, <3>2
  <2> QED
    BY <1>4, <2>5, <2>6, <2>8 DEF CreatePipe, TypeOK, Process
<1>5. ASSUME NEW p \in Pids, ForkPhil(p) PROVE TypeOK'
  <2> DEFINE i == proc[p].n + 1
             parent == IF i < PHILS THEN [proc[p] EXCEPT !.n = i]
                       ELSE [proc[p] EXCEPT !.at = "serve"]
  <2>1. proc[p].n \in 0 .. 2 * PHILS - 1
    BY <1>0 DEF Process
  <2>2. parent \in Process
    <3>1. i < PHILS => i \in 0 .. 2 * PHILS - 1
      BY <2>1, Sizes
    <3>2. i < PHILS => [proc[p] EXCEPT !.n = i] \in Process
      BY <1>0, <3>1, CountUpdated
    <3>3. [proc[p] EXCEPT !.at = "serve"] \in Process
      BY <1>0, Names, AtUpdated
    <3> QED
      BY <3>2, <3>3
  <2>3. Forks(p, "execPhil", "phil", parent)
    BY <1>5 DEF ForkPhil
  <2>4. "execPhil" \in Calls /\ "phil" \in Programs
    BY Names
  <2> HIDE DEF parent
  <2>5. proc' \in [Pids -> Process]
    BY <2>2, <2>3, <2>4, ForksTypes
  <2> QED
    BY <1>5, <2>5 DEF ForkPhil, TypeOK, Process
<1>6. ASSUME NEW p \in Pids, ExecPhil(p) \/ GetPid(p) \/ Exit(p) PROVE TypeOK'
  <2>1. CASE ExecPhil(p)
    <3>1. proc' = [proc EXCEPT ![p] = [proc[p] EXCEPT !.prog = "phil", !.at = "getpid"]]
      BY <1>0, <2>1 DEF ExecPhil
    <3>2. proc' \in [Pids -> Process]
      <4>1. [proc[p] EXCEPT !.prog = "phil", !.at = "getpid"] \in Process
        BY <1>0, Names, ProgUpdated
      <4> QED
        BY <1>0, <3>1, <4>1
    <3> QED
      BY <2>1, <3>2 DEF ExecPhil, TypeOK, Process
  <2>2. CASE GetPid(p)
    <3>1. proc' = [proc EXCEPT ![p] = [proc[p] EXCEPT !.id = p - 2, !.at = "run"]]
      BY <1>0, <2>2 DEF GetPid
    <3>2. p - 2 \in Int
      BY DEF Pids
    <3>3. proc' \in [Pids -> Process]
      <4>1. [proc[p] EXCEPT !.id = p - 2, !.at = "run"] \in Process
        BY <1>0, <3>2, Names, IdUpdated
      <4> QED
        BY <1>0, <3>1, <4>1
    <3> QED
      BY <2>2, <3>3 DEF GetPid, TypeOK, Process
  <2>3. CASE Exit(p)
    <3>1. proc' \in [Pids -> Process]
      BY <1>0, <2>3, FreeType DEF Exit
    <3> QED
      BY <2>3, <3>1 DEF Exit, TypeOK, Process
  <2> QED
    BY <1>6, <2>1, <2>2, <2>3
<1>7. ASSUME NEW p \in Pids, RunOn(p) PROVE TypeOK'
  BY <1>7 DEF RunOn, vars, TypeOK
<1>8. CASE UNCHANGED vars
  BY <1>8 DEF vars, TypeOK
<1> QED
  BY <1>1, <1>2, <1>3, <1>4, <1>5, <1>6, <1>7, <1>8 DEF Next

\* Every fork and every exec, in any order, fills the table with processes of the
\* right kinds, pipes with ends that are seats or the waiter's, and counters that stay
\* in the waiter's loops.
THEOREM TypeCorrect == Spec => []TypeOK
BY TypeInit, TypeStep, PTL DEF Spec

-----------------------------------------------------------------------------
(* A patient user's commands are carried out in order.                       *)

LEMMA Slots == 0 \in Pids /\ 1 \in Pids /\ \A p \in 2 .. PHILS + 1 : p \in Pids
BY Sizes DEF Pids

LEMMA PipesStay ==
  ASSUME NEW n, PipesMade(n), UNCHANGED pipe, table'[1] = table[1]
  PROVE  PipesMade(n)'
BY DEF PipesMade

\* Every slot but 0 and 1 is free, a philosopher's or a guest's.
LEMMA WhoIsWhere ==
  ASSUME InOrder, NEW p \in Pids, p # 0
  PROVE  /\ proc[p].at \notin {"gets", "fork", "lost"}
         /\ proc[p].at \in {"cpipe", "forkPhil", "serve"} => p = 1
         /\ proc[p].at = "load" => \/ (Loading /\ p = 1)
                                  \/ (Serving /\ p > PHILS + 1 /\ Guest(p))
<1>0. p \in Nat /\ p >= 1 /\ (p = 1 \/ p \in 2 .. PHILS + 1 \/ p > PHILS + 1)
  BY Sizes DEF Pids
<1>1. ASSUME proc[p] = Free
      PROVE  proc[p].at = "free"
  BY <1>1 DEF Free
<1>2. CASE BeforeWaiter
  <2>1. proc[p] = Free
    BY <1>0, <1>2 DEF BeforeWaiter, FreeFrom
  <2> QED
    BY <1>1, <2>1
<1>3. CASE Loading
  <2>1. p # 1 => proc[p] = Free
    <3>1. FreeFrom(2)
      BY <1>3 DEF Loading
    <3>2. p # 1 => p >= 2
      BY <1>0
    <3> QED
      BY <3>1, <3>2 DEF FreeFrom
  <2> QED
    <3>1. CASE p = 1
      BY <1>3, <3>1 DEF Loading
    <3>2. CASE p # 1
      BY <1>1, <2>1, <3>2
    <3> QED
      BY <3>1, <3>2
<1>4. CASE CreatingPipes
  <2>1. p # 1 => proc[p] = Free
    <3>1. FreeFrom(2)
      BY <1>4 DEF CreatingPipes
    <3>2. p # 1 => p >= 2
      BY <1>0
    <3> QED
      BY <3>1, <3>2 DEF FreeFrom
  <2> QED
    BY <1>1, <1>4, <2>1 DEF CreatingPipes, Waits
<1>5. CASE Seating
  <2>1. PICK n \in 0 .. PHILS - 1 : /\ Waits("forkPhil", n) /\ FreeFrom(n + 2)
                                     /\ \A k \in 2 .. n + 1 : Seated(k)
    BY <1>5 DEF Seating
  <2>2. p = 1 \/ p \in 2 .. n + 1 \/ p >= n + 2
    BY <2>1 DEF Pids
  <2>3. p = 1 \/ Seated(p) \/ proc[p] = Free
    BY <2>1, <2>2 DEF FreeFrom
  <2> QED
    BY <1>1, <2>1, <2>3 DEF Waits, Seated
<1>6. CASE Serving
  <2>1. p = 1 \/ Seated(p) \/ (p > PHILS + 1 /\ Guest(p))
    BY <1>0, <1>6 DEF Serving
  <2>2. proc[1].at = "serve"
    BY <1>6 DEF Serving, Waits
  <2> QED
    BY <1>1, <1>6, <2>1, <2>2 DEF Guest, Seated
<1> QED
  BY <1>2, <1>3, <1>4, <1>5, <1>6 DEF InOrder

LEMMA ReadLineOrder ==
  ASSUME TypeOK, InOrder, NEW p \in Pids, ReadLine(p), ~disturbed'
  PROVE  InOrder'
<1>0. p = 0
  BY WhoIsWhere DEF ReadLine
<1>1. PICK x \in Typed : /\ token' = x
                         /\ disturbed' = (disturbed \/ SettingUp \/ (lines = 0) # (x = "W"))
                         /\ proc' = [proc EXCEPT ![0].at = "fork", ![0].cmd = x]
  BY <1>0 DEF ReadLine
<1>2. /\ ~SettingUp /\ (lines = 0 <=> x = "W")
      /\ lines \in Nat /\ lines' = lines + 1 /\ UNCHANGED << pipe, table >>
  <2>1. ~disturbed'
    OBVIOUS
  <2>2. ~(disturbed \/ SettingUp \/ (lines = 0) # (x = "W"))
    BY <1>1, <2>1
  <2>3. ~SettingUp /\ (lines = 0 <=> x = "W")
    BY <2>2, Zenon
  <2>4. lines \in Nat /\ lines' = lines + 1 /\ UNCHANGED << pipe, table >>
    BY StartupAssumption DEF ReadLine, TypeOK
  <2> QED
    BY <2>3, <2>4
<1>3. /\ proc'[0].at = "fork" /\ proc'[0].cmd = x /\ proc'[0].prog = "console"
      /\ \A k \in Pids \ {0} : proc'[k] = proc[k]
  BY <1>1, Slots DEF TypeOK, InOrder
<1>4. ASSUME NEW k \in Pids, k # 0
      PROVE  proc[k].at \in {"serve", "run", "free"}
  <2>1. proc[k].at \in Calls
    BY DEF TypeOK
  <2>2. proc[k].at \notin {"fork", "load", "cpipe", "forkPhil", "execPhil", "getpid"}
    BY <1>2 DEF SettingUp
  <2>3. proc[k].at \notin {"gets", "fork", "lost"}
    BY <1>4, WhoIsWhere
  <2> QED
    BY <2>1, <2>2, <2>3 DEF Calls
<1>5. CASE BeforeWaiter
  <2>1. lines = 0 /\ x = "W"
    BY <1>0, <1>2, <1>5 DEF BeforeWaiter, ReadLine
  <2>2. BeforeWaiter'
    <3>1. PipesMade(0)'
      BY <1>2, <1>5, PipesStay DEF BeforeWaiter
    <3>2. FreeFrom(1)'
      BY <1>3, <1>5 DEF BeforeWaiter, FreeFrom
    <3> QED
      BY <1>2, <1>3, <2>1, <3>1, <3>2 DEF BeforeWaiter
  <2> QED
    BY <1>1, <1>3, <2>2 DEF InOrder
<1>6. CASE Serving
  <2>1. x # "W"
    BY <1>2, <1>6 DEF Serving
  <2>2. PICK n \in 0 .. PHILS - 1 : Waits("serve", n)
    BY <1>6 DEF Serving
  <2>3. Waits("serve", n)' /\ lines' > 0 /\ PipesMade(2 * PHILS)'
    BY <1>2, <1>3, <1>6, <2>2, Slots, PipesStay DEF Waits, Serving
  <2>4. ASSUME NEW k \in 2 .. PHILS + 1 PROVE Seated(k)'
    BY <1>3, <1>6, <2>4, Slots DEF Serving, Seated
  <2>5. ASSUME NEW k \in Pids, k > PHILS + 1 PROVE Guest(k)'
    <3>1. Guest(k) /\ proc'[k] = proc[k] /\ proc[k].at # "load"
      BY <1>3, <1>4, <1>6, <2>5, Sizes DEF Serving
    <3> QED
      BY <3>1 DEF Guest
  <2>6. \A k \in Pids : proc'[k].at # "load"
    BY <1>3, <1>4
  <2>7. \A k \in Pids \ {0} : proc'[k].at \in {"serve", "run", "free"}
    BY <1>3, <1>4
  <2>8. Serving'
    BY <1>3, <2>1, <2>3, <2>4, <2>5, <2>6, <2>7 DEF Serving
  <2> QED
    BY <1>1, <1>3, <2>8 DEF InOrder
<1>7. CASE Loading \/ CreatingPipes \/ Seating
  <2>1. proc[1].at \in {"load", "cpipe", "forkPhil"}
    BY <1>7 DEF Loading, CreatingPipes, Seating, Waits
  <2> QED
    BY <1>4, <2>1, Slots
<1> QED
  BY <1>5, <1>6, <1>7 DEF InOrder

LEMMA ConsoleForkOrder ==
  ASSUME TypeOK, InOrder, NEW p \in Pids, ConsoleFork(p)
  PROVE  InOrder'
<1>0. p = 0 /\ proc[0].at = "fork" /\ UNCHANGED << pipe, table, token, lines >>
  BY WhoIsWhere DEF ConsoleFork
<1>1. PICK q \in Pids \cup {-1} :
        /\ newPid(q)
        /\ proc' = [k \in Pids |->
             IF k = q THEN [proc[0] EXCEPT !.at = "load", !.cmd = proc[0].cmd, !.boss = 0]
             ELSE IF k = 0 THEN [proc[0] EXCEPT !.at = "gets", !.cmd = NULL] ELSE proc[k]]
  BY <1>0 DEF ConsoleFork, Forks
<1>2. proc[0].prog = "console" /\ proc[0].cmd \in Typed /\ token = proc[0].cmd
  BY <1>0 DEF InOrder
<1>3. q # 0
  BY <1>1, <1>2, Slots DEF newPid, Live
<1>4. /\ proc'[0].at = "gets" /\ proc'[0].prog = "console"
      /\ q \in Pids => /\ proc'[q].prog = "console" /\ proc'[q].at = "load"
                       /\ proc'[q].cmd = proc[0].cmd
      /\ \A k \in Pids : k # 0 /\ k # q => proc'[k] = proc[k]
  BY <1>1, <1>2, <1>3, Slots DEF TypeOK
<1>5. CASE BeforeWaiter
  <2>1. proc[0].cmd = "W" /\ lines # 0 /\ \A k \in Pids : k # 0 => proc[k] = Free
    BY <1>0, <1>5, Sizes DEF BeforeWaiter, FreeFrom, Pids
  <2>2. ~Live(1) /\ Live(0)
    BY <1>2, <2>1, Slots DEF Live, Free
  <2>3. q = 1
    BY <1>1, <1>3, <2>2, Slots, Sizes DEF newPid, Pids
  <2>4. Loading'
    <3>1. FreeFrom(2)'
      BY <1>4, <2>1, <2>3 DEF FreeFrom, Pids
    <3>2. PipesMade(0)'
      BY <1>0, <1>5, PipesStay DEF BeforeWaiter
    <3>3. lines > 0
      BY <2>1 DEF TypeOK
    <3> QED
      BY <1>0, <1>2, <1>4, <2>1, <2>3, <3>1, <3>2, <3>3, Slots DEF Loading
  <2> QED
    BY <1>4, <2>4 DEF InOrder
<1>6. CASE Serving
  <2>1. /\ proc[0].cmd # "W" /\ \A k \in Pids \ {0} : proc[k].at \in {"serve", "run", "free"}
    BY <1>0, <1>6 DEF Serving
  <2>2. PICK n \in 0 .. PHILS - 1 : Waits("serve", n)
    BY <1>6 DEF Serving
  <2>3. \A k \in 1 .. PHILS + 1 : Live(k)
    <3>1. Live(1)
      BY <2>2 DEF Waits, Live
    <3>2. \A k \in 2 .. PHILS + 1 : Live(k)
      BY <1>6 DEF Serving, Seated, Live
    <3> QED
      BY <3>1, <3>2, Sizes
  <2>4. q \in Pids => q > PHILS + 1
    <3>1. q \in Pids => ~Live(q)
      BY <1>1, Sizes DEF newPid, Pids
    <3> QED
      BY <1>3, <2>3, <3>1, Sizes DEF Pids
  <2>5. \A k \in 1 .. PHILS + 1 : proc'[k] = proc[k]
    BY <1>3, <1>4, <2>4, Slots, Sizes DEF Pids
  <2>6. Waits("serve", n)' /\ lines' > 0 /\ PipesMade(2 * PHILS)'
    <3>1. proc'[1] = proc[1]
      BY <2>5, Sizes
    <3> QED
      BY <1>0, <1>6, <2>2, <3>1, PipesStay DEF Waits, Serving
  <2>7. ASSUME NEW k \in 2 .. PHILS + 1 PROVE Seated(k)'
    <3>1. proc'[k] = proc[k] /\ Seated(k)
      BY <1>6, <2>5, Sizes DEF Serving
    <3> QED
      BY <3>1 DEF Seated
  <2>8. ASSUME NEW k \in Pids, k > PHILS + 1 PROVE Guest(k)'
    <3>1. CASE k = q
      BY <1>0, <1>2, <1>4, <2>1, <3>1 DEF Guest
    <3>2. CASE k # q
      <4>1. Guest(k) /\ proc'[k] = proc[k]
        BY <1>4, <1>6, <2>8, <3>2, Sizes DEF Serving
      <4> QED
        BY <1>0, <4>1 DEF Guest
    <3> QED
      BY <3>1, <3>2
  <2>9. \A k \in Pids : proc'[k].at = "load" => k = q
    BY <1>4, <2>1
  <2>10. Serving'
    BY <1>4, <2>6, <2>7, <2>8, <2>9 DEF Serving
  <2> QED
    BY <1>4, <2>10 DEF InOrder
<1>7. CASE Loading \/ CreatingPipes \/ Seating
  BY <1>0, <1>7 DEF Loading, CreatingPipes, Seating
<1> QED
  BY <1>5, <1>6, <1>7 DEF InOrder

LEMMA LoadExecOrder ==
  ASSUME TypeOK, InOrder, NEW p \in Pids, LoadExec(p)
  PROVE  InOrder'
<1>0. /\ proc[p].at = "load" /\ token' = NULL /\ UNCHANGED << pipe, table, lines >>
      /\ proc' = [proc EXCEPT ![p].prog = token, ![p].at = Entry(token), ![p].n = 0]
  BY DEF LoadExec
<1>1. p # 0
  BY <1>0 DEF InOrder
<1>2. /\ proc'[p].prog = token /\ proc'[p].at = Entry(token) /\ proc'[p].n = 0
      /\ proc'[p].cmd = proc[p].cmd
      /\ \A k \in Pids : k # p => proc'[k] = proc[k]
  BY <1>0 DEF TypeOK
<1>3. CASE Loading /\ p = 1
  <2>1. token = "W" /\ proc[1].cmd = "W" /\ proc[0].at = "gets" /\ lines > 0
    BY <1>3 DEF Loading
  <2>2. Entry(token) = "cpipe"
    <3>1. Entry("W") = "cpipe"
      BY Zenon DEF Entry, NULL
    <3> QED
      BY <2>1, <3>1
  <2>3. Waits("cpipe", 0)'
    BY <1>2, <1>3, <2>1, <2>2 DEF Waits
  <2>4. FreeFrom(2)' /\ PipesMade(0)'
    <3>1. FreeFrom(2) /\ PipesMade(0)
      BY <1>3 DEF Loading
    <3>2. FreeFrom(2)'
      BY <1>2, <1>3, <3>1 DEF FreeFrom
    <3> QED
      BY <1>0, <3>1, <3>2, PipesStay
  <2>5. 0 \in 0 .. 2 * PHILS - 1
    BY Sizes
  <2>6. proc'[0] = proc[0]
    BY <1>1, <1>2, Slots
  <2>7. CreatingPipes'
    BY <1>0, <2>1, <2>3, <2>4, <2>5, <2>6 DEF CreatingPipes
  <2> QED
    BY <2>1, <2>6, <2>7 DEF InOrder
<1>4. CASE Serving /\ p > PHILS + 1 /\ Guest(p)
  <2>1. token = proc[p].cmd /\ token \in Typed \ {"W"}
    BY <1>0, <1>4 DEF Guest, Free
  <2>2. Entry(token) = "run"
    <3>1. token # "W" /\ token # NULL
      BY <2>1, TypedAssumption DEF NULL
    <3> QED
      BY <3>1, Zenon DEF Entry
  <2>3. proc[0].at = "gets"
    BY <1>0, <1>1, <1>4 DEF Serving, InOrder
  <2>4. PICK n \in 0 .. PHILS - 1 : Waits("serve", n)
    BY <1>4 DEF Serving
  <2>5. \A k \in 0 .. PHILS + 1 : proc'[k] = proc[k]
    BY <1>2, <1>4, Sizes DEF Pids
  <2>6. Waits("serve", n)' /\ lines' > 0 /\ PipesMade(2 * PHILS)'
    <3>1. proc'[1] = proc[1]
      BY <2>5, Sizes
    <3> QED
      BY <1>0, <1>4, <2>4, <3>1, PipesStay DEF Waits, Serving
  <2>7. ASSUME NEW k \in 2 .. PHILS + 1 PROVE Seated(k)'
    <3>1. proc'[k] = proc[k] /\ Seated(k)
      BY <1>4, <2>5, Sizes DEF Serving
    <3> QED
      BY <3>1 DEF Seated
  <2>8. ASSUME NEW k \in Pids, k > PHILS + 1 PROVE Guest(k)' /\ proc'[k].at # "load"
    <3>1. CASE k = p
      BY <1>2, <2>1, <2>2, <3>1 DEF Guest
    <3>2. CASE k # p
      <4>1. Guest(k) /\ proc'[k] = proc[k] /\ proc[k].at # "load"
        BY <1>0, <1>2, <1>4, <2>8, <3>2 DEF Serving
      <4> QED
        BY <4>1 DEF Guest
    <3> QED
      BY <3>1, <3>2
  <2>9. proc'[0] = proc[0]
    BY <1>1, <1>2, Slots
  <2>10. ASSUME NEW k \in Pids PROVE proc'[k].at # "load"
    <3>1. CASE k > PHILS + 1
      BY <2>8, <3>1
    <3>2. CASE k \in 2 .. PHILS + 1
      BY <2>7, <3>2 DEF Seated
    <3>3. CASE k = 1
      BY <2>6, <3>3 DEF Waits
    <3>4. CASE k = 0
      BY <2>3, <2>9, <3>4
    <3> QED
      BY <3>1, <3>2, <3>3, <3>4, Sizes DEF Pids
  <2>11. Serving'
    BY <2>3, <2>6, <2>7, <2>8, <2>9, <2>10 DEF Serving
  <2> QED
    BY <2>3, <2>9, <2>11 DEF InOrder
<1> QED
  BY <1>0, <1>1, <1>3, <1>4, WhoIsWhere

\* The n-th turn of the waiter's first loop creates the n-th pipe.
LEMMA PipesGrow ==
  ASSUME TypeOK, NEW n \in 0 .. 2 * PHILS - 1, PipesMade(n), proc[1].n = n, CreatePipe(1)
  PROVE  PipesMade(n + 1)'
<1> DEFINE i == n \div 2
           start == IF n % 2 = 0 THEN PHILS ELSE i
           end == IF n % 2 = 0 THEN i ELSE PHILS
<1>1. PICK r \in PipeIds \cup {start} :
        /\ cpipe(start, end, r)
        /\ table' = IF n % 2 = 0 THEN [table EXCEPT ![1].wtp[i] = r]
                                 ELSE [table EXCEPT ![1].ptw[i] = r]
  BY DEF CreatePipe
<1>2. Joined(n) = [sender |-> start, receiver |-> end]
  BY DEF Joined
<1> HIDE DEF start, end
<1>3. r = n /\ pipe' = [pipe EXCEPT ![n] = Joined(n)]
  BY <1>1, <1>2, CpipeIsNth
<1>4. n \in PipeIds /\ n \in Nat
  BY NextIsNth, Sizes
<1>5. i \in Nat /\ n % 2 \in {0, 1} /\ (n % 2 = 0 => n = i * 2) /\ (n % 2 # 0 => n = i * 2 + 1)
  BY <1>4, Halves
<1>6. i \in Phils
  BY <1>5, Sizes DEF Phils
<1> HIDE DEF i
<1>7. ASSUME NEW k \in PipeIds
      PROVE  pipe'[k] = IF k < n + 1 THEN Joined(k) ELSE NoPipe
  <2>0. k \in Nat
    BY Sizes DEF PipeIds
  <2>1. CASE k = n
    BY <1>3, <1>4, <2>1 DEF TypeOK
  <2>2. CASE k # n
    <3>1. pipe'[k] = pipe[k]
      BY <1>3, <2>2 DEF TypeOK
    <3>2. pipe[k] = IF k < n THEN Joined(k) ELSE NoPipe
      BY DEF PipesMade
    <3>3. k < n + 1 <=> k < n
      BY <1>4, <2>0, <2>2
    <3> QED
      BY <3>1, <3>2, <3>3
  <2> QED
    BY <2>1, <2>2
<1>8. ASSUME NEW j \in Phils
      PROVE  /\ j * 2 < n + 1 => table'[1].wtp[j] = j * 2
             /\ j * 2 + 1 < n + 1 => table'[1].ptw[j] = j * 2 + 1
  <2>0. j \in Nat
    BY Sizes DEF Phils
  <2>1. /\ j * 2 < n => table[1].wtp[j] = j * 2
        /\ j * 2 + 1 < n => table[1].ptw[j] = j * 2 + 1
    BY DEF PipesMade
  <2>2. CASE n % 2 = 0
    <3>1. /\ table'[1].wtp[j] = IF j = i THEN n ELSE table[1].wtp[j]
          /\ table'[1].ptw[j] = table[1].ptw[j]
      BY <1>1, <1>3, <1>6, <2>2, Slots DEF TypeOK
    <3>2. /\ j * 2 < n + 1 => j * 2 < n \/ j = i
          /\ j * 2 + 1 < n + 1 => j * 2 + 1 < n
      BY <1>4, <1>5, <2>0, <2>2
    <3> QED
      BY <1>5, <2>1, <2>2, <3>1, <3>2
  <2>3. CASE n % 2 # 0
    <3>1. /\ table'[1].ptw[j] = IF j = i THEN n ELSE table[1].ptw[j]
          /\ table'[1].wtp[j] = table[1].wtp[j]
      BY <1>1, <1>3, <1>6, <2>3, Slots DEF TypeOK
    <3>2. /\ j * 2 + 1 < n + 1 => j * 2 + 1 < n \/ j = i
          /\ j * 2 < n + 1 => j * 2 < n
      BY <1>4, <1>5, <2>0, <2>3
    <3> QED
      BY <1>5, <2>1, <2>3, <3>1, <3>2
  <2> QED
    BY <2>2, <2>3
<1> QED
  BY <1>7, <1>8 DEF PipesMade

LEMMA CreatePipeOrder ==
  ASSUME TypeOK, InOrder, NEW p \in Pids, CreatePipe(p)
  PROVE  InOrder'
<1>0. p # 0
  BY DEF InOrder, CreatePipe
<1>1. p = 1
  BY <1>0, WhoIsWhere DEF CreatePipe
<1>2. proc[1].at = "cpipe" /\ CreatePipe(1) /\ UNCHANGED << token, lines >>
  BY <1>1 DEF CreatePipe
<1>3. CreatingPipes
  BY <1>2, Slots DEF InOrder, BeforeWaiter, FreeFrom, Free, Loading, Seating, Serving, Waits
<1>4. PICK n \in 0 .. 2 * PHILS - 1 :
        /\ Waits("cpipe", n)
        /\ proc[0].at = "gets" /\ lines > 0
        /\ FreeFrom(2) /\ PipesMade(n)
  BY <1>3 DEF CreatingPipes
<1>5. proc[1].n = n /\ n \in Nat /\ proc[1].prog = "W" /\ proc[1].cmd = "W"
  BY <1>4, Sizes DEF Waits
<1>6. proc' = [proc EXCEPT ![1] = IF n + 1 < 2 * PHILS THEN [@ EXCEPT !.n = n + 1]
                                  ELSE [@ EXCEPT !.n = 0, !.at = "forkPhil"]]
  BY <1>2, <1>5 DEF CreatePipe
<1>7. PipesMade(n + 1)'
  BY <1>2, <1>4, <1>5, PipesGrow
<1>8. \A k \in Pids : k # 1 => proc'[k] = proc[k]
  BY <1>6 DEF TypeOK
<1>9. proc'[0] = proc[0]
  BY <1>8, Slots
<1>10. FreeFrom(2)'
  <2>1. \A k \in Pids : k >= 2 => proc'[k] = Free
    BY <1>4, <1>8 DEF FreeFrom
  <2> QED
    BY <2>1 DEF FreeFrom
<1>11. CASE n + 1 < 2 * PHILS
  <2>1. Waits("cpipe", n + 1)'
    BY <1>4, <1>5, <1>6, <1>11, Slots DEF Waits, TypeOK
  <2>2. n + 1 \in 0 .. 2 * PHILS - 1
    BY <1>5, <1>11, Sizes
  <2>3. CreatingPipes'
    BY <1>2, <1>4, <1>7, <1>9, <1>10, <2>1, <2>2 DEF CreatingPipes
  <2> QED
    BY <1>4, <1>9, <2>3 DEF InOrder
<1>12. CASE ~(n + 1 < 2 * PHILS)
  <2>1. Waits("forkPhil", 0)'
    BY <1>4, <1>5, <1>6, <1>12, Slots DEF Waits, TypeOK
  <2>2. n + 1 = 2 * PHILS
    BY <1>5, <1>12, Sizes
  <2>3. 0 \in 0 .. PHILS - 1
    BY Sizes
  <2>4. \A k \in 2 .. 0 + 1 : Seated(k)'
    OBVIOUS
  <2>5. FreeFrom(0 + 2)' /\ PipesMade(2 * PHILS)'
    BY <1>7, <1>10, <2>2
  <2>6. Seating'
    BY <1>2, <1>4, <1>9, <2>1, <2>3, <2>4, <2>5 DEF Seating
  <2> QED
    BY <1>4, <1>9, <2>6 DEF InOrder
<1> QED
  BY <1>11, <1>12

\* With n philosophers at the table, the next slot is the next philosopher's.
LEMMA NewPidIsNext ==
  ASSUME InOrder, NEW n \in 0 .. PHILS - 1, Waits("forkPhil", n), FreeFrom(n + 2),
         \A k \in 2 .. n + 1 : Seated(k), NEW q \in Pids \cup {-1}, newPid(q)
  PROVE  q = n + 2 /\ q \in Pids
<1>0. n \in Nat /\ n + 2 \in Pids
  BY Sizes DEF Pids
<1>1. ASSUME NEW k \in Pids, k < n + 2 PROVE Live(k)
  <2>1. k = 0 \/ k = 1 \/ k \in 2 .. n + 1
    BY <1>0, <1>1, Sizes DEF Pids
  <2>2. k = 0 => Live(k)
    BY DEF InOrder, Live
  <2>3. k = 1 => Live(k)
    BY DEF Waits, Live
  <2>4. k \in 2 .. n + 1 => Live(k)
    BY DEF Seated, Live
  <2> QED
    BY <2>1, <2>2, <2>3, <2>4
<1>2. ~Live(n + 2)
  <2>1. proc[n + 2] = Free
    BY <1>0 DEF FreeFrom
  <2> QED
    BY <2>1 DEF Free, Live
<1>3. q # -1
  BY <1>0, <1>2, Sizes DEF newPid, Pids
<1>4. q \in Pids /\ ~Live(q) /\ \A k \in Pids : k < q => Live(k)
  BY <1>3 DEF newPid
<1>5. ~(q < n + 2) /\ ~(n + 2 < q)
  BY <1>0, <1>1, <1>2, <1>4
<1> QED
  BY <1>0, <1>4, <1>5 DEF Pids

LEMMA ForkPhilOrder ==
  ASSUME TypeOK, InOrder, NEW p \in Pids, ForkPhil(p)
  PROVE  InOrder'
<1>0. p # 0
  BY DEF InOrder, ForkPhil
<1>1. p = 1
  BY <1>0, WhoIsWhere DEF ForkPhil
<1>2. proc[1].at = "forkPhil" /\ ForkPhil(1) /\ UNCHANGED << pipe, table, token, lines >>
  BY <1>1 DEF ForkPhil
<1>3. Seating
  BY <1>2, Slots DEF InOrder, BeforeWaiter, FreeFrom, Free, Loading, CreatingPipes, Serving, Waits
<1>4. PICK n \in 0 .. PHILS - 1 :
        /\ Waits("forkPhil", n)
        /\ proc[0].at = "gets" /\ lines > 0
        /\ \A k \in 2 .. n + 1 : Seated(k)
        /\ FreeFrom(n + 2) /\ PipesMade(2 * PHILS)
  BY <1>3 DEF Seating
<1>5. proc[1].n = n /\ n \in Nat /\ proc[1].prog = "W" /\ proc[1].cmd = "W"
  BY <1>4, Sizes DEF Waits
<1> DEFINE parent == IF n + 1 < PHILS THEN [proc[1] EXCEPT !.n = n + 1]
                     ELSE [proc[1] EXCEPT !.at = "serve"]
<1>6. Forks(1, "execPhil", "phil", parent)
  BY <1>2, <1>5 DEF ForkPhil
<1>7. PICK q \in Pids \cup {-1} :
        /\ newPid(q)
        /\ proc' = [k \in Pids |->
             IF k = q THEN [proc[1] EXCEPT !.at = "execPhil", !.cmd = "phil", !.boss = 1]
             ELSE IF k = 1 THEN parent ELSE proc[k]]
  BY <1>6 DEF Forks
<1>8. q = n + 2 /\ q \in Pids
  BY <1>4, <1>7, NewPidIsNext
<1>9. /\ proc'[1] = parent
      /\ proc'[q] = [proc[1] EXCEPT !.at = "execPhil", !.cmd = "phil", !.boss = 1]
      /\ \A k \in Pids : k # 1 /\ k # q => proc'[k] = proc[k]
  BY <1>5, <1>7, <1>8, Slots
<1>10. proc[1] \in Process
  BY Slots DEF TypeOK, Process
<1>11. /\ parent.prog = "W" /\ parent.cmd = "W"
       /\ n + 1 < PHILS => parent.at = "forkPhil" /\ parent.n = n + 1
       /\ ~(n + 1 < PHILS) => parent.at = "serve" /\ parent.n = n
  BY <1>2, <1>5, <1>10 DEF Process
<1> HIDE DEF parent
<1>12. proc'[0] = proc[0]
  BY <1>5, <1>8, <1>9, Slots
<1>13. ASSUME NEW k \in 2 .. n + 2 PROVE Seated(k)'
  <2>1. CASE k = n + 2
    <3>1. /\ proc'[k].cmd = "phil" /\ proc'[k].boss = 1 /\ proc'[k].n = n
          /\ proc'[k].prog = "W" /\ proc'[k].at = "execPhil"
      BY <1>5, <1>8, <1>9, <1>10, <2>1 DEF Process
    <3>2. n = k - 2
      BY <1>5, <2>1
    <3> QED
      BY <3>1, <3>2 DEF Seated
  <2>2. CASE k # n + 2
    <3>1. k \in 2 .. n + 1 /\ k \in Pids /\ k # 1
      BY <1>5, <2>2, Sizes DEF Pids
    <3>2. Seated(k) /\ proc'[k] = proc[k]
      BY <1>4, <1>8, <1>9, <2>2, <3>1
    <3> QED
      BY <3>2 DEF Seated
  <2> QED
    BY <2>1, <2>2
<1>14. FreeFrom(n + 3)'
  <2>1. ASSUME NEW k \in Pids, k >= n + 3 PROVE proc'[k] = Free
    <3>1. k >= n + 2 /\ k # 1 /\ k # q
      BY <1>5, <1>8, <2>1 DEF Pids
    <3> QED
      BY <1>4, <1>9, <3>1 DEF FreeFrom
  <2> QED
    BY <2>1 DEF FreeFrom
<1>15. PipesMade(2 * PHILS)'
  BY <1>2, <1>4, <1>9, <1>5, <1>8, Slots, PipesStay
<1>16. CASE n + 1 < PHILS
  <2>1. Waits("forkPhil", n + 1)'
    BY <1>9, <1>11, <1>16 DEF Waits
  <2>2. n + 1 \in 0 .. PHILS - 1 /\ (n + 1) + 1 = n + 2 /\ (n + 1) + 2 = n + 3
    BY <1>5, <1>16, Sizes
  <2>3. Seating'
    BY <1>2, <1>4, <1>12, <1>13, <1>14, <1>15, <2>1, <2>2 DEF Seating
  <2> QED
    BY <1>4, <1>12, <2>3 DEF InOrder
<1>17. CASE ~(n + 1 < PHILS)
  <2>1. Waits("serve", n)'
    BY <1>9, <1>11, <1>17 DEF Waits
  <2>2. n + 1 = PHILS
    BY <1>5, <1>17, Sizes
  <2>3. \A k \in 2 .. PHILS + 1 : Seated(k)'
    BY <1>13, <2>2
  <2>4. ASSUME NEW k \in Pids, k > PHILS + 1 PROVE proc'[k] = Free /\ Guest(k)'
    <3>1. k >= n + 3
      BY <1>5, <2>2, <2>4 DEF Pids
    <3> QED
      BY <1>14, <3>1 DEF FreeFrom, Guest
  <2>5. ASSUME NEW k \in Pids PROVE proc'[k].at # "load"
    <3>1. CASE k > PHILS + 1
      BY <2>4, <3>1 DEF Free
    <3>2. CASE k \in 2 .. PHILS + 1
      BY <2>3, <3>2 DEF Seated
    <3>3. CASE k = 1
      BY <2>1, <3>3 DEF Waits
    <3>4. CASE k = 0
      BY <1>4, <1>12, <3>4
    <3> QED
      BY <3>1, <3>2, <3>3, <3>4, Sizes DEF Pids
  <2>6. Serving'
    BY <1>2, <1>4, <1>12, <1>15, <2>1, <2>3, <2>4, <2>5 DEF Serving
  <2> QED
    BY <1>4, <1>12, <2>6 DEF InOrder
<1> QED
  BY <1>16, <1>17

\* A philosopher starts and asks for his number.
LEMMA SeatedOrder ==
  ASSUME TypeOK, InOrder, NEW p \in Pids, ExecPhil(p) \/ GetPid(p)
  PROVE  InOrder'
<1>0. /\ proc[p].at \in {"execPhil", "getpid"} /\ UNCHANGED << pipe, table, token, lines >>
      /\ \A k \in Pids : k # p => proc'[k] = proc[k]
  BY DEF ExecPhil, GetPid, TypeOK
<1>1. p # 0 /\ p # 1
  BY <1>0, Slots DEF InOrder, BeforeWaiter, FreeFrom, Free, Loading, CreatingPipes, Seating, Serving,
                    Waits
<1>2. ASSUME Seated(p) PROVE Seated(p)'
  <2>1. CASE ExecPhil(p)
    <3>1. proc[p].prog = "W" /\ proc[p].at = "execPhil"
      BY <1>2, <2>1 DEF ExecPhil, Seated
    <3>2. /\ proc'[p].cmd = proc[p].cmd /\ proc'[p].boss = proc[p].boss
          /\ proc'[p].n = proc[p].n /\ proc'[p].prog = "phil" /\ proc'[p].at = "getpid"
      BY <2>1 DEF ExecPhil, TypeOK
    <3> QED
      BY <1>2, <3>2 DEF Seated
  <2>2. CASE GetPid(p)
    <3>1. proc[p].prog = "phil"
      BY <1>2, <2>2 DEF GetPid, Seated
    <3>2. /\ proc'[p].cmd = proc[p].cmd /\ proc'[p].boss = proc[p].boss
          /\ proc'[p].n = proc[p].n /\ proc'[p].prog = proc[p].prog /\ proc'[p].at = "run"
          /\ proc'[p].id = p - 2
      BY <2>2 DEF GetPid, TypeOK
    <3> QED
      BY <1>2, <3>1, <3>2 DEF Seated
  <2> QED
    BY <2>1, <2>2
<1>3. proc'[0] = proc[0] /\ proc'[1] = proc[1]
  BY <1>0, <1>1, Slots
<1>4. ASSUME NEW k \in Pids, Seated(k) PROVE Seated(k)'
  <2>1. CASE k = p
    BY <1>2, <1>4, <2>1
  <2>2. CASE k # p
    BY <1>0, <1>4, <2>2 DEF Seated
  <2> QED
    BY <2>1, <2>2
<1>5. proc[p] # Free
  BY <1>0 DEF Free
<1>6. ASSUME NEW m \in Nat, FreeFrom(m) PROVE FreeFrom(m)'
  BY <1>0, <1>5, <1>6 DEF FreeFrom
<1>7. ASSUME NEW m, PipesMade(m) PROVE PipesMade(m)'
  BY <1>0, <1>3, <1>7, PipesStay
<1>8. CASE Seating
  <2>1. PICK n \in 0 .. PHILS - 1 :
          /\ Waits("forkPhil", n)
          /\ proc[0].at = "gets" /\ lines > 0
          /\ \A k \in 2 .. n + 1 : Seated(k)
          /\ FreeFrom(n + 2) /\ PipesMade(2 * PHILS)
    BY <1>8 DEF Seating
  <2>2. Waits("forkPhil", n)' /\ FreeFrom(n + 2)' /\ PipesMade(2 * PHILS)'
    <3>1. n + 2 \in Nat
      BY Sizes
    <3> QED
      BY <1>3, <1>6, <1>7, <2>1, <3>1 DEF Waits
  <2>3. ASSUME NEW k \in 2 .. n + 1 PROVE Seated(k)'
    <3>1. k \in Pids
      BY Sizes DEF Pids
    <3> QED
      BY <1>4, <2>1, <3>1
  <2>4. Seating'
    BY <1>0, <1>3, <2>1, <2>2, <2>3 DEF Seating
  <2> QED
    BY <1>3, <2>1, <2>4 DEF InOrder
<1>9. CASE Serving
  <2>1. PICK n \in 0 .. PHILS - 1 : Waits("serve", n)
    BY <1>9 DEF Serving
  <2>2. Waits("serve", n)' /\ lines' > 0 /\ PipesMade(2 * PHILS)'
    BY <1>0, <1>3, <1>7, <1>9, <2>1 DEF Waits, Serving
  <2>3. ASSUME NEW k \in 2 .. PHILS + 1 PROVE Seated(k)'
    BY <1>4, <1>9, Slots DEF Serving
  <2>4. ASSUME NEW k \in Pids, k > PHILS + 1 PROVE Guest(k)'
    <3>1. Guest(k)
      BY <1>9, <2>4 DEF Serving
    <3>2. k # p
      BY <1>0, <3>1 DEF Guest, Free
    <3> QED
      BY <1>0, <3>1, <3>2 DEF Guest
  <2>5. proc[0].at # "fork"
    BY <1>0, <1>1, <1>9 DEF Serving
  <2>6. proc'[p].at # "load"
    BY DEF ExecPhil, GetPid, TypeOK
  <2>7. \A k, j \in Pids : proc'[k].at = "load" /\ proc'[j].at = "load" => k = j
    BY <1>0, <1>9, <2>6 DEF Serving
  <2>8. Serving'
    BY <1>3, <2>2, <2>3, <2>4, <2>5, <2>7 DEF Serving
  <2> QED
    BY <1>0, <1>3, <2>5, <2>8 DEF InOrder
<1>10. CASE BeforeWaiter \/ Loading \/ CreatingPipes
  <2>1. FreeFrom(2)
    BY <1>10 DEF BeforeWaiter, Loading, CreatingPipes, FreeFrom, Pids
  <2>2. p >= 2
    BY <1>1 DEF Pids
  <2> QED
    BY <1>5, <2>1, <2>2 DEF FreeFrom
<1> QED
  BY <1>8, <1>9, <1>10 DEF InOrder

\* Only a guest ends: his slot is free again.
LEMMA ExitOrder ==
  ASSUME TypeOK, InOrder, NEW p \in Pids, Exit(p)
  PROVE  InOrder'
<1>0. /\ proc[p].at = "run" /\ proc[p].prog \notin {"phil", "console"}
      /\ proc' = [proc EXCEPT ![p] = Free] /\ UNCHANGED << pipe, table, token, lines >>
  BY DEF Exit
<1>1. proc'[p] = Free /\ \A k \in Pids : k # p => proc'[k] = proc[k]
  BY <1>0 DEF TypeOK
<1>2. p # 0
  BY <1>0 DEF InOrder
<1>3. ~Seated(p) /\ proc[p] # Free
  BY <1>0 DEF Seated, Free
<1>4. p # 1
  BY <1>0, Slots DEF InOrder, BeforeWaiter, FreeFrom, Free, Loading, CreatingPipes, Seating, Serving,
                    Waits
<1>5. p \in Nat /\ p >= 2
  BY <1>2, <1>4, Sizes DEF Pids
<1>6. CASE Serving
  <2>1. PICK n \in 0 .. PHILS - 1 : Waits("serve", n)
    BY <1>6 DEF Serving
  <2>2. proc'[0] = proc[0] /\ proc'[1] = proc[1]
    BY <1>1, <1>2, <1>4, Slots
  <2>3. Waits("serve", n)' /\ lines' > 0 /\ PipesMade(2 * PHILS)'
    BY <1>0, <1>6, <2>1, <2>2, PipesStay DEF Waits, Serving
  <2>4. ASSUME NEW k \in 2 .. PHILS + 1 PROVE Seated(k)'
    <3>1. Seated(k) /\ k # p
      BY <1>3, <1>6, <2>4 DEF Serving
    <3>2. proc'[k] = proc[k]
      BY <1>1, <3>1, Slots
    <3> QED
      BY <3>1, <3>2 DEF Seated
  <2>5. ASSUME NEW k \in Pids, k > PHILS + 1 PROVE Guest(k)'
    <3>1. CASE k = p
      BY <1>1, <3>1 DEF Guest
    <3>2. CASE k # p
      <4>1. Guest(k) /\ proc'[k] = proc[k]
        BY <1>1, <1>6, <2>5, <3>2 DEF Serving
      <4> QED
        BY <1>0, <4>1 DEF Guest
    <3> QED
      BY <3>1, <3>2
  <2>6. proc'[p].at = "free"
    BY <1>1 DEF Free
  <2>7. proc'[0].at = "fork" => /\ proc'[0].cmd # "W"
                                /\ \A k \in Pids \ {0} : proc'[k].at \in {"serve", "run", "free"}
    <3>1. proc[0].at = "fork" => /\ proc[0].cmd # "W"
                                 /\ \A k \in Pids \ {0} : proc[k].at \in {"serve", "run", "free"}
      BY <1>6 DEF Serving
    <3> QED
      BY <1>1, <2>2, <2>6, <3>1
  <2>8. \A k, j \in Pids : proc'[k].at = "load" /\ proc'[j].at = "load" => k = j
    BY <1>1, <1>6, <2>6 DEF Serving
  <2>9. Serving'
    BY <2>3, <2>4, <2>5, <2>7, <2>8 DEF Serving
  <2> QED
    BY <1>0, <2>2, <2>9 DEF InOrder
<1>7. CASE Seating
  <2>1. PICK n \in 0 .. PHILS - 1 : FreeFrom(n + 2) /\ \A k \in 2 .. n + 1 : Seated(k)
    BY <1>7 DEF Seating
  <2>2. p \in 2 .. n + 1 \/ p >= n + 2
    BY <1>5
  <2> QED
    BY <1>3, <2>1, <2>2 DEF FreeFrom
<1>8. CASE BeforeWaiter \/ Loading \/ CreatingPipes
  <2>1. FreeFrom(2)
    BY <1>8 DEF BeforeWaiter, Loading, CreatingPipes, FreeFrom, Pids
  <2> QED
    BY <1>3, <1>5, <2>1 DEF FreeFrom
<1> QED
  BY <1>6, <1>7, <1>8 DEF InOrder

LEMMA StutterOrder ==
  ASSUME InOrder, UNCHANGED vars
  PROVE  InOrder'
<1>1. UNCHANGED << pipe, proc, table, token, lines >>
  BY DEF vars
<1>2. \A n : PipesMade(n) => PipesMade(n)'
  BY <1>1 DEF PipesMade
<1>3. \A k \in Pids : Guest(k) => Guest(k)'
  BY <1>1 DEF Guest
<1>4. \A k : (Seated(k) => Seated(k)') /\ (FreeFrom(k) => FreeFrom(k)')
  BY <1>1 DEF Seated, FreeFrom
<1>5. \A c, n : Waits(c, n) => Waits(c, n)'
  BY <1>1 DEF Waits
<1>6. CASE BeforeWaiter
  BY <1>1, <1>2, <1>4, <1>6 DEF InOrder, BeforeWaiter
<1>7. CASE Loading
  BY <1>1, <1>2, <1>4, <1>7 DEF InOrder, Loading
<1>8. CASE CreatingPipes
  BY <1>1, <1>2, <1>4, <1>5, <1>8 DEF InOrder, CreatingPipes
<1>9. CASE Seating
  BY <1>1, <1>2, <1>4, <1>5, <1>9 DEF InOrder, Seating
<1>10. CASE Serving
  BY <1>1, <1>2, <1>3, <1>4, <1>5, <1>10 DEF InOrder, Serving
<1> QED
  BY <1>6, <1>7, <1>8, <1>9, <1>10 DEF InOrder

LEMMA InOrderInit == Init => InOrder
<1> SUFFICES ASSUME Init PROVE InOrder
  OBVIOUS
<1>1. proc[0] = [Free EXCEPT !.prog = "console", !.at = "gets"]
  BY Slots DEF Init
<1>2. proc[0].prog = "console" /\ proc[0].at = "gets"
  BY <1>1 DEF Free
<1>3. FreeFrom(1)
  BY Sizes DEF Init, FreeFrom, Pids
<1>4. PipesMade(0)
  <2>1. ASSUME NEW k \in PipeIds PROVE pipe[k] = IF k < 0 THEN Joined(k) ELSE NoPipe
    <3>1. ~(k < 0) /\ pipe[k] = NoPipe
      BY Sizes DEF Init, initialisePipes, PipeIds
    <3> QED
      BY <3>1
  <2>2. ASSUME NEW i \in Phils PROVE ~(i * 2 < 0) /\ ~(i * 2 + 1 < 0)
    BY Sizes DEF Phils
  <2> QED
    BY <2>1, <2>2 DEF PipesMade
<1>5. lines = 0
  BY DEF Init
<1>6. BeforeWaiter
  BY <1>2, <1>3, <1>4, <1>5 DEF BeforeWaiter
<1> QED
  BY <1>2, <1>6 DEF InOrder

LEMMA SInvInit == Init => SInv
BY TypeInit, InOrderInit DEF SInv

\* Once a line came at the wrong moment, nothing is promised any more.
LEMMA StaysDisturbed ==
  ASSUME [Next]_vars, disturbed
  PROVE  disturbed'
BY DEF Next, vars, ReadLine, ConsoleFork, LoadExec, Exit, RunOn, CreatePipe, ForkPhil, ExecPhil,
       GetPid

LEMMA SInvStep == SInv /\ [Next]_vars => SInv'
<1> SUFFICES ASSUME SInv, [Next]_vars PROVE SInv'
  OBVIOUS
<1>1. TypeOK /\ TypeOK' /\ (disturbed \/ InOrder)
  BY TypeStep DEF SInv
<1>2. CASE disturbed \/ disturbed'
  <2>1. disturbed'
    BY <1>2, StaysDisturbed
  <2> QED
    BY <1>1, <2>1 DEF SInv
<1>3. CASE ~disturbed /\ ~disturbed'
  <2>0. TypeOK /\ InOrder /\ ~disturbed'
    BY <1>1, <1>3
  <2>1. ASSUME NEW p \in Pids, ReadLine(p) PROVE InOrder'
    BY <2>0, <2>1, ReadLineOrder
  <2>2. ASSUME NEW p \in Pids, ConsoleFork(p) PROVE InOrder'
    BY <2>0, <2>2, ConsoleForkOrder
  <2>3. ASSUME NEW p \in Pids, LoadExec(p) PROVE InOrder'
    BY <2>0, <2>3, LoadExecOrder
  <2>4. ASSUME NEW p \in Pids, Exit(p) PROVE InOrder'
    BY <2>0, <2>4, ExitOrder
  <2>5. ASSUME NEW p \in Pids, CreatePipe(p) PROVE InOrder'
    BY <2>0, <2>5, CreatePipeOrder
  <2>6. ASSUME NEW p \in Pids, ForkPhil(p) PROVE InOrder'
    BY <2>0, <2>6, ForkPhilOrder
  <2>7. ASSUME NEW p \in Pids, ExecPhil(p) \/ GetPid(p) PROVE InOrder'
    BY <2>0, <2>7, SeatedOrder
  <2>8. ASSUME UNCHANGED vars PROVE InOrder'
    BY <2>0, <2>8, StutterOrder
  <2>9. ASSUME NEW p \in Pids, RunOn(p) PROVE InOrder'
    BY <2>0, <2>9, StutterOrder DEF RunOn
  <2>10. InOrder'
    BY <2>1, <2>2, <2>3, <2>4, <2>5, <2>6, <2>7, <2>8, <2>9 DEF Next
  <2> QED
    BY <1>1, <2>10 DEF SInv
<1> QED
  BY <1>2, <1>3

LEMMA SInvHolds == Spec => []SInv
BY SInvInit, SInvStep, PTL DEF Spec

-----------------------------------------------------------------------------
(* What follows from it.                                                     *)

\* Where a philosopher is found who knows his id, or a waiter who serves.
LEMMA SInvSeats ==
  ASSUME SInv, ~disturbed, NEW p \in Pids, proc[p].prog = "phil" /\ proc[p].at = "run"
  PROVE  Seated(p) /\ p - 2 \in Phils /\ PipesMade(2 * PHILS)
<1>1. InOrder
  BY DEF SInv
<1>2. p # 0
  BY <1>1 DEF InOrder
<1>3. proc[p] # Free
  BY DEF Free
<1>4. p # 1
  BY <1>1, Slots DEF InOrder, BeforeWaiter, FreeFrom, Free, Loading, CreatingPipes, Seating, Serving,
                    Waits
<1>5. p \in Nat /\ p >= 2
  BY <1>2, <1>4, Sizes DEF Pids
<1>6. CASE Serving
  <2>1. ~Guest(p)
    BY <1>3, TypedAssumption DEF Guest
  <2>2. p \in 2 .. PHILS + 1
    BY <1>5, <1>6, <2>1, Sizes DEF Serving
  <2>3. p - 2 \in Phils
    BY <2>2, Sizes DEF Phils
  <2> QED
    BY <1>6, <2>2, <2>3 DEF Serving
<1>7. CASE Seating
  <2>1. PICK n \in 0 .. PHILS - 1 : /\ FreeFrom(n + 2) /\ PipesMade(2 * PHILS)
                                     /\ \A k \in 2 .. n + 1 : Seated(k)
    BY <1>7 DEF Seating
  <2>2. p \in 2 .. n + 1
    BY <1>3, <1>5, <2>1 DEF FreeFrom
  <2>3. p - 2 \in Phils
    BY <2>2, Sizes DEF Phils
  <2> QED
    BY <2>1, <2>2, <2>3
<1>8. CASE BeforeWaiter \/ Loading \/ CreatingPipes
  <2>1. FreeFrom(2)
    BY <1>8 DEF BeforeWaiter, Loading, CreatingPipes, FreeFrom, Pids
  <2> QED
    BY <1>3, <1>5, <2>1 DEF FreeFrom
<1> QED
  BY <1>1, <1>6, <1>7, <1>8 DEF InOrder

\* If the first line started the waiter and no line came while anybody was being set
\* up, the pipe numbers a philosopher computes from his pid are those the waiter got
\* from cpipe() for his seat, and the two of them are at the pipes' ends.
THEOREM SeatsMatchHolds == Spec => []SeatsMatch
<1>1. SInv => SeatsMatch
  <2> SUFFICES ASSUME SInv, ~disturbed, NEW p \in Pids, proc[p].prog = "phil" /\ proc[p].at = "run"
               PROVE  LET i == proc[p].n
                          w == proc[p].boss
                      IN /\ phil_wtp(p) = table[w].wtp[i]
                         /\ pipe[phil_wtp(p)] = [sender |-> PHILS, receiver |-> i]
                         /\ phil_ptw(p) = table[w].ptw[i]
                         /\ pipe[phil_ptw(p)] = [sender |-> i, receiver |-> PHILS]
    BY DEF SeatsMatch
  <2> DEFINE i == p - 2
  <2>1. Seated(p) /\ i \in Phils /\ PipesMade(2 * PHILS)
    BY SInvSeats
  <2>2. proc[p].n = i /\ proc[p].boss = 1 /\ proc[p].id = i
    BY <2>1 DEF Seated
  <2>3. phil_wtp(p) = i * 2 /\ phil_ptw(p) = i * 2 + 1
    BY <2>2 DEF phil_wtp, phil_ptw
  <2> HIDE DEF i
  <2>4. i \in Nat /\ i * 2 < 2 * PHILS /\ i * 2 + 1 < 2 * PHILS
    BY <2>1, Sizes DEF Phils
  <2>5. i * 2 \in PipeIds /\ i * 2 + 1 \in PipeIds
    BY <2>4, Sizes DEF PipeIds
  <2>6. table[1].wtp[i] = i * 2 /\ table[1].ptw[i] = i * 2 + 1
    BY <2>1, <2>4 DEF PipesMade
  <2>7. pipe[i * 2] = Joined(i * 2) /\ pipe[i * 2 + 1] = Joined(i * 2 + 1)
    BY <2>1, <2>4, <2>5 DEF PipesMade
  <2>8. /\ Joined(i * 2) = [sender |-> PHILS, receiver |-> i]
        /\ Joined(i * 2 + 1) = [sender |-> i, receiver |-> PHILS]
    BY <2>1, JoinedPair
  <2> QED
    BY <2>2, <2>3, <2>6, <2>7, <2>8
<1> QED
  BY <1>1, SInvHolds, PTL

\* And no seat is left empty: when the waiter serves, he forked a philosopher for
\* every seat, and each of them still sits there.
THEOREM EverySeatTakenHolds == Spec => []EverySeatTaken
<1>1. SInv => EverySeatTaken
  <2> SUFFICES ASSUME SInv, NEW w \in Pids, ~disturbed, proc[w].at = "serve", NEW i \in Phils
               PROVE  \E p \in Pids : proc[p].cmd = "phil" /\ proc[p].boss = w /\ proc[p].n = i
    BY DEF EverySeatTaken
  <2>1. InOrder
    BY DEF SInv
  <2>2. w = 1
    BY <2>1, WhoIsWhere DEF InOrder
  <2>3. Serving
    BY <2>1, <2>2, Slots DEF InOrder, BeforeWaiter, FreeFrom, Free, Loading, CreatingPipes, Seating,
                             Waits
  <2>4. i \in Nat /\ i + 2 \in 2 .. PHILS + 1 /\ i + 2 \in Pids /\ (i + 2) - 2 = i
    BY Sizes DEF Phils, Pids
  <2>5. Seated(i + 2)
    BY <2>3, <2>4 DEF Serving
  <2> QED
    BY <2>2, <2>4, <2>5 DEF Seated
<1> QED
  BY <1>1, SInvHolds, PTL

\* A user who waits until a program is set up gets the program he typed, although
\* every process shares the one position strtok() remembers.
THEOREM PatientUserHolds == Spec => []PatientUser
<1>1. SInv => PatientUser
  <2> SUFFICES ASSUME SInv, ~disturbed, NEW p \in Pids,
                      proc[p].at \in {"run", "lost", "cpipe", "forkPhil", "serve"}
               PROVE  proc[p].prog = proc[p].cmd
    BY DEF PatientUser
  <2>1. InOrder
    BY DEF SInv
  <2>2. p # 0
    BY <2>1 DEF InOrder
  <2>3. CASE p = 1
    BY <2>1, <2>3, Slots DEF InOrder, BeforeWaiter, FreeFrom, Free, Loading, CreatingPipes, Seating,
                             Serving, Waits
  <2>4. CASE p # 1 /\ Seated(p)
    BY <2>4 DEF Seated
  <2>5. CASE p # 1 /\ ~Seated(p)
    <3>0. p \in Nat /\ p >= 2
      BY <2>2, <2>5, Sizes DEF Pids
    <3>1. proc[p] # Free
      BY DEF Free
    <3>2. ~BeforeWaiter /\ ~Loading /\ ~CreatingPipes
      BY <3>0, <3>1 DEF BeforeWaiter, Loading, CreatingPipes, FreeFrom
    <3>3. ~Seating
      <4> SUFFICES ASSUME Seating PROVE FALSE
        OBVIOUS
      <4>1. PICK n \in 0 .. PHILS - 1 : FreeFrom(n + 2) /\ \A k \in 2 .. n + 1 : Seated(k)
        BY DEF Seating
      <4> QED
        BY <2>5, <3>0, <3>1, <4>1 DEF FreeFrom
    <3>4. Serving
      BY <2>1, <3>2, <3>3 DEF InOrder
    <3>5. Guest(p)
      BY <2>5, <3>0, <3>4, Sizes DEF Serving
    <3> QED
      BY <3>1, <3>5 DEF Guest
  <2> QED
    BY <2>3, <2>4, <2>5
<1> QED
  BY <1>1, SInvHolds, PTL
=============================================================================
