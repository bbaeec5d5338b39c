------------------------------- MODULE Dining -------------------------------
(***************************************************************************)
(* The waiter (user/waiter.c) and the philosophers (user/philosophers.c)   *)
(* once they are all running.  The timer may take the processor away       *)
(* between any two system calls, so each action ends with one system call  *)
(* (or with a run of local statements that other processes cannot see).    *)
(* Each pair shares two pipes of the kernel: ptw[i], philosopher to        *)
(* waiter, and wtp[i], waiter to philosopher.                              *)
(***************************************************************************)
EXTENDS Integers

CONSTANTS
  PHILS,             \* how many philosophers (16 in the code)
  Killable           \* those the user may kill from the console

Phils == 0 .. PHILS - 1

ASSUME TableAssumption == /\ PHILS \in Nat /\ PHILS >= 2
                          /\ Killable \subseteq Phils

VARIABLES
  wtp, ptw,          \* the pipes: data and full of each
  forks,             \* waiter.forks
  at, seat, data,    \* the waiter: his next call, i, data
  pc, permission     \* the philosophers: next call, permission

waiter == << at, seat, data >>
vars == << wtp, ptw, forks, at, seat, data, pc, permission >>

-----------------------------------------------------------------------------
\* enum request_t; a pipe nobody has written to holds the -1 of initialisePipes().
Requests == {"okay", "notokay", "eat", "finish"}
Garbage == "garbage"

\* The two forks of philosopher i.
Left(i) == i
Right(i) == (i + 1) % PHILS
Forks(i) == {Left(i), Right(i)}

SharesFork(i, m) == i # m /\ Forks(i) \cap Forks(m) # {}

\* Faulty: the fork on the right is forgotten.
SetForks_LeftOnly(i, v) == [forks EXCEPT ![Left(i)] = v]

\* waiter.forks after the forks of philosopher i are set to v.
SetForks(i, v) == [f \in Phils |-> IF f \in Forks(i) THEN v ELSE forks[f]]

Init ==
  /\ wtp = [i \in Phils |-> [data |-> Garbage, full |-> 0]]
  /\ ptw = [i \in Phils |-> [data |-> Garbage, full |-> 0]]
  /\ forks = [i \in Phils |-> 1]
  /\ at = "poll" /\ seat = 0 /\ data = Garbage
  /\ pc = [i \in Phils |-> "ask"]
  /\ permission = [i \in Phils |-> Garbage]

-----------------------------------------------------------------------------
(* The waiter: one round of the for loop serves philosopher seat.            *)

\* Faulty: i runs past the last philosopher.
NextSeat_NoWrap == at' = "poll" /\ seat' = seat + 1 /\ data' = Garbage

\* Faulty: the loop ends one philosopher too early.
NextSeat_SkipsLast == at' = "poll" /\ seat' = (seat + 1) % (PHILS - 1) /\ data' = Garbage

\* i++, and the while ( 1 ) around the loop; data goes out of scope.
NextSeat == at' = "poll" /\ seat' = (seat + 1) % PHILS /\ data' = Garbage

\* isfull( ptw[ i ] ) == 1
Poll ==
  /\ at = "poll"
  /\ IF ptw[seat].full = 1 THEN at' = "read" /\ UNCHANGED << seat, data >> ELSE NextSeat
  /\ UNCHANGED << wtp, ptw, forks, pc, permission >>

\* data = readc( ptw[ i ] )
Read ==
  /\ at = "read"
  /\ data' = ptw[seat].data
  /\ at' = "clear"
  /\ UNCHANGED << wtp, ptw, forks, seat, pc, permission >>

\* Faulty: one free fork is enough.
Available_One(i) == \E f \in Forks(i) : forks[f] = 1

\* Both forks of philosopher i are there.
Available(i) == \A f \in Forks(i) : forks[f] = 1

\* changec( ptw[ i ], 0 ), and what the waiter decides from data and his forks.
Clear ==
  /\ at = "clear"
  /\ ptw' = [ptw EXCEPT ![seat].full = 0]
  /\ forks' = IF data = "finish" THEN SetForks(seat, 1) ELSE forks
  /\ IF data = "eat"
       THEN at' = (IF Available(seat) THEN "permit" ELSE "deny") /\ UNCHANGED << seat, data >>
       ELSE NextSeat
  /\ UNCHANGED << wtp, pc, permission >>

\* writec( wtp[ i ], okay ) or writec( wtp[ i ], notokay )
Answer ==
  /\ at \in {"permit", "deny"}
  /\ wtp' = [wtp EXCEPT ![seat].data = IF at = "permit" THEN "okay" ELSE "notokay"]
  /\ at' = IF at = "permit" THEN "permitFull" ELSE "denyFull"
  /\ UNCHANGED << ptw, forks, seat, data, pc, permission >>

\* changec( wtp[ i ], 1 )
AnswerFull ==
  /\ at \in {"permitFull", "denyFull"}
  /\ wtp' = [wtp EXCEPT ![seat].full = 1]
  /\ IF at = "permitFull" THEN at' = "take" /\ UNCHANGED << seat, data >> ELSE NextSeat
  /\ UNCHANGED << ptw, forks, pc, permission >>

\* After the prints: both forks are unavailable.
Take ==
  /\ at = "take"
  /\ forks' = SetForks(seat, 0)
  /\ NextSeat
  /\ UNCHANGED << wtp, ptw, pc, permission >>

Waiter == Poll \/ Read \/ Clear \/ Answer \/ AnswerFull \/ Take

-----------------------------------------------------------------------------
(* Philosopher i.                                                            *)

\* isfull( ptw ) == 0
Ask(i) ==
  /\ pc[i] = "ask"
  /\ pc' = [pc EXCEPT ![i] = IF ptw[i].full = 0 THEN "request" ELSE "look"]
  /\ UNCHANGED << wtp, ptw, forks, waiter, permission >>

\* writec( ptw, eat )
Request(i) ==
  /\ pc[i] = "request"
  /\ ptw' = [ptw EXCEPT ![i].data = "eat"]
  /\ pc' = [pc EXCEPT ![i] = "requestFull"]
  /\ UNCHANGED << wtp, forks, waiter, permission >>

\* changec( ptw, 1 )
RequestFull(i) ==
  /\ pc[i] = "requestFull"
  /\ ptw' = [ptw EXCEPT ![i].full = 1]
  /\ pc' = [pc EXCEPT ![i] = "look"]
  /\ UNCHANGED << wtp, forks, waiter, permission >>

\* isfull( wtp ) == 1
Look(i) ==
  /\ pc[i] = "look"
  /\ pc' = [pc EXCEPT ![i] = IF wtp[i].full = 1 THEN "readPermission" ELSE "ask"]
  /\ UNCHANGED << wtp, ptw, forks, waiter, permission >>

\* permission = readc( wtp )
ReadPermission(i) ==
  /\ pc[i] = "readPermission"
  /\ permission' = [permission EXCEPT ![i] = wtp[i].data]
  /\ pc' = [pc EXCEPT ![i] = "clearPermission"]
  /\ UNCHANGED << wtp, ptw, forks, waiter >>

\* changec( wtp, 0 ), and he eats if the permission is okay; permission goes out
\* of scope.
ClearPermission(i) ==
  /\ pc[i] = "clearPermission"
  /\ wtp' = [wtp EXCEPT ![i].full = 0]
  /\ pc' = [pc EXCEPT ![i] = IF permission[i] = "okay" THEN "eating" ELSE "ask"]
  /\ permission' = [permission EXCEPT ![i] = Garbage]
  /\ UNCHANGED << ptw, forks, waiter >>

\* Done eating, status is nothungry: writec( ptw, finish ).
Finish(i) ==
  /\ pc[i] = "eating"
  /\ ptw' = [ptw EXCEPT ![i].data = "finish"]
  /\ pc' = [pc EXCEPT ![i] = "finishFull"]
  /\ UNCHANGED << wtp, forks, waiter, permission >>

\* Faulty: the philosopher is hungry again.
FinishFull_StillHungry(i) ==
  /\ pc[i] = "finishFull"
  /\ ptw' = [ptw EXCEPT ![i].full = 1]
  /\ pc' = [pc EXCEPT ![i] = "ask"]
  /\ UNCHANGED << wtp, forks, waiter, permission >>

\* changec( ptw, 1 ).  From here on he spins: nothing makes him hungry again.
FinishFull(i) ==
  /\ pc[i] = "finishFull"
  /\ ptw' = [ptw EXCEPT ![i].full = 1]
  /\ pc' = [pc EXCEPT ![i] = "done"]
  /\ UNCHANGED << wtp, forks, waiter, permission >>

Phil(i) == \/ Ask(i) \/ Request(i) \/ RequestFull(i) \/ Look(i) \/ ReadPermission(i)
           \/ ClearPermission(i) \/ Finish(i) \/ FinishFull(i)

\* kill from the console: the kernel stops philosopher i where he is.
Kill(i) ==
  /\ i \in Killable /\ pc[i] # "killed"
  /\ pc' = [pc EXCEPT ![i] = "killed"]
  /\ UNCHANGED << wtp, ptw, forks, waiter, permission >>

Next == Waiter \/ \E i \in Phils : Phil(i) \/ Kill(i)

Spec == Init /\ [][Next]_vars

\* The scheduler runs every live process again and again, and a process that runs
\* gets through its next call: module Kernel derives it from the timer (Dines).
FairSpec == Spec /\ WF_vars(Waiter) /\ \A i \in Phils : WF_vars(Phil(i))

-----------------------------------------------------------------------------
Pipe == [data : Requests \cup {Garbage}, full : {0, 1}]

TypeOK ==
  /\ wtp \in [Phils -> Pipe] /\ ptw \in [Phils -> Pipe]
  /\ forks \in [Phils -> {0, 1}]
  /\ at \in {"poll", "read", "clear", "permit", "permitFull", "take", "deny", "denyFull"}
  /\ seat \in Phils
  /\ data \in Requests \cup {Garbage}
  /\ pc \in [Phils -> {"ask", "request", "requestFull", "look", "readPermission",
                       "clearPermission", "eating", "finishFull", "done", "killed"}]
  /\ permission \in [Phils -> Requests \cup {Garbage}]

\* Philosopher i will not eat any more.
Gone(i) == pc[i] \in {"finishFull", "done", "killed"}

\* He eats, or an okay is on its way to him.
Permitted(i) ==
  /\ ~Gone(i)
  /\ \/ wtp[i].data = "okay"
     \/ pc[i] = "clearPermission" /\ permission[i] = "okay"
     \/ pc[i] = "eating"

\* The protocol has no lock: pipes are overwritten, read twice and emptied after
\* they were filled again.  Even so, two philosophers who share a fork are never
\* both permitted to eat, wherever the okay is on its way.
ExclusivePermission ==
  \A i, m \in Phils : SharesFork(i, m) => ~(Permitted(i) /\ Permitted(m))

\* The waiter grants a fork he believes free.  His belief is wrong only when it
\* does no harm: while a philosopher is permitted, each fork he shares is marked
\* unavailable, or the waiter is about to mark it, or the other one who could
\* ask for it never will (a finish read twice frees the fork he had shared).
ForksWithheld ==
  \A i \in Phils : Permitted(i) =>
    \A m \in Phils : SharesFork(i, m) =>
      \A f \in Forks(i) \cap Forks(m) :
        forks[f] = 0 \/ Gone(m) \/ (seat = i /\ at \in {"permitFull", "take"})

\* What philosopher i is doing, for somebody who sees only the table.
Status == [i \in Phils |-> IF Gone(i) THEN "left"
                           ELSE IF pc[i] = "eating" THEN "eating" ELSE "hungry"]

Table == INSTANCE DiningTable WITH
  Diners <- Phils, SharesFork <- SharesFork, status <- Status

\* The waiter and the philosophers keep the promise of the table: nobody eats
\* twice, and nobody begins while one who shares a fork eats.
KeepsTable == Table!Spec

\* A request in the pipe is answered, whoever else asks in the meantime.
RequestAnswered ==
  \A i \in Phils : ptw[i].full = 1 /\ ptw[i].data = "eat"
                     ~> wtp[i].full = 1 \/ Gone(i)

\* The waiter gets round to a philosopher's pipe: what is in it is read.
PipesEmptied == \A i \in Phils : ptw[i].full = 1 ~> ptw[i].full = 0

-----------------------------------------------------------------------------
(* What comments in the code say, and the code does not do.                  *)

\* waiter.c: "Inform the philosopher that it's okay to eat".  The waiter has put
\* okay in the pipe and filled it: the philosopher eats.
InformedEats ==
  \A i \in Phils : at = "take" /\ seat = i ~> pc[i] = "eating" \/ Gone(i)
=============================================================================
