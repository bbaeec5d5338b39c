---------------------------- MODULE DiningProofs ----------------------------
(***************************************************************************)
(* For any number of philosophers, at least two, and any of them killed at *)
(* any moment: no two who share a fork are ever permitted to eat together. *)
(***************************************************************************)
EXTENDS Dining, TLAPS

(* A fork lies between the philosopher with its number and the one before.   *)

LEMMA RightValue ==
  \A i \in Phils : Right(i) = IF i = PHILS - 1 THEN 0 ELSE i + 1
BY TableAssumption, SMT DEF Phils, Right

LEMMA ForksInTable == \A i \in Phils : Forks(i) \subseteq Phils
BY RightValue, TableAssumption DEF Phils, Forks, Left

\* Nobody else needs a fork that two philosophers share.
LEMMA TwoPerFork ==
  ASSUME NEW i \in Phils, NEW m \in Phils, SharesFork(i, m),
         NEW f \in Forks(i) \cap Forks(m), NEW j \in Phils, f \in Forks(j)
  PROVE  j = i \/ j = m
BY RightValue, TableAssumption DEF Phils, Forks, Left, SharesFork

LEMMA SharesSymmetric ==
  \A i, m \in Phils : SharesFork(i, m) => SharesFork(m, i)
BY DEF SharesFork

LEMMA SetForksValue ==
  \A i \in Phils : \A v : SetForks(i, v) =
     [f \in Phils |-> IF f \in Forks(i) THEN v ELSE forks[f]]
BY DEF SetForks

-----------------------------------------------------------------------------
(* Types.                                                                    *)

LEMMA NextSeatTypes ==
  ASSUME TypeOK, NextSeat
  PROVE  seat' \in Phils /\ data' \in Requests \cup {Garbage}
BY RightValue, TableAssumption DEF NextSeat, TypeOK, Phils, Right

LEMMA TypeInit == Init => TypeOK
BY TableAssumption DEF Init, TypeOK, Pipe, Phils

LEMMA TypeStep == TypeOK /\ [Next]_vars => TypeOK'
<1> SUFFICES ASSUME TypeOK, [Next]_vars PROVE TypeOK'
  OBVIOUS
<1> USE DEF TypeOK
<1>1. CASE Poll
  BY <1>1, NextSeatTypes DEF Poll, NextSeat
<1>2. CASE Read
  BY <1>2 DEF Read, Pipe
<1>3. CASE Clear
  <2>1. forks' \in [Phils -> {0, 1}]
    BY <1>3, SetForksValue DEF Clear
  <2>2. ptw' \in [Phils -> Pipe]
    BY <1>3 DEF Clear, Pipe
  <2> QED
    BY <1>3, <2>1, <2>2, NextSeatTypes DEF Clear, NextSeat
<1>4. CASE Answer
  BY <1>4 DEF Answer, Pipe, Requests
<1>5. CASE AnswerFull
  <2>1. wtp' \in [Phils -> Pipe]
    BY <1>5 DEF AnswerFull, Pipe
  <2> QED
    BY <1>5, <2>1, NextSeatTypes DEF AnswerFull, NextSeat
<1>6. CASE Take
  <2>1. forks' \in [Phils -> {0, 1}]
    BY <1>6, SetForksValue DEF Take
  <2> QED
    BY <1>6, <2>1, NextSeatTypes DEF Take, NextSeat
<1>7. ASSUME NEW i \in Phils, Phil(i)
      PROVE  TypeOK'
  <2>1. CASE Ask(i)
    BY <2>1 DEF Ask, waiter
  <2>2. CASE Request(i)
    BY <2>2 DEF Request, waiter, Pipe, Requests
  <2>3. CASE RequestFull(i)
    BY <2>3 DEF RequestFull, waiter, Pipe
  <2>4. CASE Look(i)
    BY <2>4 DEF Look, waiter
  <2>5. CASE ReadPermission(i)
    <3>1. wtp[i].data \in Requests \cup {Garbage}
      BY DEF Pipe
    <3> QED
      BY <2>5, <3>1 DEF ReadPermission, waiter
  <2>6. CASE ClearPermission(i)
    BY <2>6 DEF ClearPermission, waiter, Pipe
  <2>7. CASE Finish(i)
    BY <2>7 DEF Finish, waiter, Pipe, Requests
  <2>8. CASE FinishFull(i)
    BY <2>8 DEF FinishFull, waiter, Pipe
  <2> QED
    BY <1>7, <2>1, <2>2, <2>3, <2>4, <2>5, <2>6, <2>7, <2>8 DEF Phil
<1>8. ASSUME NEW i \in Phils, Kill(i)
      PROVE  TypeOK'
  BY <1>8 DEF Kill, waiter
<1>9. CASE UNCHANGED vars
  BY <1>9 DEF vars, waiter
<1> QED
  BY <1>1, <1>2, <1>3, <1>4, <1>5, <1>6, <1>7, <1>8, <1>9 DEF Next, Waiter

\* The pipes, the forks and the variables of waiter and philosophers keep their
\* types.
THEOREM TypeCorrect == Spec => []TypeOK
BY TypeInit, TypeStep, PTL DEF Spec

-----------------------------------------------------------------------------
(* The inductive invariant.                                                  *)

\* A philosopher writes finish when he will not eat any more.
FinishIsLast ==
  /\ \A i \in Phils : ptw[i].data = "finish" => Gone(i)
  /\ at = "clear" /\ data = "finish" => Gone(seat)

\* When the waiter writes okay, the permission is exclusive already.
GrantIsSafe ==
  at = "permit" => \A m \in Phils : SharesFork(seat, m) => ~Permitted(m) \/ Gone(seat)

IInv == TypeOK /\ FinishIsLast /\ GrantIsSafe /\ ForksWithheld /\ ExclusivePermission

LEMMA InvInit == Init => FinishIsLast /\ GrantIsSafe /\ ForksWithheld /\ ExclusivePermission
BY DEF Init, FinishIsLast, GrantIsSafe, ForksWithheld, ExclusivePermission,
       Permitted, Garbage

\* A step after which no philosopher is permitted who was not before, none is back
\* from having gone, and which is not one of the waiter's that concern the forks.
LEMMA QuietStep ==
  ASSUME IInv, TypeOK',
         \A i \in Phils : Permitted(i)' => Permitted(i),
         \A i \in Phils : Gone(i) => Gone(i)',
         UNCHANGED << forks, at, seat >>
  PROVE  GrantIsSafe' /\ ForksWithheld' /\ ExclusivePermission'
<1>1. GrantIsSafe'
  BY DEF IInv, GrantIsSafe, SharesFork, Forks, Left, Right, TypeOK
<1>2. ForksWithheld'
  BY DEF IInv, ForksWithheld, SharesFork, Forks, Left, Right
<1>3. ExclusivePermission'
  BY DEF IInv, ExclusivePermission, SharesFork, Forks, Left, Right
<1> QED
  BY <1>1, <1>2, <1>3

\* Every step of a philosopher, and his death, is a quiet one.
LEMMA PhilStep ==
  ASSUME IInv, TypeOK', NEW i \in Phils, Phil(i) \/ Kill(i)
  PROVE  FinishIsLast' /\ GrantIsSafe' /\ ForksWithheld' /\ ExclusivePermission'
<1>0. TypeOK
  BY DEF IInv
<1>1. UNCHANGED << forks, at, seat, data >>
  BY DEF Phil, Kill, Ask, Request, RequestFull, Look, ReadPermission, ClearPermission,
         Finish, FinishFull, waiter
<1>2. ASSUME NEW k \in Phils, Gone(k) PROVE Gone(k)'
  BY <1>0, <1>2 DEF Gone, TypeOK, Phil, Kill, Ask, Request, RequestFull, Look,
                    ReadPermission, ClearPermission, Finish, FinishFull
<1>3. ASSUME NEW k \in Phils, Permitted(k)' PROVE Permitted(k)
  <2>1. ~Gone(k)
    BY <1>2, <1>3 DEF Permitted
  <2>2. CASE k # i
    <3>1. pc'[k] = pc[k]
      BY <1>0, <2>2 DEF TypeOK, Phil, Kill, Ask, Request, RequestFull, Look, ReadPermission,
                        ClearPermission, Finish, FinishFull
    <3>2. wtp'[k] = wtp[k]
      BY <1>0, <2>2 DEF TypeOK, Phil, Kill, Ask, Request, RequestFull, Look, ReadPermission,
                        ClearPermission, Finish, FinishFull
    <3>3. permission'[k] = permission[k]
      BY <1>0, <2>2 DEF TypeOK, Phil, Kill, Ask, Request, RequestFull, Look, ReadPermission,
                        ClearPermission, Finish, FinishFull
    <3> QED
      BY <1>3, <3>1, <3>2, <3>3 DEF Permitted, Gone
  <2>3. CASE k = i
    <3>1. wtp'[i].data = wtp[i].data
      BY <1>0 DEF TypeOK, Pipe, Phil, Kill, Ask, Request, RequestFull, Look, ReadPermission,
                  ClearPermission, Finish, FinishFull
    <3>2. CASE ReadPermission(i)
      <4>1. permission'[i] = wtp[i].data
        BY <1>0, <3>2 DEF TypeOK, ReadPermission
      <4>2. pc'[i] = "clearPermission"
        BY <1>0, <3>2 DEF TypeOK, ReadPermission
      <4> QED
        BY <1>3, <2>1, <2>3, <3>1, <4>1, <4>2 DEF Permitted
    <3>3. CASE ClearPermission(i)
      <4>1. pc[i] = "clearPermission"
        BY <3>3 DEF ClearPermission
      <4>2. pc'[i] = IF permission[i] = "okay" THEN "eating" ELSE "ask"
        BY <1>0, <3>3 DEF TypeOK, ClearPermission
      <4> QED
        BY <1>3, <2>1, <2>3, <3>1, <4>1, <4>2 DEF Permitted
    <3>4. CASE Ask(i) \/ Request(i) \/ RequestFull(i) \/ Look(i) \/ Finish(i)
               \/ FinishFull(i) \/ Kill(i)
      <4>1. pc'[i] \notin {"eating", "clearPermission"}
        BY <1>0, <3>4 DEF TypeOK, Ask, Request, RequestFull, Look, Finish, FinishFull, Kill
      <4> QED
        BY <1>3, <2>1, <2>3, <3>1, <4>1 DEF Permitted
    <3> QED
      BY <3>2, <3>3, <3>4 DEF Phil
  <2> QED
    BY <2>2, <2>3
<1>4. FinishIsLast'
  <2>1. ASSUME NEW k \in Phils, ptw'[k].data = "finish" PROVE Gone(k)'
    <3>1. CASE ptw[k].data = "finish"
      BY <1>2, <3>1 DEF IInv, FinishIsLast
    <3>2. CASE ptw[k].data # "finish"
      <4>1. k = i /\ Finish(i)
        BY <1>0, <2>1, <3>2
        DEF TypeOK, Pipe, Phil, Kill, Ask, Request, RequestFull, Look, ReadPermission,
            ClearPermission, Finish, FinishFull
      <4> QED
        BY <1>0, <4>1 DEF TypeOK, Finish, Gone
    <3> QED
      BY <3>1, <3>2
  <2>2. at' = "clear" /\ data' = "finish" => Gone(seat)'
    <3>1. at = "clear" /\ data = "finish" => Gone(seat)
      BY DEF IInv, FinishIsLast
    <3>2. PICK s \in Phils : s = seat /\ s = seat'
      BY <1>0, <1>1 DEF TypeOK
    <3>3. Gone(s) => Gone(s)'
      BY <1>2
    <3> QED
      BY <1>1, <3>1, <3>2, <3>3 DEF Gone
  <2> QED
    BY <2>1, <2>2 DEF FinishIsLast
<1> QED
  BY <1>1, <1>2, <1>3, <1>4, QuietStep

\* The waiter's steps leave the philosophers where they are.
LEMMA WaiterLeavesPhils ==
  Waiter => /\ UNCHANGED << pc, permission >>
            /\ \A k : Gone(k)' = Gone(k)
BY DEF Waiter, Poll, Read, Clear, Answer, AnswerFull, Take, Gone

LEMMA WaiterFinish ==
  ASSUME IInv, TypeOK', Waiter
  PROVE  FinishIsLast'
<1>0. TypeOK
  BY DEF IInv
<1>1. ASSUME NEW k \in Phils, ptw'[k].data = "finish" PROVE Gone(k)'
  <2>1. ptw'[k].data = ptw[k].data
    BY <1>0 DEF TypeOK, Pipe, Waiter, Poll, Read, Clear, Answer, AnswerFull, Take
  <2> QED
    BY <1>1, <2>1, WaiterLeavesPhils DEF IInv, FinishIsLast
<1>2. at' = "clear" /\ data' = "finish" => Gone(seat)'
  <2>1. ASSUME at' = "clear", data' = "finish"
        PROVE  Gone(seat)'
    <3>1. Read
      BY <2>1 DEF Waiter, Poll, Clear, Answer, AnswerFull, Take, NextSeat
    <3>2. ptw[seat].data = "finish" /\ seat' = seat /\ seat \in Phils
      BY <1>0, <2>1, <3>1 DEF Read, TypeOK
    <3>3. Gone(seat)
      BY <3>2 DEF IInv, FinishIsLast
    <3> QED
      BY <3>2, <3>3, WaiterLeavesPhils DEF Gone
  <2> QED
    BY <2>1
<1> QED
  BY <1>1, <1>2 DEF FinishIsLast

\* The waiter's steps that decide or change nothing about the forks.
LEMMA WaiterMovesOn ==
  ASSUME IInv, TypeOK', Poll \/ Read \/ (AnswerFull /\ at = "denyFull")
  PROVE  GrantIsSafe' /\ ForksWithheld' /\ ExclusivePermission'
<1>0. TypeOK
  BY DEF IInv
<1>1. UNCHANGED << forks, pc, permission >> /\ at' # "permit"
      /\ at \notin {"permitFull", "take"}
  BY DEF Poll, Read, AnswerFull, NextSeat
<1>2. ASSUME NEW k \in Phils PROVE wtp'[k].data = wtp[k].data
  BY <1>0 DEF TypeOK, Pipe, Poll, Read, AnswerFull
<1>3. ASSUME NEW k \in Phils PROVE Permitted(k)' = Permitted(k) /\ Gone(k)' = Gone(k)
  BY <1>1, <1>2 DEF Permitted, Gone
<1>4. GrantIsSafe'
  BY <1>1 DEF GrantIsSafe
<1>5. ForksWithheld'
  BY <1>1, <1>3 DEF IInv, ForksWithheld, SharesFork, Forks, Left, Right
<1>6. ExclusivePermission'
  BY <1>3 DEF IInv, ExclusivePermission, SharesFork, Forks, Left, Right
<1> QED
  BY <1>4, <1>5, <1>6

\* Emptying the pipe and deciding: the forks he gives back are not needed by
\* anybody permitted, and he grants only what nobody permitted shares.
LEMMA WaiterDecides ==
  ASSUME IInv, TypeOK', Clear
  PROVE  GrantIsSafe' /\ ForksWithheld' /\ ExclusivePermission'
<1>0. TypeOK /\ seat \in Phils
  BY DEF IInv, TypeOK
<1>1. UNCHANGED << wtp, pc, permission >> /\ at = "clear"
  BY DEF Clear
<1>2. ASSUME NEW k \in Phils PROVE Permitted(k)' = Permitted(k) /\ Gone(k)' = Gone(k)
  BY <1>1 DEF Permitted, Gone
<1>3. GrantIsSafe'
  <2>1. SUFFICES ASSUME at' = "permit", NEW m \in Phils, SharesFork(seat, m), Permitted(m)
                 PROVE  Gone(seat)
    <3>1. at' = "permit" => seat' = seat
      BY DEF Clear, NextSeat
    <3> QED
      BY <1>0, <1>2, <2>1, <3>1 DEF GrantIsSafe, SharesFork, Forks, Left, Right
  <2>2. \A f \in Forks(seat) : forks[f] = 1
    BY <2>1 DEF Clear, NextSeat, Available
  <2>3. PICK f \in Forks(seat) \cap Forks(m) : TRUE
    BY <2>1 DEF SharesFork
  <2>4. forks[f] = 0 \/ Gone(seat)
    BY <1>0, <1>1, <2>1, <2>3, SharesSymmetric DEF IInv, ForksWithheld
  <2> QED
    BY <2>2, <2>3, <2>4
<1>4. ForksWithheld'
  <2>1. SUFFICES ASSUME NEW i \in Phils, Permitted(i), NEW m \in Phils, SharesFork(i, m),
                        NEW f \in Forks(i) \cap Forks(m)
                 PROVE  forks'[f] = 0 \/ Gone(m)
    BY <1>2 DEF ForksWithheld, SharesFork, Forks, Left, Right
  <2>2. forks[f] = 0 \/ Gone(m)
    BY <1>1, <2>1 DEF IInv, ForksWithheld
  <2>3. f \in Phils
    BY <2>1, ForksInTable
  <2>4. CASE data = "finish" /\ f \in Forks(seat)
    <3>1. Gone(seat)
      BY <1>1, <2>4 DEF IInv, FinishIsLast
    <3>2. seat = i \/ seat = m
      BY <1>0, <2>1, <2>4, TwoPerFork
    <3> QED
      BY <2>1, <3>1, <3>2 DEF Permitted
  <2>5. CASE ~(data = "finish" /\ f \in Forks(seat))
    <3>1. forks'[f] = forks[f]
      BY <1>0, <2>3, <2>5, SetForksValue DEF Clear
    <3> QED
      BY <2>2, <3>1
  <2> QED
    BY <2>4, <2>5
<1>5. ExclusivePermission'
  BY <1>2 DEF IInv, ExclusivePermission, SharesFork, Forks, Left, Right
<1> QED
  BY <1>3, <1>4, <1>5

\* Writing the answer: okay makes the philosopher of this round permitted, and
\* notokay takes a permission away that he has not read yet.
LEMMA WaiterAnswers ==
  ASSUME IInv, TypeOK', Answer
  PROVE  GrantIsSafe' /\ ForksWithheld' /\ ExclusivePermission'
<1>0. TypeOK /\ seat \in Phils
  BY DEF IInv, TypeOK
<1>1. UNCHANGED << forks, seat, pc, permission >> /\ at' # "permit"
      /\ at \notin {"permitFull", "take"}
  BY DEF Answer
<1>2. ASSUME NEW k \in Phils PROVE Gone(k)' = Gone(k)
  BY <1>1 DEF Gone
<1>3. ASSUME NEW k \in Phils, Permitted(k)', ~Permitted(k)
      PROVE  k = seat /\ at = "permit"
  <2>1. wtp'[k].data = "okay" /\ wtp[k].data # "okay"
    BY <1>1, <1>3 DEF Permitted, Gone
  <2> QED
    BY <1>0, <2>1 DEF Answer, TypeOK, Pipe
<1>4. GrantIsSafe'
  BY <1>1 DEF GrantIsSafe
<1>5. ForksWithheld'
  <2>1. SUFFICES ASSUME NEW i \in Phils, Permitted(i)', NEW m \in Phils, SharesFork(i, m),
                        NEW f \in Forks(i) \cap Forks(m)
                 PROVE  forks[f] = 0 \/ Gone(m) \/ (seat = i /\ at' = "permitFull")
    BY <1>1, <1>2 DEF ForksWithheld, SharesFork, Forks, Left, Right
  <2>2. CASE Permitted(i)
    BY <1>1, <2>1, <2>2 DEF IInv, ForksWithheld
  <2>3. CASE ~Permitted(i)
    BY <1>3, <2>1, <2>3 DEF Answer
  <2> QED
    BY <2>2, <2>3
<1>6. ExclusivePermission'
  <2>1. SUFFICES ASSUME NEW i \in Phils, NEW m \in Phils, SharesFork(i, m),
                        Permitted(i)', Permitted(m)'
                 PROVE  FALSE
    BY DEF ExclusivePermission, SharesFork, Forks, Left, Right
  <2>2. ~Gone(i) /\ ~Gone(m) /\ i # m /\ SharesFork(m, i)
    BY <1>2, <2>1, SharesSymmetric DEF Permitted, SharesFork
  <2>3. CASE Permitted(i) /\ Permitted(m)
    BY <2>1, <2>3 DEF IInv, ExclusivePermission
  <2>4. CASE ~Permitted(i)
    <3>1. i = seat /\ at = "permit" /\ Permitted(m)
      BY <1>3, <2>1, <2>2, <2>4
    <3> QED
      BY <2>1, <2>2, <3>1 DEF IInv, GrantIsSafe
  <2>5. CASE ~Permitted(m)
    <3>1. m = seat /\ at = "permit" /\ Permitted(i)
      BY <1>3, <2>1, <2>2, <2>5
    <3> QED
      BY <2>1, <2>2, <3>1 DEF IInv, GrantIsSafe
  <2> QED
    BY <2>3, <2>4, <2>5
<1> QED
  BY <1>4, <1>5, <1>6

\* Filling the pipe with the okay, and marking the forks afterwards.
LEMMA WaiterTakes ==
  ASSUME IInv, TypeOK', (AnswerFull /\ at = "permitFull") \/ Take
  PROVE  GrantIsSafe' /\ ForksWithheld' /\ ExclusivePermission'
<1>0. TypeOK /\ seat \in Phils
  BY DEF IInv, TypeOK
<1>1. UNCHANGED << pc, permission >> /\ at' # "permit"
  BY DEF AnswerFull, Take, NextSeat
<1>2. ASSUME NEW k \in Phils PROVE wtp'[k].data = wtp[k].data
  BY <1>0 DEF TypeOK, Pipe, AnswerFull, Take
<1>3. ASSUME NEW k \in Phils PROVE Permitted(k)' = Permitted(k) /\ Gone(k)' = Gone(k)
  BY <1>1, <1>2 DEF Permitted, Gone
<1>4. GrantIsSafe'
  BY <1>1 DEF GrantIsSafe
<1>5. ForksWithheld'
  <2>1. SUFFICES ASSUME NEW i \in Phils, Permitted(i), NEW m \in Phils, SharesFork(i, m),
                        NEW f \in Forks(i) \cap Forks(m)
                 PROVE  forks'[f] = 0 \/ Gone(m) \/ (seat' = i /\ at' \in {"permitFull", "take"})
    BY <1>3 DEF ForksWithheld, SharesFork, Forks, Left, Right
  <2>2. forks[f] = 0 \/ Gone(m) \/ (seat = i /\ at \in {"permitFull", "take"})
    BY <2>1 DEF IInv, ForksWithheld
  <2>3. CASE AnswerFull /\ at = "permitFull"
    BY <2>2, <2>3 DEF AnswerFull
  <2>4. CASE Take
    <3>1. f \in Phils
      BY <2>1, ForksInTable
    <3>2. forks'[f] = IF f \in Forks(seat) THEN 0 ELSE forks[f]
      BY <1>0, <2>4, <3>1, SetForksValue DEF Take
    <3> QED
      BY <2>1, <2>2, <3>2
  <2> QED
    BY <2>3, <2>4
<1>6. ExclusivePermission'
  BY <1>3 DEF IInv, ExclusivePermission, SharesFork, Forks, Left, Right
<1> QED
  BY <1>4, <1>5, <1>6

LEMMA IInvStep == IInv /\ [Next]_vars => IInv'
<1> SUFFICES ASSUME IInv, [Next]_vars PROVE IInv'
  OBVIOUS
<1>0. TypeOK'
  BY TypeStep DEF IInv
<1>1. CASE Waiter
  <2>1. GrantIsSafe' /\ ForksWithheld' /\ ExclusivePermission'
    BY <1>0, <1>1, WaiterMovesOn, WaiterDecides, WaiterAnswers, WaiterTakes
    DEF Waiter, AnswerFull
  <2> QED
    BY <1>0, <1>1, <2>1, WaiterFinish DEF IInv
<1>2. CASE \E i \in Phils : Phil(i) \/ Kill(i)
  BY <1>0, <1>2, PhilStep DEF IInv
<1>3. CASE UNCHANGED vars
  BY <1>0, <1>3 DEF vars, waiter, IInv, FinishIsLast, GrantIsSafe, ForksWithheld,
    ExclusivePermission, Permitted, Gone, SharesFork, Forks, Left, Right
<1> QED
  BY <1>1, <1>2, <1>3 DEF Next

LEMMA IInvHolds == Spec => []IInv
<1>1. Init => IInv
  BY TypeInit, InvInit DEF IInv
<1> QED
  BY <1>1, IInvStep, PTL DEF Spec

\* Two philosophers who share a fork are never both permitted to eat, however the
\* calls on the pipes interleave and whoever is killed.
THEOREM Exclusive == Spec => []ExclusivePermission
BY IInvHolds, PTL DEF IInv

\* A fork that somebody permitted needs is marked, about to be marked, or of no
\* use to the other philosopher who shares it.
THEOREM Withheld == Spec => []ForksWithheld
BY IInvHolds, PTL DEF IInv

-----------------------------------------------------------------------------
(* Dining implements DiningTable.                                            *)

LEMMA InitRefines == Init => Table!Init
BY DEF Init, Table!Init, Status, Gone

\* Status after a step that moves nobody but philosopher i, to a status v.
LEMMA StatusStep ==
  ASSUME TypeOK, NEW i \in Phils, NEW v,
         \A k \in Phils : k # i => pc'[k] = pc[k],
         v = IF pc'[i] \in {"finishFull", "done", "killed"} THEN "left"
             ELSE IF pc'[i] = "eating" THEN "eating" ELSE "hungry"
  PROVE  Status' = [Status EXCEPT ![i] = v]
<1>1. ASSUME NEW k \in Phils PROVE Status'[k] = IF k = i THEN v ELSE Status[k]
  BY DEF Status, Gone
<1>2. Status' = [k \in Phils |-> Status'[k]]
  BY DEF Status
<1>3. Status = [k \in Phils |-> Status[k]]
  BY DEF Status
<1> QED
  BY <1>1, <1>2, <1>3, Zenon

LEMMA StepRefines ==
  ASSUME IInv, [Next]_vars
  PROVE  [Table!Next]_Status
<1>0. TypeOK
  BY DEF IInv
<1>1. CASE Waiter \/ UNCHANGED vars
  BY <1>1, WaiterLeavesPhils DEF vars, Status, Gone
<1>2. ASSUME NEW i \in Phils, Phil(i) \/ Kill(i)
      PROVE  [Table!Next]_Status
  <2>0. \A k \in Phils : k # i => pc'[k] = pc[k]
    BY <1>0, <1>2 DEF TypeOK, Phil, Kill, Ask, Request, RequestFull, Look, ReadPermission,
                      ClearPermission, Finish, FinishFull
  <2>1. Status[i] = IF Gone(i) THEN "left" ELSE IF pc[i] = "eating" THEN "eating" ELSE "hungry"
    BY DEF Status
  <2>2. ASSUME pc[i] # "eating", ~Gone(i), pc'[i] # "eating",
               pc'[i] \notin {"finishFull", "done", "killed"}
        PROVE  Status' = Status
    <3>1. Status' = [Status EXCEPT ![i] = "hungry"]
      BY <1>0, <2>0, <2>2, StatusStep
    <3> QED
      BY <2>1, <2>2, <3>1 DEF Status
  <2>3. CASE Ask(i) \/ Request(i) \/ RequestFull(i) \/ Look(i) \/ ReadPermission(i)
    BY <1>0, <2>2, <2>3
    DEF TypeOK, Gone, Ask, Request, RequestFull, Look, ReadPermission
  <2>4. CASE ClearPermission(i) /\ permission[i] # "okay"
    BY <1>0, <2>2, <2>4 DEF TypeOK, Gone, ClearPermission
  <2>5. CASE ClearPermission(i) /\ permission[i] = "okay"
    <3>1. pc[i] = "clearPermission" /\ pc'[i] = "eating"
      BY <1>0, <2>5 DEF TypeOK, ClearPermission
    <3>2. Status' = [Status EXCEPT ![i] = "eating"]
      BY <1>0, <2>0, <3>1, StatusStep
    <3>3. Permitted(i) /\ Status[i] = "hungry"
      BY <2>1, <2>5, <3>1 DEF Permitted, Gone
    <3>4. ASSUME NEW m \in Phils, SharesFork(i, m) PROVE Status[m] # "eating"
      <4>1. ~Permitted(m)
        BY <3>3, <3>4 DEF IInv, ExclusivePermission
      <4> QED
        BY <4>1 DEF Permitted, Status
    <3> QED
      BY <3>2, <3>3, <3>4 DEF Table!Next, Table!Eat
  <2>6. CASE Finish(i) \/ (Kill(i) /\ ~Gone(i))
    <3>1. ~Gone(i) /\ pc'[i] \in {"finishFull", "killed"}
      BY <1>0, <2>6 DEF TypeOK, Finish, Kill, Gone
    <3>2. Status' = [Status EXCEPT ![i] = "left"]
      BY <1>0, <2>0, <3>1, StatusStep
    <3> QED
      BY <2>1, <3>1, <3>2 DEF Table!Next, Table!Leave
  <2>7. CASE FinishFull(i) \/ (Kill(i) /\ Gone(i))
    <3>1. Gone(i) /\ pc'[i] \in {"done", "killed"}
      BY <1>0, <2>7 DEF TypeOK, FinishFull, Kill, Gone
    <3>2. Status' = [Status EXCEPT ![i] = "left"]
      BY <1>0, <2>0, <3>1, StatusStep
    <3> QED
      BY <2>1, <3>1, <3>2 DEF Status
  <2> QED
    BY <1>2, <2>3, <2>4, <2>5, <2>6, <2>7 DEF Phil
<1> QED
  BY <1>1, <1>2 DEF Next

\* Seen from the table: everybody eats at most once, and nobody begins to eat
\* while one who shares a fork with him eats.
THEOREM KeepsTheTable == Spec => KeepsTable
<1>1. IInv /\ [Next]_vars => [Table!Next]_Status
  BY StepRefines
<1> QED
  BY <1>1, InitRefines, IInvHolds, PTL DEF Spec, KeepsTable, Table!Spec
=============================================================================
