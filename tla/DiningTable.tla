---------------------------- MODULE DiningTable ----------------------------
(***************************************************************************)
(* What the waiter promises the philosophers at his table: everybody eats  *)
(* at most once, and never while one who shares a fork with him eats.      *)
(* Dining implements it with two pipes per philosopher.                    *)
(***************************************************************************)
CONSTANTS
  Diners,                \* the philosophers
  SharesFork(_, _)       \* the pairs that need the same fork

VARIABLE status          \* what each philosopher is doing

Init == status = [i \in Diners |-> "hungry"]

\* Philosopher i begins to eat.
Eat(i) == /\ status[i] = "hungry"
          /\ \A m \in Diners : SharesFork(i, m) => status[m] # "eating"
          /\ status' = [status EXCEPT ![i] = "eating"]

\* Philosopher i leaves: he has eaten, or he was killed.
Leave(i) == /\ status[i] # "left"
            /\ status' = [status EXCEPT ![i] = "left"]

Next == \E i \in Diners : Eat(i) \/ Leave(i)

Spec == Init /\ [][Next]_status
=============================================================================
