----------------------------- MODULE BlockStore -----------------------------
(***************************************************************************)
(* What the disk driver promises its caller: an array of blocks, and calls *)
(* that either succeed as one step or report a failure.  A write that      *)
(* failed may have stored part of its data, and a read may ask for the     *)
(* first bytes of a block only.  Disk implements it with a driver, a       *)
(* server and two streams of characters between them.                      *)
(***************************************************************************)
EXTENDS Integers, Sequences

CONSTANTS
  BLOCK_NUM, BLOCK_LEN,   \* blocks of the disk, bytes of a block
  NoCall,                 \* no call is pending
  FAILURE                 \* the answer of a call that failed

VARIABLES
  blocks,                 \* what is stored
  pending,                \* the call that is not yet answered, or NoCall
  reply                   \* r and x: what the last call returned

vars == << blocks, pending, reply >>

\* Data x over block b, cut off after k bytes.
Stored(b, x, k) == [j \in 1 .. BLOCK_LEN |-> IF j <= k THEN x[j] ELSE b[j]]

Valid(c) == /\ c.op \in {"wr", "rd"} => c.a < BLOCK_NUM
            /\ c.op = "wr" => Len(c.x) = BLOCK_LEN
            /\ c.op = "rd" => Len(c.x) <= BLOCK_LEN

Init == pending = NoCall

Request == /\ pending = NoCall
           /\ pending' # NoCall
           /\ UNCHANGED << blocks, reply >>

\* Some or all of the data of a write reaches its block, and no other block.
Store == /\ pending.op = "wr" /\ Valid(pending)
         /\ \E k \in 0 .. BLOCK_LEN :
              blocks' = [blocks EXCEPT ![pending.a] = Stored(@, pending.x, k)]
         /\ UNCHANGED << pending, reply >>

Succeed ==
  /\ pending # NoCall /\ Valid(pending)
  /\ reply' = CASE pending.op = "num" -> [r |-> BLOCK_NUM, x |-> << >>]
                [] pending.op = "len" -> [r |-> BLOCK_LEN, x |-> << >>]
                [] pending.op = "wr"  -> [r |-> 0, x |-> << >>]
                [] pending.op = "rd"  -> [r |-> 0, x |-> SubSeq(blocks[pending.a], 1, Len(pending.x))]
  /\ pending.op = "wr" => blocks[pending.a] = pending.x
  /\ pending' = NoCall
  /\ UNCHANGED blocks

\* The size of the disk is always known; a read or a write may fail.
Fail == /\ pending # NoCall /\ pending.op \in {"wr", "rd"}
        /\ reply' = [r |-> FAILURE, x |-> << >>]
        /\ pending' = NoCall
        /\ UNCHANGED blocks

Next == Request \/ Store \/ Succeed \/ Fail

Spec == Init /\ [][Next]_vars
=============================================================================
