-------------------------------- MODULE Disk --------------------------------
(***************************************************************************)
(* The disk: the driver of device/disk.c, the server device/disk.py and    *)
(* the two streams between them (UART2, which QEMU connects to the socket  *)
(* of the server).  The driver writes a line and reads the answer one      *)
(* character at a time, with no timeout; the server reads a line, serves   *)
(* it and answers.  Nothing but the number of characters each side expects *)
(* keeps the two in step.  Both ends copy with blocking calls, so a whole  *)
(* line written, and a whole answer read, is one action.                   *)
(***************************************************************************)
EXTENDS Integers, Sequences

CONSTANTS
  BLOCK_NUM, BLOCK_LEN,   \* blocks of the disk, bytes of a block
  Span,                   \* how many addresses a uint32_t can hold
  Bytes,                  \* the bytes a caller writes
  WriteLens, ReadLens     \* the lengths of the data a caller writes, of his buffers

ASSUME DiskAssumption ==
  /\ BLOCK_NUM \in Nat \ {0} /\ BLOCK_LEN \in Nat \ {0}
  /\ Span \in Nat /\ BLOCK_NUM <= Span \div 2
  /\ Bytes \subseteq 0 .. 255 /\ 0 \in Bytes
  /\ WriteLens \subseteq Nat /\ ReadLens \subseteq Nat

\* struct.pack( '<l', ... ) of a larger number is an exception.
ASSUME PackAssumption == BLOCK_NUM <= 2147483647 /\ BLOCK_LEN <= 2147483647

VARIABLES
  disk,                   \* the file of the server, by block
  up,                     \* lines on their way to the server
  down,                   \* characters on their way to the driver
  server,                 \* "serving", or "ended" by an exception
  call, i,                \* the driver: the call it executes, i of its loop
  at,                     \* the driver: "idle", about to "send", or to "receive"
  reply,                  \* what the last call returned
  misread                 \* history: a read of more or less than a block succeeded

driver == << call, i, at, reply, misread >>
vars == << disk, up, down, server, driver >>

-----------------------------------------------------------------------------
\* A hexadecimal digit is its value; upper and lower case are both accepted.
Space == 16
EOL == 17

xtoi(c) == IF c <= 15 THEN c ELSE -1

\* The characters of the bytes x.
hexlify(x) == [k \in 1 .. 2 * Len(x) |-> IF k % 2 = 1 THEN x[(k + 1) \div 2] \div 16
                                                     ELSE x[k \div 2] % 16]

\* The byte that PL011_geth() makes of the characters k and k + 1 of s.
geth(s, k) == IF xtoi(s[k + 1]) = -1 THEN 255 ELSE ((xtoi(s[k]) * 16) % 256) + xtoi(s[k + 1])

data_geth(s, k, n) == [j \in 1 .. n |-> geth(s, k + 2 * (j - 1))]

\* struct.pack( '<l', v ), and what the driver puts together from byte k on.
pack(v) == << v % 256, (v \div 256) % 256, (v \div 65536) % 256, (v \div 16777216) % 256 >>
uint32(x, k) == x[k] + 256 * x[k + 1] + 65536 * x[k + 2] + 16777216 * x[k + 3]

\* struct.unpack( '<l', ... ) of the address that addr_puth() wrote.
address(a) == IF a >= Span \div 2 THEN a - Span ELSE a

-----------------------------------------------------------------------------
DISK_RETRY == 3
DISK_SUCCESS == 0
DISK_FAILURE == -1
ACK_OKAY == << 0, 0 >>
ACK_FAIL == << 0, 1 >>

NoCall == [op |-> "none", a |-> 0, x |-> << >>]
Block == [1 .. BLOCK_LEN -> Bytes]
Data == UNION { [1 .. n -> Bytes] : n \in WriteLens }

\* disk_get_block_num(), disk_get_block_len(), disk_wr( a, x, n ), disk_rd( a, x, n ).
\* The x of a read is the buffer for n bytes, which need not be BLOCK_LEN.
Calls == [op : {"num", "len"}, a : {0}, x : {<< >>}]
           \cup [op : {"wr"}, a : 0 .. Span - 1, x : Data]
           \cup [op : {"rd"}, a : 0 .. Span - 1, x : {[j \in 1 .. n |-> 0] : n \in ReadLens}]

Init ==
  /\ disk = [b \in 0 .. BLOCK_NUM - 1 |-> [j \in 1 .. BLOCK_LEN |-> 0]]
  /\ up = << >> /\ down = << >>
  /\ server = "serving"
  /\ call = NoCall /\ i = 0 /\ at = "idle"
  /\ reply = [r |-> DISK_SUCCESS, x |-> << >>]
  /\ misread = FALSE

-----------------------------------------------------------------------------
(* The driver.                                                               *)

Call == /\ at = "idle"
        /\ call' \in Calls
        /\ i' = 0 /\ at' = "send"
        /\ UNCHANGED << disk, up, down, server, reply, misread >>

Send == /\ at = "send"
        /\ up' = Append(up, call)
        /\ at' = "receive"
        /\ UNCHANGED << disk, down, server, call, i, reply, misread >>

Return(r, x) == /\ reply' = [r |-> r, x |-> x]
                /\ call' = NoCall /\ i' = 0 /\ at' = "idle"

\* The first n characters of what came from the server.
Consume(n) == Len(down) >= n /\ down' = SubSeq(down, n + 1, Len(down))

\* The answer to disk_wr(): a code and an EOL.
Written == /\ call.op = "wr" /\ geth(down, 1) = 0
           /\ Consume(3)
           /\ Return(DISK_SUCCESS, << >>)

\* The answer to the others: a code, a separator, n bytes and an EOL.
Answered(n) ==
  /\ geth(down, 1) = 0
  /\ Consume(3 + 2 * n + 1)
  /\ LET x == data_geth(down, 4, n)
     IN CASE call.op = "num" -> Return(uint32(x, 1), << >>)
          [] call.op = "len" -> Return(uint32(x, 5), << >>)
          [] call.op = "rd"  -> Return(DISK_SUCCESS, x)

\* Faulty: one try too many.
Refused_OneMore ==
  /\ geth(down, 1) # 0
  /\ Consume(3)
  /\ IF i < DISK_RETRY THEN i' = i + 1 /\ at' = "send" /\ UNCHANGED << call, reply >>
                       ELSE Return(DISK_FAILURE, << >>)

\* Faulty: the EOL of a failure is not read.
Refused_KeepsEOL ==
  /\ geth(down, 1) # 0
  /\ Consume(2)
  /\ IF i + 1 < DISK_RETRY THEN i' = i + 1 /\ at' = "send" /\ UNCHANGED << call, reply >>
                           ELSE Return(DISK_FAILURE, << >>)

\* Faulty: the request is not sent again, the next answer is waited for.
Refused_NoResend ==
  /\ geth(down, 1) # 0
  /\ Consume(3)
  /\ IF i + 1 < DISK_RETRY THEN i' = i + 1 /\ UNCHANGED << call, reply, at >>
                           ELSE Return(DISK_FAILURE, << >>)

\* Any other code, and an EOL: the request is sent again, DISK_RETRY times in all.
Refused ==
  /\ geth(down, 1) # 0
  /\ Consume(3)
  /\ IF i + 1 < DISK_RETRY THEN i' = i + 1 /\ at' = "send" /\ UNCHANGED << call, reply >>
                           ELSE Return(DISK_FAILURE, << >>)

Receive ==
  /\ at = "receive" /\ Len(down) >= 2
  /\ \/ Written /\ UNCHANGED misread
     \/ call.op \in {"num", "len"} /\ Answered(8) /\ UNCHANGED misread
     \/ /\ call.op = "rd" /\ Answered(Len(call.x))
        /\ misread' = (misread \/ Len(call.x) # BLOCK_LEN)
     \/ Refused /\ UNCHANGED misread
  /\ UNCHANGED << disk, up, server >>

-----------------------------------------------------------------------------
(* The server.                                                               *)

req == Head(up)

Ack(s) == down' = down \o s \o << EOL >> /\ server' = server

conf == /\ req.op \in {"num", "len"}
        /\ Ack(ACK_OKAY \o << Space >> \o hexlify(pack(BLOCK_NUM) \o pack(BLOCK_LEN)))
        /\ disk' = disk

\* What wr() and rd() refuse: a block the disk does not have, or data that is
\* not a block.
Invalid == /\ req.op \in {"wr", "rd"}
           /\ address(req.a) >= BLOCK_NUM \/ (req.op = "wr" /\ Len(req.x) # BLOCK_LEN)

\* A line without data has no req[ 2 ].
Malformed == req.op = "wr" /\ req.x = << >>

\* lseek() takes no negative offset.
Negative == req.op \in {"wr", "rd"} /\ address(req.a) < 0

Refuse == ~Malformed /\ Invalid /\ Ack(ACK_FAIL) /\ disk' = disk

\* Nobody catches the exception.
Raise == /\ Malformed \/ (~Invalid /\ Negative)
         /\ server' = "ended"
         /\ UNCHANGED << disk, down >>

Accepted(op) == req.op = op /\ ~Malformed /\ ~Invalid /\ ~Negative

\* Faulty: nobody looks at how many bytes os.write() wrote.
wr_Unchecked ==
  /\ Accepted("wr")
  /\ \E n \in 0 .. BLOCK_LEN :
       /\ disk' = [disk EXCEPT ![req.a] =
                     [j \in 1 .. BLOCK_LEN |-> IF j <= n THEN req.x[j] ELSE @[j]]]
       /\ Ack(ACK_OKAY)

\* os.write() may write n bytes only, the first n.
wr == /\ Accepted("wr")
      /\ \E n \in 0 .. BLOCK_LEN :
           /\ disk' = [disk EXCEPT ![req.a] =
                         [j \in 1 .. BLOCK_LEN |-> IF j <= n THEN req.x[j] ELSE @[j]]]
           /\ Ack(IF n = BLOCK_LEN THEN ACK_OKAY ELSE ACK_FAIL)

\* os.read() may come back with less than a block.
rd == /\ Accepted("rd")
      /\ \/ Ack(ACK_OKAY \o << Space >> \o hexlify(disk[req.a]))
         \/ Ack(ACK_FAIL)
      /\ disk' = disk

Serve ==
  /\ server = "serving" /\ up # << >>
  /\ conf \/ wr \/ rd \/ Refuse \/ Raise
  /\ up' = Tail(up)
  /\ UNCHANGED driver

Next == Call \/ Send \/ Receive \/ Serve

Spec == Init /\ [][Next]_vars

\* The kernel runs on, and so does the server until it ends.
FairSpec == Spec /\ WF_vars(Send) /\ WF_vars(Receive) /\ WF_vars(Serve)

-----------------------------------------------------------------------------
Chars == 0 .. 17

TypeOK ==
  /\ disk \in [0 .. BLOCK_NUM - 1 -> Block]
  /\ up \in Seq(Calls) /\ down \in Seq(Chars)
  /\ server \in {"serving", "ended"}
  /\ call \in Calls \cup {NoCall} /\ i \in 0 .. DISK_RETRY - 1
  /\ at \in {"idle", "send", "receive"}
  /\ reply \in [r : Int, x : Seq(0 .. 255)]
  /\ misread \in BOOLEAN

\* How many characters the driver reads for a refusal, and for a success.
AnswerLens == {3, CASE call.op \in {"num", "len"} -> 3 + 2 * 8 + 1
                    [] call.op = "rd" -> 3 + 2 * BLOCK_LEN + 1
                    [] call.op = "wr" -> 3}

\* However many requests were refused and repeated, the two sides are in step:
\* a request is sent only when nothing is left of an earlier one, and what the
\* server writes for it is, to the character, what a call for a block reads.  That is over
\* only when a read with a buffer of another size than a block has succeeded.
InStep ==
  ~misread =>
    /\ at # "receive" => up = << >> /\ down = << >>
    /\ at = "receive" => \/ up = << call >> /\ down = << >>
                         \/ up = << >> /\ down = << >> /\ server = "ended"
                         \/ up = << >> /\ Len(down) \in AnswerLens /\ server = "serving"

\* A constraint for the runs: once the ends are out of step, what a call reads is
\* not followed further.
NoMisread == ~misread

\* The driver and the server make a disk of what they have: a call that succeeds
\* did what it was asked to, on the block it was asked for, as one step.
Store == INSTANCE BlockStore WITH
  blocks <- disk, pending <- call, FAILURE <- DISK_FAILURE

KeepsBlocks == Store!Spec

\* Every call returns, refused or not, unless the server ended under it, or a read
\* waits for more bytes than a block has.
CallReturns ==
  at # "idle" ~> at = "idle" \/ server = "ended"
                  \/ (call.op = "rd" /\ Len(call.x) > BLOCK_LEN)

-----------------------------------------------------------------------------
(* What a comment in the code says, and the code does not do.                *)

\* disk.py of wr and rd: "if the address provided is invalid the request fails".
InvalidFails ==
  call.op \in {"wr", "rd"} /\ call.a >= BLOCK_NUM
    ~> at = "idle" /\ reply.r = DISK_FAILURE
=============================================================================
