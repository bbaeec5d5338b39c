----------------------------- MODULE DiskProofs -----------------------------
(***************************************************************************)
(* For a disk of any size, callers that write and read any lengths, and a  *)
(* server that refuses or fails whenever it likes: driver and server stay  *)
(* in step, and a call that succeeds did what it was asked to.             *)
(***************************************************************************)
EXTENDS Disk, TLAPS, SequenceTheorems

(* Sequences of a known length.                                              *)

LEMMA FunctionIsSeq ==
  ASSUME NEW S, NEW n \in Nat, NEW f \in [1 .. n -> S]
  PROVE  f \in Seq(S) /\ Len(f) = n
<1>1. f \in Seq(S)
  BY SeqDef
<1>2. Len(f) \in Nat /\ DOMAIN f = 1 .. Len(f)
  BY <1>1, LenProperties
<1>3. DOMAIN f = 1 .. n
  OBVIOUS
<1> QED
  BY <1>1, <1>2, <1>3

(* Bytes and characters.                                                     *)

Byte == 0 .. 255

LEMMA HexDigits ==
  ASSUME NEW b \in Byte
  PROVE  /\ b \div 16 \in 0 .. 15 /\ b % 16 \in 0 .. 15
         /\ (((b \div 16) * 16) % 256) + (b % 16) = b
BY SMT DEF Byte

LEMMA XtoiDigit == \A c \in 0 .. 15 : xtoi(c) = c /\ c # -1
BY DEF xtoi

\* Byte j becomes the characters 2 * j - 1 and 2 * j.
LEMMA HexlifyValue ==
  ASSUME NEW x \in Seq(Byte)
  PROVE  /\ hexlify(x) \in Seq(Chars) /\ Len(hexlify(x)) = 2 * Len(x)
         /\ \A j \in 1 .. Len(x) : /\ hexlify(x)[2 * j - 1] = x[j] \div 16
                                   /\ hexlify(x)[2 * j] = x[j] % 16
<1> DEFINE n == Len(x)
<1>1. n \in Nat /\ \A j \in 1 .. n : x[j] \in Byte
  BY ElementOfSeq, LenProperties
<1>2. hexlify(x) = [k \in 1 .. 2 * n |-> IF k % 2 = 1 THEN x[(k + 1) \div 2] \div 16
                                                     ELSE x[k \div 2] % 16]
  BY DEF hexlify
<1> HIDE DEF n
<1>3. ASSUME NEW k \in 1 .. 2 * n
      PROVE  (IF k % 2 = 1 THEN x[(k + 1) \div 2] \div 16 ELSE x[k \div 2] % 16) \in Chars
  <2>1. CASE k % 2 = 1
    <3>1. (k + 1) \div 2 \in 1 .. n
      BY <1>1, <2>1
    <3> QED
      BY <1>1, <2>1, <3>1, HexDigits DEF Chars
  <2>2. CASE k % 2 # 1
    <3>1. k \div 2 \in 1 .. n
      BY <1>1, <2>2
    <3> QED
      BY <1>1, <2>2, <3>1, HexDigits DEF Chars
  <2> QED
    BY <2>1, <2>2
<1>4. hexlify(x) \in [1 .. 2 * n -> Chars]
  BY <1>2, <1>3
<1>5. hexlify(x) \in Seq(Chars) /\ Len(hexlify(x)) = 2 * n
  BY <1>1, <1>4, FunctionIsSeq
<1>6. ASSUME NEW j \in 1 .. n
      PROVE  /\ hexlify(x)[2 * j - 1] = x[j] \div 16
             /\ hexlify(x)[2 * j] = x[j] % 16
  <2>1. /\ 2 * j - 1 \in 1 .. 2 * n /\ 2 * j \in 1 .. 2 * n
        /\ (2 * j - 1) % 2 = 1 /\ (2 * j) % 2 # 1
        /\ ((2 * j - 1) + 1) \div 2 = j /\ (2 * j) \div 2 = j
    BY <1>1
  <2> QED
    BY <1>2, <2>1
<1> QED
  BY <1>5, <1>6 DEF n

\* What the driver makes of any two characters is a byte.
LEMMA GethByte ==
  ASSUME NEW s, NEW k, s[k] \in Chars, s[k + 1] \in Chars
  PROVE  geth(s, k) \in Byte
BY DEF geth, xtoi, Chars, Byte

LEMMA DataBytes ==
  ASSUME NEW s \in Seq(Chars), NEW k \in Nat \ {0}, NEW n \in Nat, Len(s) >= k + 2 * n - 1
  PROVE  data_geth(s, k, n) \in Seq(Byte) /\ Len(data_geth(s, k, n)) = n
<1>1. ASSUME NEW j \in 1 .. n PROVE geth(s, k + 2 * (j - 1)) \in Byte
  <2>1. k + 2 * (j - 1) \in 1 .. Len(s) /\ k + 2 * (j - 1) + 1 \in 1 .. Len(s)
    BY LenProperties
  <2> QED
    BY <2>1, ElementOfSeq, GethByte
<1>2. data_geth(s, k, n) \in [1 .. n -> Byte]
  BY <1>1 DEF data_geth
<1> QED
  BY <1>2, FunctionIsSeq

\* The driver gets the bytes back that the server made characters of.
LEMMA GethHexlify ==
  ASSUME NEW x \in Seq(Byte), NEW s \in Seq(Chars), NEW n \in 0 .. Len(x),
         Len(s) >= 3 + 2 * Len(x),
         \A k \in 1 .. 2 * Len(x) : s[k + 3] = hexlify(x)[k]
  PROVE  data_geth(s, 4, n) = SubSeq(x, 1, n)
<1>0. Len(x) \in Nat /\ n \in Nat /\ \A j \in 1 .. Len(x) : x[j] \in Byte
  BY LenProperties, ElementOfSeq
<1>1. ASSUME NEW j \in 1 .. n PROVE geth(s, 4 + 2 * (j - 1)) = x[j]
  <2>1. j \in 1 .. Len(x) /\ 2 * j - 1 \in 1 .. 2 * Len(x) /\ 2 * j \in 1 .. 2 * Len(x)
    BY <1>0
  <2>2. s[(2 * j - 1) + 3] = x[j] \div 16 /\ s[2 * j + 3] = x[j] % 16
    BY <2>1, HexlifyValue
  <2>3. (2 * j - 1) + 3 = 4 + 2 * (j - 1) /\ 2 * j + 3 = (4 + 2 * (j - 1)) + 1
    BY <1>0
  <2>4. x[j] \in Byte /\ x[j] \div 16 \in 0 .. 15 /\ x[j] % 16 \in 0 .. 15
        /\ (((x[j] \div 16) * 16) % 256) + (x[j] % 16) = x[j]
    BY <1>0, <2>1, HexDigits
  <2> DEFINE k == 4 + 2 * (j - 1)
  <2>5. s[k] = x[j] \div 16 /\ s[k + 1] = x[j] % 16
    BY <2>2, <2>3
  <2> HIDE DEF k
  <2>6. xtoi(s[k]) = x[j] \div 16 /\ xtoi(s[k + 1]) = x[j] % 16 /\ x[j] % 16 # -1
    BY <2>4, <2>5, XtoiDigit
  <2>7. geth(s, k) = x[j]
    BY <2>4, <2>6 DEF geth
  <2> QED
    BY <2>7 DEF k
<1>2. data_geth(s, 4, n) = [j \in 1 .. n |-> x[j]]
  BY <1>1 DEF data_geth
<1>3. SubSeq(x, 1, n) \in Seq(Byte) /\ Len(SubSeq(x, 1, n)) = n
      /\ \A j \in 1 .. n : SubSeq(x, 1, n)[j] = x[j]
  BY <1>0, SubSeqProperties
<1>4. data_geth(s, 4, n) \in Seq(Byte) /\ Len(data_geth(s, 4, n)) = n
  <2>1. [j \in 1 .. n |-> x[j]] \in [1 .. n -> Byte]
    BY <1>0
  <2> QED
    BY <1>0, <1>2, <2>1, FunctionIsSeq
<1>5. \A j \in 1 .. n : data_geth(s, 4, n)[j] = SubSeq(x, 1, n)[j]
  BY <1>2, <1>3
<1> QED
  BY <1>3, <1>4, <1>5, SeqEqual

\* Four bytes of a number, lowest first, and the number they are.
Word == {v \in Nat : v <= 2147483647}

LEMMA BytesOfWord ==
  ASSUME NEW v \in Word
  PROVE  /\ v % 256 \in Byte /\ (v \div 256) % 256 \in Byte
         /\ (v \div 65536) % 256 \in Byte /\ (v \div 16777216) % 256 \in Byte
         /\ (v % 256) + 256 * ((v \div 256) % 256) + 65536 * ((v \div 65536) % 256)
              + 16777216 * ((v \div 16777216) % 256) = v
<1> DEFINE q == v \div 256
<1> DEFINE r == v \div 65536
<1> DEFINE t == v \div 16777216
<1>1. v \in Nat /\ q \in Nat /\ r \in Nat /\ t \in 0 .. 127
  BY SMT DEF Word
<1>2. r = q \div 256
  BY SMT DEF Word
<1>3. t = r \div 256
  BY SMT DEF Word
<1>4. v = 256 * q + (v % 256) /\ v % 256 \in Byte
  BY SMT DEF Word, Byte
<1> HIDE DEF q, r, t
<1>5. q = 256 * r + (q % 256) /\ q % 256 \in Byte
  BY <1>1, <1>2, SMT DEF Byte
<1>6. r = 256 * t + (r % 256) /\ r % 256 \in Byte
  BY <1>1, <1>3, SMT DEF Byte
<1>7. t % 256 = t /\ t \in Byte
  BY <1>1, SMT DEF Byte
<1>8. (v % 256) + 256 * (q % 256) + 65536 * (r % 256) + 16777216 * (t % 256) = v
  BY <1>1, <1>4, <1>5, <1>6, <1>7, SMT DEF Byte
<1> QED
  BY <1>4, <1>5, <1>6, <1>7, <1>8, SMT DEF q, r, t

LEMMA PackValue ==
  ASSUME NEW v \in Word
  PROVE  pack(v) \in Seq(Byte) /\ Len(pack(v)) = 4 /\ uint32(pack(v), 1) = v
<1>1. \E a, b, c, d \in Byte : pack(v) = << a, b, c, d >>
  BY BytesOfWord, SMT DEF pack
<1>2. pack(v) \in Seq(Byte) /\ Len(pack(v)) = 4
  BY <1>1
<1>3. uint32(pack(v), 1) = v
  BY BytesOfWord, SMT DEF pack, uint32
<1> QED
  BY <1>2, <1>3

\* The number depends on its four bytes only.
LEMMA Uint32Of ==
  ASSUME NEW x, NEW y, NEW k \in Nat,
         x[k] = y[1], x[k + 1] = y[2], x[k + 2] = y[3], x[k + 3] = y[4]
  PROVE  uint32(x, k) = uint32(y, 1)
BY SMT DEF uint32

LEMMA PackTwo ==
  ASSUME NEW v \in Word, NEW w \in Word
  PROVE  /\ pack(v) \o pack(w) \in Seq(Byte) /\ Len(pack(v) \o pack(w)) = 8
         /\ uint32(pack(v) \o pack(w), 1) = v
         /\ uint32(pack(v) \o pack(w), 5) = w
<1> DEFINE x == pack(v) \o pack(w)
<1>1. pack(v) \in Seq(Byte) /\ Len(pack(v)) = 4 /\ pack(w) \in Seq(Byte) /\ Len(pack(w)) = 4
  BY PackValue
<1>2. x \in Seq(Byte) /\ Len(x) = 8
      /\ \A k \in 1 .. 8 : x[k] = IF k <= 4 THEN pack(v)[k] ELSE pack(w)[k - 4]
  <2>1. /\ x \in Seq(Byte)
        /\ Len(x) = Len(pack(v)) + Len(pack(w))
        /\ \A k \in 1 .. Len(pack(v)) + Len(pack(w)) :
             x[k] = IF k <= Len(pack(v)) THEN pack(v)[k] ELSE pack(w)[k - Len(pack(v))]
    BY <1>1, ConcatProperties
  <2> QED
    BY <1>1, <2>1
<1> HIDE DEF x
<1>3. x[1] = pack(v)[1] /\ x[1 + 1] = pack(v)[2] /\ x[1 + 2] = pack(v)[3] /\ x[1 + 3] = pack(v)[4]
  BY <1>2
<1>4. x[5] = pack(w)[1] /\ x[5 + 1] = pack(w)[2] /\ x[5 + 2] = pack(w)[3] /\ x[5 + 3] = pack(w)[4]
  BY <1>2
<1>5. uint32(x, 1) = v
  BY <1>3, PackValue, Uint32Of
<1>6. uint32(x, 5) = w
  BY <1>4, PackValue, Uint32Of
<1> QED
  BY <1>2, <1>5, <1>6 DEF x

\* The characters of a successful answer with data.
Okay(x) == << >> \o (ACK_OKAY \o << Space >> \o hexlify(x)) \o << EOL >>

LEMMA OkayValue ==
  ASSUME NEW x \in Seq(Byte)
  PROVE  /\ Okay(x) \in Seq(Chars) /\ Len(Okay(x)) = 4 + 2 * Len(x)
         /\ geth(Okay(x), 1) = 0
         /\ \A k \in 1 .. 2 * Len(x) : Okay(x)[k + 3] = hexlify(x)[k]
<1> DEFINE h == hexlify(x)
<1> DEFINE a == ACK_OKAY \o << Space >>
<1>1. h \in Seq(Chars) /\ Len(h) = 2 * Len(x) /\ Len(x) \in Nat
  BY HexlifyValue, LenProperties
<1>2. a \in Seq(Chars) /\ Len(a) = 3 /\ a[1] = 0 /\ a[2] = 0
  <2>1. ACK_OKAY \in Seq(Chars) /\ Len(ACK_OKAY) = 2 /\ ACK_OKAY[1] = 0 /\ ACK_OKAY[2] = 0
    BY DEF ACK_OKAY, Chars
  <2>2. << Space >> \in Seq(Chars) /\ Len(<< Space >>) = 1
    BY DEF Space, Chars
  <2>3. /\ a \in Seq(Chars)
        /\ Len(a) = Len(ACK_OKAY) + Len(<< Space >>)
        /\ \A k \in 1 .. Len(ACK_OKAY) + Len(<< Space >>) :
             a[k] = IF k <= Len(ACK_OKAY) THEN ACK_OKAY[k] ELSE << Space >>[k - Len(ACK_OKAY)]
    BY <2>1, <2>2, ConcatProperties
  <2> QED
    BY <2>1, <2>2, <2>3
<1> HIDE DEF a, h
<1>3. a \o h \in Seq(Chars) /\ Len(a \o h) = 3 + Len(h)
      /\ \A k \in 1 .. 3 + Len(h) : (a \o h)[k] = IF k <= 3 THEN a[k] ELSE h[k - 3]
  <2>1. /\ a \o h \in Seq(Chars)
        /\ Len(a \o h) = Len(a) + Len(h)
        /\ \A k \in 1 .. Len(a) + Len(h) :
             (a \o h)[k] = IF k <= Len(a) THEN a[k] ELSE h[k - Len(a)]
    BY <1>1, <1>2, ConcatProperties
  <2> QED
    BY <1>2, <2>1
<1>4. << EOL >> \in Seq(Chars) /\ Len(<< EOL >>) = 1
  BY DEF EOL, Chars
<1>5. << >> \o (a \o h) = a \o h
  BY <1>3, ConcatEmptySeq
<1>6. Okay(x) = (a \o h) \o << EOL >>
  BY <1>5 DEF Okay, a, h
<1>7. Okay(x) \in Seq(Chars) /\ Len(Okay(x)) = 4 + Len(h)
      /\ \A k \in 1 .. 3 + Len(h) : Okay(x)[k] = (a \o h)[k]
  <2>1. Len(h) \in Nat
    BY <1>1
  <2> QED
    BY <1>3, <1>4, <1>6, <2>1, ConcatProperties
<1>8. Okay(x)[1] = 0 /\ Okay(x)[1 + 1] = 0
  BY <1>1, <1>2, <1>3, <1>7
<1>9. geth(Okay(x), 1) = 0
  BY <1>8 DEF geth, xtoi
<1>10. ASSUME NEW k \in 1 .. 2 * Len(x) PROVE Okay(x)[k + 3] = h[k]
  <2>1. k + 3 \in 1 .. 3 + Len(h) /\ ~(k + 3 <= 3) /\ (k + 3) - 3 = k
    BY <1>1
  <2> QED
    BY <1>3, <1>7, <2>1
<1> QED
  BY <1>1, <1>7, <1>9, <1>10 DEF h

-----------------------------------------------------------------------------
(* Types.                                                                    *)

LEMMA CallTypes ==
  ASSUME NEW c \in Calls
  PROVE  /\ c.op \in {"num", "len", "wr", "rd"} /\ c # NoCall
         /\ c.a \in 0 .. Span - 1
         /\ c.x \in Seq(Byte)
         /\ c.op = "wr" => c.x \in Seq(Bytes)
<1>1. Span \in Nat /\ 0 \in 0 .. Span - 1
  BY DiskAssumption
<1>2. Bytes \subseteq Byte /\ 0 \in Bytes
  BY DiskAssumption DEF Byte
<1>3. CASE c \in [op : {"num", "len"}, a : {0}, x : {<< >>}]
  <2>1. c.op \in {"num", "len"} /\ c.a = 0 /\ c.x = << >>
    BY <1>3
  <2>2. c # NoCall
    BY <2>1 DEF NoCall
  <2>3. c.x \in Seq(Byte)
    BY <2>1, EmptySeq
  <2> QED
    BY <1>1, <2>1, <2>2, <2>3
<1>4. CASE c \in [op : {"wr"}, a : 0 .. Span - 1, x : Data]
  <2>1. PICK n \in WriteLens : c.x \in [1 .. n -> Bytes]
    BY <1>4 DEF Data
  <2>2. c.x \in Seq(Bytes)
    BY <2>1, DiskAssumption, FunctionIsSeq
  <2>3. c.x \in Seq(Byte)
    BY <1>2, <2>2, SeqMonotonic
  <2> QED
    BY <1>4, <2>2, <2>3 DEF NoCall
<1>5. CASE c \in [op : {"rd"}, a : 0 .. Span - 1, x : {[j \in 1 .. n |-> 0] : n \in ReadLens}]
  <2>1. PICK n \in ReadLens : c.x = [j \in 1 .. n |-> 0]
    BY <1>5
  <2>2. c.x \in [1 .. n -> Byte]
    BY <1>2, <2>1
  <2>3. c.x \in Seq(Byte)
    BY <2>2, DiskAssumption, FunctionIsSeq
  <2>4. c.op = "rd" /\ c.a \in 0 .. Span - 1
    BY <1>5
  <2> QED
    BY <2>3, <2>4 DEF NoCall
<1> QED
  BY <1>3, <1>4, <1>5 DEF Calls

LEMMA AnsweredCases ==
  ASSUME NEW n, Answered(n)
  PROVE  /\ geth(down, 1) = 0 /\ Consume(3 + 2 * n + 1)
         /\ call.op = "num" => Return(uint32(data_geth(down, 4, n), 1), << >>)
         /\ call.op = "len" => Return(uint32(data_geth(down, 4, n), 5), << >>)
         /\ call.op = "rd" => Return(DISK_SUCCESS, data_geth(down, 4, n))
BY DEF Answered

\* What is left of a stream when its first characters have been read.
LEMMA ConsumeTypes ==
  ASSUME TypeOK, NEW n \in Nat, Consume(n)
  PROVE  down' \in Seq(Chars) /\ Len(down) >= n
<1>1. down \in Seq(Chars) /\ Len(down) \in Nat
  BY LenProperties DEF TypeOK
<1>2. \A k \in n + 1 .. Len(down) : down[k] \in Chars
  BY <1>1, ElementOfSeq
<1> QED
  BY <1>1, <1>2, SubSeqProperties DEF Consume

LEMMA FourBytes ==
  \A a, b, c, d \in Byte : a + 256 * b + 65536 * c + 16777216 * d \in Int
BY SMT DEF Byte

LEMMA WordBytes ==
  ASSUME NEW x \in Seq(Byte), NEW k \in Nat \ {0}, k + 3 <= Len(x)
  PROVE  uint32(x, k) \in Int
<1>1. k \in 1 .. Len(x) /\ k + 1 \in 1 .. Len(x) /\ k + 2 \in 1 .. Len(x) /\ k + 3 \in 1 .. Len(x)
  BY LenProperties
<1>2. x[k] \in Byte /\ x[k + 1] \in Byte /\ x[k + 2] \in Byte /\ x[k + 3] \in Byte
  BY <1>1, ElementOfSeq
<1>3. PICK a \in Byte, b \in Byte, c \in Byte, d \in Byte :
        a = x[k] /\ b = x[k + 1] /\ c = x[k + 2] /\ d = x[k + 3]
  BY <1>2
<1>4. uint32(x, k) = a + 256 * b + 65536 * c + 16777216 * d
  BY <1>3 DEF uint32
<1> QED
  BY <1>4, FourBytes

\* The end of a call, with a result of the right type.
LEMMA ReturnTypes ==
  ASSUME NEW r \in Int, NEW x \in Seq(Byte), Return(r, x)
  PROVE  /\ reply' \in [r : Int, x : Seq(0 .. 255)]
         /\ call' = NoCall /\ i' \in 0 .. DISK_RETRY - 1 /\ at' = "idle"
BY DEF Return, Byte, DISK_RETRY

LEMMA ReceiveTypes ==
  ASSUME TypeOK, Receive
  PROVE  TypeOK'
<1>0. misread' \in BOOLEAN /\ UNCHANGED << disk, up, server >>
  BY DEF Receive, TypeOK
<1>1. << >> \in Seq(Byte) /\ DISK_SUCCESS \in Int /\ DISK_FAILURE \in Int
  BY EmptySeq DEF DISK_SUCCESS, DISK_FAILURE
\* It is enough that the result is right, or that the driver tries again.
<1>2. ASSUME down' \in Seq(Chars),
             \/ \E r \in Int, x \in Seq(Byte) : Return(r, x)
             \/ i' \in 0 .. DISK_RETRY - 1 /\ at' = "send" /\ UNCHANGED << call, reply >>
      PROVE  TypeOK'
  BY <1>0, <1>2, ReturnTypes DEF TypeOK
<1>3. CASE Written
  <2>1. down' \in Seq(Chars)
    BY <1>3, ConsumeTypes DEF Written
  <2> QED
    BY <1>1, <1>2, <1>3, <2>1 DEF Written
<1>4. ASSUME NEW n \in Nat, Answered(n),
             (call.op \in {"num", "len"} /\ n = 8) \/ call.op = "rd"
      PROVE  TypeOK'
  <2>1. down' \in Seq(Chars) /\ Len(down) >= 3 + 2 * n + 1
    BY <1>4, AnsweredCases, ConsumeTypes
  <2>2. data_geth(down, 4, n) \in Seq(Byte) /\ Len(data_geth(down, 4, n)) = n
    <3>1. down \in Seq(Chars) /\ Len(down) \in Nat /\ Len(down) >= 4 + 2 * n - 1
      BY <2>1, LenProperties DEF TypeOK
    <3> QED
      BY <3>1, DataBytes
  <2>3. CASE call.op = "num" /\ n = 8
    <3>1. uint32(data_geth(down, 4, n), 1) \in Int
      <4> DEFINE x == data_geth(down, 4, n)
      <4>1. x \in Seq(Byte) /\ 1 + 3 <= Len(x)
        <5>1. 1 + 3 <= n
          BY <2>3
        <5> QED
          BY <2>2, <5>1
      <4> HIDE DEF x
      <4>2. uint32(x, 1) \in Int
        BY <4>1, WordBytes
      <4> QED
        BY <4>2 DEF x
    <3> QED
      BY <1>1, <1>2, <1>4, <2>1, <2>3, <3>1, AnsweredCases
  <2>4. CASE call.op = "len" /\ n = 8
    <3>1. uint32(data_geth(down, 4, n), 5) \in Int
      <4> DEFINE x == data_geth(down, 4, n)
      <4>1. x \in Seq(Byte) /\ 5 + 3 <= Len(x)
        <5>1. 5 + 3 <= n
          BY <2>4
        <5> QED
          BY <2>2, <5>1
      <4> HIDE DEF x
      <4>2. uint32(x, 5) \in Int
        BY <4>1, WordBytes
      <4> QED
        BY <4>2 DEF x
    <3> QED
      BY <1>1, <1>2, <1>4, <2>1, <2>4, <3>1, AnsweredCases
  <2>5. CASE call.op = "rd"
    BY <1>1, <1>2, <1>4, <2>1, <2>2, <2>5, AnsweredCases
  <2> QED
    BY <1>4, <2>3, <2>4, <2>5
<1>5. CASE Refused
  <2>1. down' \in Seq(Chars)
    BY <1>5, ConsumeTypes DEF Refused
  <2>2. i \in 0 .. DISK_RETRY - 1
    BY DEF TypeOK
  <2>3. CASE i + 1 < DISK_RETRY
    BY <1>2, <1>5, <2>1, <2>2, <2>3 DEF Refused, DISK_RETRY
  <2>4. CASE ~(i + 1 < DISK_RETRY)
    BY <1>1, <1>2, <1>5, <2>1, <2>4 DEF Refused
  <2> QED
    BY <2>3, <2>4
<1>6. call.op = "rd" => Len(call.x) \in Nat
  <2>1. call.op = "rd" => call \in Calls
    BY DEF TypeOK, NoCall
  <2> QED
    BY <2>1, CallTypes, LenProperties
<1> QED
  BY <1>3, <1>4, <1>5, <1>6 DEF Receive

\* An address the server accepts is a block of the disk.
LEMMA AcceptedAddress ==
  ASSUME NEW a \in 0 .. Span - 1, ~(address(a) >= BLOCK_NUM), ~(address(a) < 0)
  PROVE  address(a) = a /\ a \in 0 .. BLOCK_NUM - 1
BY DiskAssumption DEF address

LEMMA AckTypes ==
  ASSUME TypeOK, NEW s \in Seq(Chars), Ack(s)
  PROVE  down' \in Seq(Chars) /\ server' = server
<1>1. << EOL >> \in Seq(Chars)
  BY DEF EOL, Chars
<1>2. down \in Seq(Chars)
  BY DEF TypeOK
<1>3. down \o s \in Seq(Chars)
  BY <1>2, ConcatProperties
<1>4. (down \o s) \o << EOL >> \in Seq(Chars)
  BY <1>1, <1>3, ConcatProperties
<1> QED
  BY <1>4 DEF Ack

\* A block is a sequence of bytes.
LEMMA BlockBytes ==
  ASSUME NEW b \in Block
  PROVE  b \in Seq(Byte) /\ Len(b) = BLOCK_LEN
<1>1. b \in [1 .. BLOCK_LEN -> Byte]
  BY DiskAssumption DEF Block, Byte
<1> QED
  BY <1>1, DiskAssumption, FunctionIsSeq

LEMMA SizesPacked ==
  /\ BLOCK_NUM \in Word /\ BLOCK_LEN \in Word
  /\ pack(BLOCK_NUM) \o pack(BLOCK_LEN) \in Seq(Byte)
  /\ Len(pack(BLOCK_NUM) \o pack(BLOCK_LEN)) = 8
<1>1. BLOCK_NUM \in Word /\ BLOCK_LEN \in Word
  BY DiskAssumption, PackAssumption, SMT DEF Word
<1> QED
  BY <1>1, PackTwo

\* The characters of the acknowledgements.
LEMMA AckChars ==
  /\ ACK_OKAY \in Seq(Chars) /\ ACK_FAIL \in Seq(Chars)
  /\ \A x \in Seq(Byte) : ACK_OKAY \o << Space >> \o hexlify(x) \in Seq(Chars)
<1>1. ACK_OKAY \in Seq(Chars) /\ ACK_FAIL \in Seq(Chars) /\ << Space >> \in Seq(Chars)
  BY DEF ACK_OKAY, ACK_FAIL, Space, Chars
<1>2. ACK_OKAY \o << Space >> \in Seq(Chars)
  BY <1>1, ConcatProperties
<1>3. ASSUME NEW x \in Seq(Byte)
      PROVE  ACK_OKAY \o << Space >> \o hexlify(x) \in Seq(Chars)
  BY <1>2, HexlifyValue, ConcatProperties
<1> QED
  BY <1>1, <1>3

\* The block as it is when n bytes of a write have reached it.
LEMMA WrittenBlock ==
  ASSUME TypeOK, up # << >>, Accepted("wr"), NEW n \in 0 .. BLOCK_LEN
  PROVE  /\ req.a \in 0 .. BLOCK_NUM - 1 /\ req.x \in [1 .. BLOCK_LEN -> Bytes]
         /\ [j \in 1 .. BLOCK_LEN |-> IF j <= n THEN req.x[j] ELSE disk[req.a][j]] \in Block
<1>1. req \in Calls
  BY HeadTailProperties DEF TypeOK, req
<1>2. req.op = "wr" /\ Len(req.x) = BLOCK_LEN
      /\ ~(address(req.a) >= BLOCK_NUM) /\ ~(address(req.a) < 0)
  BY DEF Accepted, Invalid, Negative
<1>3. req.a \in 0 .. BLOCK_NUM - 1
  BY <1>1, <1>2, CallTypes, AcceptedAddress
<1>4. req.x \in [1 .. BLOCK_LEN -> Bytes]
  BY <1>1, <1>2, CallTypes, LenProperties
<1>5. disk[req.a] \in [1 .. BLOCK_LEN -> Bytes]
  BY <1>3 DEF TypeOK, Block
<1> QED
  BY <1>3, <1>4, <1>5 DEF Block

LEMMA ServeTypes ==
  ASSUME TypeOK, Serve
  PROVE  TypeOK'
<1>1. up' \in Seq(Calls) /\ req \in Calls /\ up # << >> /\ UNCHANGED driver
  BY HeadTailProperties DEF TypeOK, Serve, req
<1>2. ASSUME disk' \in [0 .. BLOCK_NUM - 1 -> Block], down' \in Seq(Chars),
             server' \in {"serving", "ended"}
      PROVE  TypeOK'
  BY <1>1, <1>2 DEF TypeOK, driver
<1>3. ASSUME NEW s \in Seq(Chars), Ack(s), disk' \in [0 .. BLOCK_NUM - 1 -> Block]
      PROVE  TypeOK'
  BY <1>2, <1>3, AckTypes DEF TypeOK
<1>4. disk \in [0 .. BLOCK_NUM - 1 -> Block]
  BY DEF TypeOK
<1>5. CASE conf
  BY <1>3, <1>4, <1>5, SizesPacked, AckChars DEF conf
<1>6. CASE wr
  <2>1. PICK n \in 0 .. BLOCK_LEN :
          /\ disk' = [disk EXCEPT ![req.a] =
                        [j \in 1 .. BLOCK_LEN |-> IF j <= n THEN req.x[j] ELSE @[j]]]
          /\ Ack(IF n = BLOCK_LEN THEN ACK_OKAY ELSE ACK_FAIL)
    BY <1>6 DEF wr
  <2>2. disk' \in [0 .. BLOCK_NUM - 1 -> Block]
    BY <1>1, <1>4, <1>6, <2>1, WrittenBlock DEF wr
  <2> QED
    BY <1>3, <2>1, <2>2, AckChars
<1>7. CASE rd
  <2>1. req.a \in 0 .. BLOCK_NUM - 1
    BY <1>1, <1>7, CallTypes, AcceptedAddress DEF rd, Accepted, Invalid, Negative
  <2>2. disk[req.a] \in Seq(Byte)
    BY <1>4, <2>1, BlockBytes
  <2> QED
    BY <1>3, <1>4, <1>7, <2>2, AckChars DEF rd
<1>8. CASE Refuse
  BY <1>3, <1>4, <1>8, AckChars DEF Refuse
<1>9. CASE Raise
  BY <1>2, <1>4, <1>9 DEF Raise, TypeOK
<1> QED
  BY <1>5, <1>6, <1>7, <1>8, <1>9 DEF Serve

\* What the driver sends is a call: it has one in hand unless it is idle.
CallInHand == at = "idle" <=> call = NoCall

TInv == TypeOK /\ CallInHand

LEMMA TInvInit == Init => TInv
<1> SUFFICES ASSUME Init PROVE TInv
  OBVIOUS
<1>1. disk \in [0 .. BLOCK_NUM - 1 -> Block]
  BY DiskAssumption DEF Init, Block
<1>2. << >> \in Seq(Calls) /\ << >> \in Seq(Chars) /\ << >> \in Seq(0 .. 255)
  BY EmptySeq
<1>3. reply \in [r : Int, x : Seq(0 .. 255)]
  BY <1>2 DEF Init, DISK_SUCCESS
<1>4. call = NoCall /\ i \in 0 .. DISK_RETRY - 1 /\ at = "idle"
  BY DEF Init, DISK_RETRY
<1> QED
  BY <1>1, <1>2, <1>3, <1>4 DEF Init, TInv, TypeOK, CallInHand

LEMMA TInvStep == TInv /\ [Next]_vars => TInv'
<1> SUFFICES ASSUME TInv, [Next]_vars PROVE TInv'
  OBVIOUS
<1>0. TypeOK /\ CallInHand
  BY DEF TInv
<1>1. CASE Call
  <2>1. call' \in Calls /\ at' = "send" /\ i' = 0
    BY <1>1 DEF Call
  <2>2. call' # NoCall
    BY <2>1, CallTypes
  <2>3. TypeOK'
    BY <1>0, <1>1, <2>1 DEF Call, TypeOK, DISK_RETRY
  <2> QED
    BY <2>1, <2>2, <2>3 DEF TInv, CallInHand
<1>2. CASE Send
  <2>1. call \in Calls
    BY <1>0, <1>2 DEF Send, TypeOK, CallInHand
  <2>2. up' \in Seq(Calls)
    BY <1>0, <1>2, <2>1, AppendProperties DEF Send, TypeOK
  <2> QED
    BY <1>0, <1>2, <2>2 DEF Send, TInv, TypeOK, CallInHand
<1>3. CASE Receive
  <2>1. at = "receive"
    BY <1>3 DEF Receive
  <2>2. \/ call' = NoCall /\ at' = "idle"
        \/ call' = call /\ at' = "send"
    BY <1>3, AnsweredCases DEF Receive, Written, Refused, Return
  <2> QED
    BY <1>0, <1>3, <2>1, <2>2, ReceiveTypes DEF TInv, CallInHand
<1>4. CASE Serve
  BY <1>0, <1>4, ServeTypes DEF Serve, driver, TInv, CallInHand
<1>5. CASE UNCHANGED vars
  BY <1>0, <1>5 DEF vars, driver, TInv, TypeOK, CallInHand
<1> QED
  BY <1>1, <1>2, <1>3, <1>4, <1>5 DEF Next

LEMMA TInvHolds == Spec => []TInv
BY TInvInit, TInvStep, PTL DEF Spec

\* The disk, the streams and the driver keep their types, whatever is left in a
\* stream and however it is read.
THEOREM TypeCorrect == Spec => []TypeOK
BY TInvHolds, PTL DEF TInv

-----------------------------------------------------------------------------
(* In step.                                                                  *)

\* An acknowledgement without data.
Short(ack) == << >> \o ack \o << EOL >>

\* What the driver is about to read is the answer to its call.  If it says that
\* the call succeeded, then the disk is as the call asked for.
RightAnswer ==
  \/ call.op \in {"wr", "rd"} /\ down = Short(ACK_FAIL)
  \/ call.op \in {"num", "len"} /\ down = Okay(pack(BLOCK_NUM) \o pack(BLOCK_LEN))
  \/ /\ call.op = "wr" /\ down = Short(ACK_OKAY)
     /\ call.a \in 0 .. BLOCK_NUM - 1 /\ call.x = disk[call.a]
  \/ /\ call.op = "rd" /\ call.a \in 0 .. BLOCK_NUM - 1
     /\ down = Okay(disk[call.a])

Conversation ==
  ~misread =>
    /\ at # "receive" => up = << >> /\ down = << >>
    /\ at = "receive" => \/ up = << call >> /\ down = << >>
                         \/ up = << >> /\ down = << >> /\ server = "ended"
                         \/ up = << >> /\ server = "serving" /\ RightAnswer

LEMMA ShortValue ==
  /\ Len(Short(ACK_OKAY)) = 3 /\ geth(Short(ACK_OKAY), 1) = 0
  /\ Len(Short(ACK_FAIL)) = 3 /\ geth(Short(ACK_FAIL), 1) # 0
<1>1. ASSUME NEW c \in {0, 1}
      PROVE  /\ Len(Short(<< 0, c >>)) = 3
             /\ Short(<< 0, c >>)[1] = 0 /\ Short(<< 0, c >>)[1 + 1] = c
  <2>1. << 0, c >> \in Seq(Chars) /\ Len(<< 0, c >>) = 2 /\ << EOL >> \in Seq(Chars)
        /\ Len(<< EOL >>) = 1
    BY DEF EOL, Chars
  <2>2. << >> \o << 0, c >> = << 0, c >>
    BY <2>1, ConcatEmptySeq
  <2>3. /\ Len(<< 0, c >> \o << EOL >>) = Len(<< 0, c >>) + Len(<< EOL >>)
        /\ \A k \in 1 .. Len(<< 0, c >>) + Len(<< EOL >>) :
             (<< 0, c >> \o << EOL >>)[k] = IF k <= Len(<< 0, c >>) THEN << 0, c >>[k]
                                            ELSE << EOL >>[k - Len(<< 0, c >>)]
    BY <2>1, ConcatProperties
  <2> QED
    BY <2>1, <2>2, <2>3 DEF Short
<1>2. geth(Short(<< 0, 0 >>), 1) = 0
  BY <1>1 DEF geth, xtoi
<1>3. geth(Short(<< 0, 1 >>), 1) = 1
  BY <1>1 DEF geth, xtoi
<1> QED
  BY <1>1, <1>2, <1>3 DEF ACK_OKAY, ACK_FAIL

\* The answer to a read or to a question for the size.
LEMMA DataAnswer ==
  ASSUME TypeOK, RightAnswer, geth(down, 1) = 0
  PROVE  /\ call.op \in {"num", "len"} =>
              /\ down = Okay(pack(BLOCK_NUM) \o pack(BLOCK_LEN)) /\ Len(down) = 20
         /\ call.op = "rd" =>
              /\ call.a \in 0 .. BLOCK_NUM - 1 /\ down = Okay(disk[call.a])
              /\ disk[call.a] \in Block /\ Len(down) = 4 + 2 * BLOCK_LEN
         /\ call.op = "wr" =>
              /\ call.a \in 0 .. BLOCK_NUM - 1 /\ call.x = disk[call.a]
              /\ disk[call.a] \in Block /\ Len(down) = 3
<1>1. down # Short(ACK_FAIL)
  BY ShortValue
<1>2. Len(Okay(pack(BLOCK_NUM) \o pack(BLOCK_LEN))) = 20
  <2>1. PICK x \in Seq(Byte) : x = pack(BLOCK_NUM) \o pack(BLOCK_LEN) /\ Len(x) = 8
    BY SizesPacked
  <2>2. Len(Okay(x)) = 4 + 2 * Len(x)
    BY OkayValue
  <2>3. Len(Okay(x)) = 20
    BY <2>1, <2>2
  <2> QED
    BY <2>1, <2>3
<1>3. ASSUME NEW a \in 0 .. BLOCK_NUM - 1
      PROVE  disk[a] \in Block /\ Len(Okay(disk[a])) = 4 + 2 * BLOCK_LEN
  BY BlockBytes, OkayValue DEF TypeOK
<1> QED
  BY <1>1, <1>2, <1>3, ShortValue DEF RightAnswer

LEMMA Refusal ==
  ASSUME RightAnswer, TypeOK, geth(down, 1) # 0
  PROVE  call.op \in {"wr", "rd"} /\ Len(down) = 3
<1>1. geth(Okay(pack(BLOCK_NUM) \o pack(BLOCK_LEN)), 1) = 0
  BY SizesPacked, OkayValue
<1>2. \A a \in 0 .. BLOCK_NUM - 1 : geth(Okay(disk[a]), 1) = 0
  BY BlockBytes, OkayValue DEF TypeOK
<1> QED
  BY <1>1, <1>2, ShortValue DEF RightAnswer

\* When the driver gets to read, the answer to its call is what it reads.
LEMMA ReceiveRight ==
  ASSUME TInv, Conversation, ~misread, Receive
  PROVE  /\ up = << >> /\ RightAnswer /\ call \in Calls /\ TypeOK
<1>1. at = "receive" /\ Len(down) >= 2
  BY DEF Receive
<1>2. down # << >>
  BY <1>1, EmptySeq
<1> QED
  BY <1>1, <1>2 DEF Conversation, TInv, TypeOK, CallInHand

\* And he reads it to the end, or has misread it.
LEMMA AllRead ==
  ASSUME TypeOK, NEW n \in Nat, Consume(n), Len(down) = n
  PROVE  down' = << >>
BY SubSeqEmpty DEF Consume

LEMMA ReceiveConversation ==
  ASSUME TInv, Conversation, ~misread, Receive, ~misread'
  PROVE  up' = << >> /\ down' = << >> /\ at' # "receive"
<1>1. up = << >> /\ RightAnswer /\ call \in Calls /\ TypeOK /\ up' = up
  BY ReceiveRight DEF Receive
<1>2. at' # "receive"
  BY AnsweredCases DEF Receive, Written, Refused, Return
<1>3. CASE Written
  <2>1. Len(down) = 3 /\ Consume(3)
    BY <1>1, <1>3, DataAnswer DEF Written
  <2> QED
    BY <1>1, <1>2, <2>1, AllRead
<1>4. CASE call.op \in {"num", "len"} /\ Answered(8)
  <2>1. Len(down) = 20 /\ Consume(3 + 2 * 8 + 1)
    BY <1>1, <1>4, AnsweredCases, DataAnswer
  <2> QED
    BY <1>1, <1>2, <2>1, AllRead
<1>5. CASE call.op = "rd" /\ Answered(Len(call.x)) /\ misread' = (misread \/ Len(call.x) # BLOCK_LEN)
  <2>1. Len(call.x) = BLOCK_LEN
    BY <1>5
  <2>2. Len(down) = 3 + 2 * BLOCK_LEN + 1 /\ Consume(3 + 2 * BLOCK_LEN + 1)
    BY <1>1, <1>5, <2>1, AnsweredCases, DataAnswer, DiskAssumption
  <2>3. 3 + 2 * BLOCK_LEN + 1 \in Nat
    BY DiskAssumption
  <2> QED
    BY <1>1, <1>2, <2>2, <2>3, AllRead
<1>6. CASE Refused
  <2>1. Len(down) = 3 /\ Consume(3)
    BY <1>1, <1>6, Refusal DEF Refused
  <2> QED
    BY <1>1, <1>2, <2>1, AllRead
<1> QED
  BY <1>3, <1>4, <1>5, <1>6 DEF Receive

\* When the server gets to serve, what it serves is the driver's call, and nothing
\* is on its way.
LEMMA ServeRight ==
  ASSUME TInv, Conversation, ~misread, Serve
  PROVE  /\ at = "receive" /\ up = << call >> /\ down = << >> /\ server = "serving"
         /\ req = call /\ call \in Calls /\ up' = << >> /\ UNCHANGED driver /\ TypeOK
<1>1. up # << >> /\ server = "serving" /\ up' = Tail(up) /\ UNCHANGED driver
  BY DEF Serve
<1>2. at = "receive" /\ up = << call >> /\ down = << >>
  BY <1>1 DEF Conversation
<1>3. call \in Calls
  BY <1>2 DEF TInv, TypeOK, CallInHand
<1>4. Head(<< call >>) = call /\ Tail(<< call >>) = << >>
  OBVIOUS
<1> QED
  BY <1>1, <1>2, <1>3, <1>4 DEF req, TInv

\* All of the data has reached its block exactly if the server says so.
LEMMA WriteDone ==
  ASSUME TypeOK, up # << >>, Accepted("wr"), NEW n \in 0 .. BLOCK_LEN,
         disk' = [disk EXCEPT ![req.a] =
                    [j \in 1 .. BLOCK_LEN |-> IF j <= n THEN req.x[j] ELSE @[j]]]
  PROVE  n = BLOCK_LEN => disk'[req.a] = req.x
<1>1. req.a \in 0 .. BLOCK_NUM - 1 /\ req.x \in [1 .. BLOCK_LEN -> Bytes]
  BY WrittenBlock
<1>2. disk'[req.a] = [j \in 1 .. BLOCK_LEN |-> IF j <= n THEN req.x[j] ELSE disk[req.a][j]]
  BY <1>1 DEF TypeOK
<1>3. n = BLOCK_LEN => disk'[req.a] = [j \in 1 .. BLOCK_LEN |-> req.x[j]]
  <2>1. \A j \in 1 .. BLOCK_LEN : j <= BLOCK_LEN
    BY DiskAssumption
  <2> QED
    BY <1>2, <2>1, Zenon
<1> QED
  BY <1>1, <1>3

LEMMA ServeConversation ==
  ASSUME TInv, Conversation, ~misread, Serve
  PROVE  \/ down' = << >> /\ server' = "ended"
         \/ server' = "serving" /\ RightAnswer'
<1>0. /\ at = "receive" /\ up = << call >> /\ down = << >> /\ server = "serving"
      /\ req = call /\ call \in Calls /\ call' = call /\ TypeOK /\ up # << >>
  BY ServeRight DEF driver, Serve
<1>1. ASSUME NEW s, Ack(s) PROVE down' = << >> \o s \o << EOL >> /\ server' = "serving"
  BY <1>0, <1>1 DEF Ack
<1>2. CASE conf
  <2>1. down' = Okay(pack(BLOCK_NUM) \o pack(BLOCK_LEN)) /\ server' = "serving"
    BY <1>1, <1>2 DEF conf, Okay
  <2> QED
    BY <1>0, <1>2, <2>1 DEF conf, RightAnswer
<1>3. CASE wr
  <2>1. PICK n \in 0 .. BLOCK_LEN :
          /\ disk' = [disk EXCEPT ![req.a] =
                        [j \in 1 .. BLOCK_LEN |-> IF j <= n THEN req.x[j] ELSE @[j]]]
          /\ Ack(IF n = BLOCK_LEN THEN ACK_OKAY ELSE ACK_FAIL)
    BY <1>3 DEF wr
  <2>2. Accepted("wr") /\ call.op = "wr"
    BY <1>0, <1>3 DEF wr, Accepted
  <2>3. CASE n = BLOCK_LEN
    <3>1. down' = Short(ACK_OKAY) /\ server' = "serving"
      BY <1>1, <2>1, <2>3 DEF Short
    <3>2. call.a \in 0 .. BLOCK_NUM - 1 /\ call.x = disk'[call.a]
      BY <1>0, <2>1, <2>2, <2>3, WrittenBlock, WriteDone
    <3> QED
      BY <1>0, <2>2, <3>1, <3>2 DEF RightAnswer
  <2>4. CASE n # BLOCK_LEN
    <3>1. down' = Short(ACK_FAIL) /\ server' = "serving"
      BY <1>1, <2>1, <2>4 DEF Short
    <3> QED
      BY <1>0, <2>2, <3>1 DEF RightAnswer
  <2> QED
    BY <2>3, <2>4
<1>4. CASE rd
  <2>1. call.a \in 0 .. BLOCK_NUM - 1 /\ call.op = "rd" /\ disk' = disk
    BY <1>0, <1>4, CallTypes, AcceptedAddress DEF rd, Accepted, Invalid, Negative
  <2>2. \/ down' = Okay(disk[call.a])
        \/ down' = Short(ACK_FAIL)
    BY <1>0, <1>1, <1>4 DEF rd, Okay, Short
  <2>3. server' = "serving"
    BY <1>1, <1>4 DEF rd
  <2> QED
    BY <1>0, <2>1, <2>2, <2>3 DEF RightAnswer
<1>5. CASE Refuse
  BY <1>0, <1>1, <1>5 DEF Refuse, Invalid, Short, RightAnswer
<1>6. CASE Raise
  BY <1>0, <1>6 DEF Raise
<1> QED
  BY <1>2, <1>3, <1>4, <1>5, <1>6 DEF Serve

LEMMA ConversationStep ==
  ASSUME TInv, Conversation, [Next]_vars
  PROVE  Conversation'
<1>0. SUFFICES ASSUME ~misread'
               PROVE  /\ at' # "receive" => up' = << >> /\ down' = << >>
                      /\ at' = "receive" =>
                           \/ up' = << call' >> /\ down' = << >>
                           \/ up' = << >> /\ down' = << >> /\ server' = "ended"
                           \/ up' = << >> /\ server' = "serving" /\ RightAnswer'
  BY DEF Conversation
<1>1. ~misread
  BY <1>0 DEF Next, Call, Send, Receive, Serve, driver, vars, TInv, TypeOK
<1>2. CASE Call
  BY <1>1, <1>2 DEF Call, Conversation
<1>3. CASE Send
  <2>1. up = << >> /\ down = << >>
    BY <1>1, <1>3 DEF Send, Conversation
  <2>2. Append(<< >>, call) = << call >>
    OBVIOUS
  <2> QED
    BY <1>3, <2>1, <2>2 DEF Send
<1>4. CASE Receive
  BY <1>0, <1>1, <1>4, ReceiveConversation
<1>5. CASE Serve
  <2>1. up' = << >> /\ at' = "receive"
    BY <1>1, <1>5, ServeRight DEF driver
  <2> QED
    BY <1>1, <1>5, <2>1, ServeConversation
<1>6. CASE UNCHANGED vars
  BY <1>1, <1>6 DEF vars, driver, Conversation, RightAnswer
<1> QED
  BY <1>2, <1>3, <1>4, <1>5, <1>6 DEF Next

LEMMA ConversationHolds == Spec => [](TInv /\ Conversation)
<1>1. Init => Conversation
  BY DEF Init, Conversation
<1>2. TInv /\ Conversation /\ [Next]_vars => Conversation'
  BY ConversationStep
<1> QED
  BY <1>1, <1>2, TInvHolds, PTL DEF Spec

LEMMA InStepFollows ==
  ASSUME TInv, Conversation
  PROVE  InStep
<1>1. SUFFICES ASSUME ~misread, at = "receive", RightAnswer
               PROVE  Len(down) \in AnswerLens
  BY DEF InStep, Conversation
<1>2. call \in Calls /\ call.op \in {"num", "len", "wr", "rd"} /\ TypeOK
  BY <1>1, CallTypes DEF TInv, TypeOK, CallInHand
<1>3. CASE geth(down, 1) # 0
  BY <1>1, <1>2, <1>3, Refusal DEF AnswerLens
<1>4. CASE geth(down, 1) = 0 /\ call.op \in {"num", "len"}
  <2>1. Len(down) = 3 + 2 * 8 + 1
    BY <1>1, <1>2, <1>4, DataAnswer
  <2> QED
    BY <1>4, <2>1, Zenon DEF AnswerLens
<1>5. CASE geth(down, 1) = 0 /\ call.op = "rd"
  <2>1. Len(down) = 3 + 2 * BLOCK_LEN + 1
    BY <1>1, <1>2, <1>5, DataAnswer, DiskAssumption
  <2> QED
    BY <1>5, <2>1, Zenon DEF AnswerLens
<1>6. CASE geth(down, 1) = 0 /\ call.op = "wr"
  <2>1. Len(down) = 3
    BY <1>1, <1>2, <1>6, DataAnswer
  <2> QED
    BY <2>1 DEF AnswerLens
<1> QED
  BY <1>2, <1>3, <1>4, <1>5, <1>6

\* However many requests were refused and repeated, and whatever the caller asks
\* for: a request is sent when nothing of an earlier one is left, and the answer to
\* it is as long as the driver takes it to be.
THEOREM InStepHolds == Spec => []InStep
BY ConversationHolds, InStepFollows, PTL

-----------------------------------------------------------------------------
(* Disk implements BlockStore.                                               *)

LEMMA StoreInit == Init => Store!Init
BY DEF Init, Store!Init

\* What a successful answer makes of a call.
LEMMA SucceedCases ==
  ASSUME call # NoCall, Store!Valid(call), call' = NoCall, disk' = disk,
         call.op = "wr" => disk[call.a] = call.x,
         \/ call.op = "num" /\ reply' = [r |-> BLOCK_NUM, x |-> << >>]
         \/ call.op = "len" /\ reply' = [r |-> BLOCK_LEN, x |-> << >>]
         \/ call.op = "wr" /\ reply' = [r |-> 0, x |-> << >>]
         \/ call.op = "rd" /\ reply' = [r |-> 0, x |-> SubSeq(disk[call.a], 1, Len(call.x))]
  PROVE  Store!Succeed
<1>1. reply' = CASE call.op = "num" -> [r |-> BLOCK_NUM, x |-> << >>]
                 [] call.op = "len" -> [r |-> BLOCK_LEN, x |-> << >>]
                 [] call.op = "wr"  -> [r |-> 0, x |-> << >>]
                 [] call.op = "rd"  -> [r |-> 0, x |-> SubSeq(disk[call.a], 1, Len(call.x))]
  BY Zenon
<1> QED
  BY <1>1, Zenon DEF Store!Succeed

\* The driver reads the number of blocks and their length out of 8 bytes.
LEMMA SizesRead ==
  ASSUME down = Okay(pack(BLOCK_NUM) \o pack(BLOCK_LEN))
  PROVE  /\ uint32(data_geth(down, 4, 8), 1) = BLOCK_NUM
         /\ uint32(data_geth(down, 4, 8), 5) = BLOCK_LEN
<1>1. PICK x \in Seq(Byte) : x = pack(BLOCK_NUM) \o pack(BLOCK_LEN) /\ Len(x) = 8
  BY SizesPacked
<1>2. down = Okay(x)
  BY <1>1
<1>3. data_geth(down, 4, 8) = SubSeq(x, 1, 8)
  <2>1. Len(x) \in Nat /\ 8 \in 0 .. Len(x)
    BY <1>1
  <2>2. /\ down \in Seq(Chars) /\ Len(down) >= 3 + 2 * Len(x)
        /\ \A k \in 1 .. 2 * Len(x) : down[k + 3] = hexlify(x)[k]
    <3>1. Len(down) = 4 + 2 * Len(x)
      BY <1>2, OkayValue
    <3> QED
      BY <1>2, <2>1, <3>1, OkayValue
  <2> QED
    BY <2>1, <2>2, GethHexlify
<1>4. SubSeq(x, 1, 8) = x
  BY <1>1, SubSeqFull
<1>5. uint32(x, 1) = BLOCK_NUM /\ uint32(x, 5) = BLOCK_LEN
  BY <1>1, SizesPacked, PackTwo
<1> QED
  BY <1>3, <1>4, <1>5

\* The driver reads the first bytes of the block.
LEMMA BlockRead ==
  ASSUME NEW b \in Block, down = Okay(b), NEW n \in 0 .. BLOCK_LEN
  PROVE  data_geth(down, 4, n) = SubSeq(b, 1, n)
<1>1. b \in Seq(Byte) /\ Len(b) = BLOCK_LEN /\ BLOCK_LEN \in Nat
  BY BlockBytes, DiskAssumption
<1>2. n \in 0 .. Len(b)
  BY <1>1
<1>3. Len(down) = 4 + 2 * Len(b)
  BY <1>1, OkayValue
<1>4. /\ down \in Seq(Chars) /\ Len(down) >= 3 + 2 * Len(b)
      /\ \A k \in 1 .. 2 * Len(b) : down[k + 3] = hexlify(b)[k]
  BY <1>1, <1>3, OkayValue
<1> QED
  BY <1>1, <1>2, <1>4, GethHexlify

LEMMA ReceiveRefines ==
  ASSUME TInv, Conversation, ~misread, Receive
  PROVE  [Store!Next]_(Store!vars)
<1>0. RightAnswer /\ call \in Calls /\ call # NoCall /\ TypeOK /\ disk' = disk
  BY ReceiveRight, CallTypes DEF Receive
<1>1. CASE Written
  <2>1. call.op = "wr" /\ call.a \in 0 .. BLOCK_NUM - 1 /\ call.x = disk[call.a]
        /\ disk[call.a] \in Block
    BY <1>0, <1>1, DataAnswer DEF Written
  <2>2. Store!Valid(call)
    BY <2>1, BlockBytes, DiskAssumption DEF Store!Valid
  <2>3. call' = NoCall /\ reply' = [r |-> 0, x |-> << >>]
    BY <1>1 DEF Written, Return, DISK_SUCCESS
  <2> QED
    BY <1>0, <2>1, <2>2, <2>3, SucceedCases DEF Store!Next
<1>2. CASE call.op \in {"num", "len"} /\ Answered(8)
  <2>1. down = Okay(pack(BLOCK_NUM) \o pack(BLOCK_LEN))
    BY <1>0, <1>2, AnsweredCases, DataAnswer
  <2>2. /\ uint32(data_geth(down, 4, 8), 1) = BLOCK_NUM
        /\ uint32(data_geth(down, 4, 8), 5) = BLOCK_LEN
    BY <2>1, SizesRead
  <2>3. /\ call.op = "num" => Return(BLOCK_NUM, << >>)
        /\ call.op = "len" => Return(BLOCK_LEN, << >>)
    BY <1>2, <2>2, AnsweredCases
  <2>4. Store!Valid(call)
    BY <1>2 DEF Store!Valid
  <2>5. call' = NoCall
    BY <1>2, <2>3 DEF Return
  <2>6. \/ call.op = "num" /\ reply' = [r |-> BLOCK_NUM, x |-> << >>]
        \/ call.op = "len" /\ reply' = [r |-> BLOCK_LEN, x |-> << >>]
    BY <1>2, <2>3 DEF Return
  <2> QED
    BY <1>0, <1>2, <2>4, <2>5, <2>6, SucceedCases DEF Store!Next
<1>3. CASE call.op = "rd" /\ Answered(Len(call.x))
  <2> DEFINE n == Len(call.x)
  <2>1. /\ call.a \in 0 .. BLOCK_NUM - 1 /\ down = Okay(disk[call.a])
        /\ disk[call.a] \in Block /\ Len(down) = 4 + 2 * BLOCK_LEN
    BY <1>0, <1>3, AnsweredCases, DataAnswer
  <2>2. n \in 0 .. BLOCK_LEN
    <3>1. n \in Nat
      BY <1>0, CallTypes, LenProperties
    <3>2. Len(down) >= 3 + 2 * n + 1
      BY <1>3, AnsweredCases DEF Consume
    <3> QED
      BY <2>1, <3>1, <3>2, DiskAssumption
  <2>3. data_geth(down, 4, n) = SubSeq(disk[call.a], 1, n)
    BY <2>1, <2>2, BlockRead
  <2>4. Return(0, SubSeq(disk[call.a], 1, n))
    BY <1>3, <2>3, AnsweredCases DEF DISK_SUCCESS
  <2>5. Store!Valid(call)
    BY <1>3, <2>1, <2>2, DiskAssumption DEF Store!Valid
  <2>6. call' = NoCall /\ reply' = [r |-> 0, x |-> SubSeq(disk[call.a], 1, n)]
    BY <2>4 DEF Return
  <2> QED
    BY <1>0, <1>3, <2>5, <2>6, SucceedCases DEF Store!Next
<1>4. CASE Refused
  <2>1. call.op \in {"wr", "rd"}
    BY <1>0, <1>4, Refusal DEF Refused
  <2>2. CASE i + 1 < DISK_RETRY
    BY <1>0, <1>4, <2>2 DEF Refused, Store!vars
  <2>3. CASE ~(i + 1 < DISK_RETRY)
    <3>1. Return(DISK_FAILURE, << >>)
      BY <1>4, <2>3 DEF Refused
    <3> QED
      BY <1>0, <2>1, <3>1 DEF Return, Store!Next, Store!Fail
  <2> QED
    BY <2>2, <2>3
<1> QED
  BY <1>1, <1>2, <1>3, <1>4 DEF Receive

LEMMA ServeRefines ==
  ASSUME TInv, Conversation, ~misread, Serve
  PROVE  [Store!Next]_(Store!vars)
<1>0. req = call /\ call \in Calls /\ call' = call /\ reply' = reply /\ TypeOK /\ up # << >>
  BY ServeRight DEF driver, Serve
<1>1. CASE wr
  <2>1. PICK n \in 0 .. BLOCK_LEN :
          disk' = [disk EXCEPT ![req.a] =
                    [j \in 1 .. BLOCK_LEN |-> IF j <= n THEN req.x[j] ELSE @[j]]]
    BY <1>1 DEF wr
  <2>2. call.op = "wr" /\ call.a \in 0 .. BLOCK_NUM - 1 /\ Len(call.x) = BLOCK_LEN
    BY <1>0, <1>1, WrittenBlock DEF wr, Accepted, Invalid
  <2>3. Store!Valid(call)
    BY <2>2, DiskAssumption DEF Store!Valid
  <2>4. disk' = [disk EXCEPT ![call.a] = Store!Stored(@, call.x, n)]
    BY <1>0, <2>1 DEF Store!Stored
  <2> QED
    BY <1>0, <2>2, <2>3, <2>4 DEF Store!Next, Store!Store
<1>2. CASE conf \/ rd \/ Refuse \/ Raise
  BY <1>0, <1>2 DEF conf, rd, Refuse, Raise, Store!vars
<1> QED
  BY <1>1, <1>2 DEF Serve

LEMMA StepRefines ==
  ASSUME TInv, Conversation, ~misread, [Next]_vars
  PROVE  [Store!Next]_(Store!vars)
<1>1. CASE Call
  <2>1. call = NoCall /\ call' # NoCall
    BY <1>1, CallTypes DEF Call, TInv, CallInHand
  <2> QED
    BY <1>1, <2>1 DEF Call, Store!Next, Store!Request
<1>2. CASE Send \/ UNCHANGED vars
  BY <1>2 DEF Send, vars, driver, Store!vars
<1> QED
  BY <1>1, <1>2, ReceiveRefines, ServeRefines DEF Next

\* Every step is one of the store's or none, including the one with which a buffer
\* of the wrong size is filled: that one still gets the first bytes of its block.
THEOREM StepsKeepBlocks == Spec => [][~misread => [Store!Next]_(Store!vars)]_vars
BY ConversationHolds, StepRefines, PTL DEF Spec

\* Unless a read was for more or less than a block, driver and server keep the
\* store's promise: a call that succeeds did, as one step and on its block, what it
\* was asked to, and one that fails says so.
THEOREM KeepsBlocksHolds == Spec /\ []NoMisread => KeepsBlocks
<1>1. TInv /\ Conversation /\ NoMisread /\ [Next]_vars => [Store!Next]_(Store!vars)
  BY StepRefines DEF NoMisread
<1> QED
  BY <1>1, StoreInit, ConversationHolds, PTL DEF Spec, KeepsBlocks, Store!Spec
=============================================================================
