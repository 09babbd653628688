---------------------------- MODULE Sha256Proofs ----------------------------
(***************************************************************************)
(* The padding of sha256, for a message of any length and any size of a    *)
(* block: what sha256_transform is given is the padded message.            *)
(***************************************************************************)
EXTENDS Sha256, TLAPS, SequenceTheorems

USE BlockLenAssumption

Places == 0 .. BlockLen - 1
Block  == [Places -> Int]

\* The message bytes of a whole block.
MessageBlock(k) == [i \in Places |-> Message((k - 1) * BlockLen + i)]

\* The full blocks have gone to sha256_transform, and the rest is in data.
Consumed ==
  /\ data \in Block /\ datalen \in Places /\ len \in Nat
  /\ transformed \in Seq(Block)
  /\ len = Len(transformed) * BlockLen + datalen
  /\ bitlen = 8 * (len - datalen)
  /\ \A i \in 0 .. datalen - 1 : data[i] = Message(len - datalen + i)
  /\ \A k \in 1 .. Len(transformed) : transformed[k] = MessageBlock(k)

Inv == IF finished THEN transformed = Padded ELSE Consumed

-----------------------------------------------------------------------------
(* Arithmetic.                                                             *)

\* Blocks do not overlap.
LEMMA BlocksApart ==
  ASSUME NEW a \in Nat, NEW b \in Nat
  PROVE  /\ a * BlockLen \in Nat /\ (a + 1) * BlockLen = a * BlockLen + BlockLen
         /\ (a + 2) * BlockLen = a * BlockLen + BlockLen + BlockLen
         /\ a <= a * BlockLen
         /\ a < b => a * BlockLen + BlockLen <= b * BlockLen
         /\ a <= b => a * BlockLen <= b * BlockLen
  <1>1. BlockLen \in Nat /\ BlockLen > 8
    OBVIOUS
  <1>2. a * BlockLen \in Nat /\ b * BlockLen \in Nat
    BY <1>1
  <1>3. (a + 1) * BlockLen = a * BlockLen + BlockLen
    BY <1>1
  <1>4. (a + 2) * BlockLen = a * BlockLen + BlockLen + BlockLen
    BY <1>1
  <1>5. a <= a * BlockLen
    BY <1>1
  <1>6. \A d \in Nat : d * BlockLen \in Nat /\ (a + d) * BlockLen = a * BlockLen + d * BlockLen
    BY <1>1
  <1>7. a <= b => a * BlockLen <= b * BlockLen
    <2> SUFFICES ASSUME a <= b PROVE a * BlockLen <= b * BlockLen
      OBVIOUS
    <2>1. b - a \in Nat /\ b = a + (b - a)
      OBVIOUS
    <2>2. QED
      BY <1>2, <1>6, <2>1
  <1>8. a < b => a * BlockLen + BlockLen <= b * BlockLen
    <2> SUFFICES ASSUME a < b PROVE a * BlockLen + BlockLen <= b * BlockLen
      OBVIOUS
    <2>1. b - a - 1 \in Nat /\ b = a + (b - a)
      OBVIOUS
    <2>2. (b - a) * BlockLen >= BlockLen
      <3> DEFINE d == b - a - 1
      <3>1. b - a = d + 1 /\ d \in Nat
        BY <2>1
      <3> HIDE DEF d
      <3>2. (d + 1) * BlockLen = d * BlockLen + BlockLen /\ d * BlockLen \in Nat
        BY <1>1, <3>1
      <3>3. QED
        BY <1>1, <3>1, <3>2
    <2>3. b - a \in Nat
      BY <2>1
    <2>4. QED
      BY <1>1, <1>2, <1>6, <2>1, <2>2, <2>3
  <1>9. QED
    BY <1>2, <1>3, <1>4, <1>5, <1>7, <1>8

\* How many blocks the padded message has.
Blocks(n) == Min({k \in 1 .. n + 1 : k * BlockLen >= n + 9})

LEMMA BlockCount ==
  ASSUME NEW q \in Nat, NEW r \in Places, NEW n, n = q * BlockLen + r
  PROVE  /\ RoomForLength(r) => Blocks(n) = q + 1
         /\ ~RoomForLength(r) => Blocks(n) = q + 2
  <1> DEFINE S == {k \in 1 .. n + 1 : k * BlockLen >= n + 9}
             m == IF RoomForLength(r) THEN q + 1 ELSE q + 2
  <1>1. /\ q * BlockLen \in Nat /\ q <= q * BlockLen
        /\ (q + 1) * BlockLen = q * BlockLen + BlockLen
        /\ (q + 2) * BlockLen = q * BlockLen + BlockLen + BlockLen
    BY BlocksApart
  <1>2. RoomForLength(r) <=> r + 9 <= BlockLen
    BY DEF RoomForLength, LenAt, Places
  <1>3. r \in Nat /\ r < BlockLen /\ n \in Nat
    BY <1>1 DEF Places
  <1>4. m \in S
    BY <1>1, <1>2, <1>3
  <1>5. ASSUME NEW k \in S PROVE m <= k
    <2>1. k \in Nat /\ k * BlockLen >= n + 9
      OBVIOUS
    <2>2. k <= q => k * BlockLen <= q * BlockLen
      BY <2>1, BlocksApart
    <2>3. k > q
      BY <1>1, <1>3, <2>1, <2>2
    <2>4. k = q + 1 => r + 9 <= BlockLen
      BY <1>1, <1>3, <2>1
    <2>5. QED
      BY <1>2, <2>1, <2>3, <2>4
  <1>6. \A k \in S : k \in Int
    OBVIOUS
  <1>7. m \in Int
    OBVIOUS
  <1> HIDE DEF S, m
  <1>8. Min(S) \in S /\ \A k \in S : Min(S) <= k
    BY <1>4, <1>5 DEF Min
  <1>9. Min(S) = m
    <2>1. Min(S) <= m /\ m <= Min(S)
      BY <1>4, <1>5, <1>8
    <2>2. Min(S) \in Int
      BY <1>6, <1>8
    <2>3. QED
      BY <1>7, <2>1, <2>2
  <1>10. QED
    BY <1>9 DEF S, m, Blocks

-----------------------------------------------------------------------------
(* The blocks.                                                             *)

\* Byte e of the bit length, from the least significant.
LengthByte(e) == ((8 * len) \div 256 ^ e) % 256

\* Byte j of the padded message of n blocks.
PaddedByte(n, j) ==
  IF j < len THEN Message(j)
  ELSE IF j = len THEN 128
  ELSE IF j >= n * BlockLen - 4 THEN LengthByte(n * BlockLen - 1 - j)
  ELSE 0

PaddedBlock(n, k) == [i \in Places |-> PaddedByte(n, (k - 1) * BlockLen + i)]

LEMMA PaddedBlocks ==
  Padded = [k \in 1 .. Blocks(len) |-> PaddedBlock(Blocks(len), k)]
  BY DEF Padded, Blocks, PaddedBlock, PaddedByte, LengthByte, Places

\* What sha256_final writes: the last block, and the one before it if there is
\* no room for the length.
LastBlock ==
  LET first  == Pad(data, BlockLen)
      zeroed == [i \in DOMAIN first |-> IF i < LenAt THEN 0 ELSE first[i]]
  IN  WithLength(IF RoomForLength(datalen) THEN Pad(data, LenAt) ELSE zeroed,
                 bitlen + 8 * datalen)

LEMMA FinalBlocks ==
  ASSUME Consumed, NEW q, q = Len(transformed), NEW n, n = Blocks(len)
  PROVE  /\ RoomForLength(datalen) => n = q + 1 /\ LastBlock = PaddedBlock(n, q + 1)
         /\ ~RoomForLength(datalen) => /\ n = q + 2
                                       /\ Pad(data, BlockLen) = PaddedBlock(n, q + 1)
                                       /\ LastBlock = PaddedBlock(n, q + 2)
         /\ \A k \in 1 .. q : transformed[k] = PaddedBlock(n, k)
  <1> DEFINE Q == q * BlockLen
  <1>1. /\ q \in Nat /\ datalen \in Nat /\ datalen < BlockLen /\ len \in Nat
        /\ len = Q + datalen /\ bitlen + 8 * datalen = 8 * len
        /\ data \in Block /\ DOMAIN data = Places
        /\ \A i \in 0 .. datalen - 1 : data[i] = Message(Q + i)
    BY BlocksApart DEF Consumed, Places, Block
  <1>2. /\ Q \in Nat /\ (q + 1) * BlockLen = Q + BlockLen /\ (q + 2) * BlockLen = Q + BlockLen + BlockLen
        /\ ((q + 1) - 1) * BlockLen = Q /\ ((q + 2) - 1) * BlockLen = Q + BlockLen
        /\ \A k \in 1 .. q : (k - 1) * BlockLen \in Nat /\ (k - 1) * BlockLen + BlockLen <= Q
    <2>1. q + 1 - 1 = q /\ q + 2 - 1 = q + 1
      BY <1>1
    <2>2. \A k \in 1 .. q : k - 1 \in Nat /\ k - 1 < q
      BY <1>1
    <2>3. QED
      BY <1>1, <2>1, <2>2, BlocksApart
  <1>3. /\ RoomForLength(datalen) => n = q + 1
        /\ ~RoomForLength(datalen) => n = q + 2
    BY <1>1, BlockCount DEF Consumed
  <1>4. RoomForLength(datalen) <=> datalen < BlockLen - 8
    BY DEF RoomForLength, LenAt
  <1>5. ASSUME NEW k \in 1 .. q PROVE transformed[k] = PaddedBlock(n, k)
    <2>1. \A i \in Places : (k - 1) * BlockLen + i < len
      BY <1>1, <1>2 DEF Places
    <2>2. \A i \in Places : PaddedByte(n, (k - 1) * BlockLen + i) = Message((k - 1) * BlockLen + i)
      BY <2>1 DEF PaddedByte
    <2>3. transformed[k] = MessageBlock(k)
      BY DEF Consumed
    <2>4. QED
      BY <2>2, <2>3, Zenon DEF PaddedBlock, MessageBlock
  <1> HIDE DEF Q
  <1>6. ASSUME RoomForLength(datalen) PROVE LastBlock = PaddedBlock(n, q + 1)
    <2> DEFINE d == Pad(data, LenAt)
    <2>1. /\ DOMAIN d = Places
          /\ \A i \in Places : d[i] = IF i = datalen THEN 128
                                      ELSE IF i \in datalen + 1 .. LenAt - 1 THEN 0 ELSE data[i]
      BY <1>1 DEF Pad
    <2>2. LastBlock = WithLength(d, 8 * len)
      BY <1>1, <1>6 DEF LastBlock
    <2> HIDE DEF d
    <2>3. LastBlock = [i \in Places |-> IF i < LenAt THEN d[i]
                                        ELSE IF BlockLen - 1 - i > 3 THEN 0 ELSE LengthByte(BlockLen - 1 - i)]
      BY <2>1, <2>2 DEF WithLength, LengthByte
    <2>4. ASSUME NEW i \in Places
          PROVE  PaddedByte(n, (q + 1 - 1) * BlockLen + i) =
                   IF i < LenAt THEN d[i] ELSE IF BlockLen - 1 - i > 3 THEN 0 ELSE LengthByte(BlockLen - 1 - i)
      <3> DEFINE j == (q + 1 - 1) * BlockLen + i
      <3>1. /\ i \in Nat /\ i < BlockLen /\ j = Q + i
            /\ n * BlockLen - 4 = Q + BlockLen - 4 /\ n * BlockLen - 1 - j = BlockLen - 1 - i
        BY <1>2, <1>3, <1>6 DEF Places
      <3> HIDE DEF j
      <3>2. CASE i < datalen
        BY <1>1, <1>2, <1>4, <1>6, <2>1, <3>1, <3>2 DEF PaddedByte, j, LenAt
      <3>3. CASE i = datalen
        BY <1>1, <1>2, <1>4, <1>6, <2>1, <3>1, <3>3 DEF PaddedByte, j, LenAt
      <3>4. CASE i > datalen
        BY <1>1, <1>2, <1>4, <1>6, <2>1, <3>1, <3>4 DEF PaddedByte, j, LenAt
      <3>5. QED
        BY <1>1, <3>1, <3>2, <3>3, <3>4
    <2>5. QED
      <3> DEFINE c(i) == IF i < LenAt THEN d[i]
                         ELSE IF BlockLen - 1 - i > 3 THEN 0 ELSE LengthByte(BlockLen - 1 - i)
      <3>1. LastBlock = [i \in Places |-> c(i)]
        BY <2>3
      <3>2. \A i \in Places : PaddedByte(n, (q + 1 - 1) * BlockLen + i) = c(i)
        BY <2>4
      <3> HIDE DEF c
      <3>3. PaddedBlock(n, q + 1) = [i \in Places |-> c(i)]
        BY <3>2 DEF PaddedBlock
      <3>4. QED
        BY <3>1, <3>3
  <1>7. ASSUME ~RoomForLength(datalen)
        PROVE  Pad(data, BlockLen) = PaddedBlock(n, q + 1) /\ LastBlock = PaddedBlock(n, q + 2)
    <2> DEFINE d == Pad(data, BlockLen)
               z == [i \in DOMAIN d |-> IF i < LenAt THEN 0 ELSE d[i]]
               b(i) == IF i = datalen THEN 128
                       ELSE IF i \in datalen + 1 .. BlockLen - 1 THEN 0 ELSE data[i]
    <2>1. d = [i \in Places |-> b(i)]
      BY <1>1 DEF Pad
    <2>2. DOMAIN d = Places
      BY <2>1
    <2>3. LastBlock = WithLength(z, 8 * len)
      BY <1>1, <1>7 DEF LastBlock
    <2> HIDE DEF d
    <2>4. DOMAIN z = Places /\ \A i \in Places : i < LenAt => z[i] = 0
      BY <2>2
    <2> HIDE DEF z
    <2>5. LastBlock = [i \in Places |-> IF i < LenAt THEN z[i]
                                        ELSE IF BlockLen - 1 - i > 3 THEN 0 ELSE LengthByte(BlockLen - 1 - i)]
      BY <2>3, <2>4 DEF WithLength, LengthByte
    <2>6. ASSUME NEW i \in Places PROVE PaddedByte(n, (q + 1 - 1) * BlockLen + i) = b(i)
      <3> DEFINE j == (q + 1 - 1) * BlockLen + i
      <3>1. /\ i \in Nat /\ i < BlockLen /\ j = Q + i
            /\ n * BlockLen - 4 = Q + BlockLen + BlockLen - 4
        BY <1>2, <1>3, <1>7 DEF Places
      <3> HIDE DEF j
      <3>2. CASE i < datalen
        BY <1>1, <1>2, <3>1, <3>2 DEF PaddedByte, j
      <3>3. CASE i >= datalen
        BY <1>1, <1>2, <3>1, <3>3 DEF PaddedByte, j
      <3>4. QED
        BY <1>1, <3>1, <3>2, <3>3
    <2>7. ASSUME NEW i \in Places
          PROVE  PaddedByte(n, (q + 2 - 1) * BlockLen + i) =
                   IF i < LenAt THEN z[i] ELSE IF BlockLen - 1 - i > 3 THEN 0 ELSE LengthByte(BlockLen - 1 - i)
      <3> DEFINE j == (q + 2 - 1) * BlockLen + i
      <3>1. /\ i \in Nat /\ i < BlockLen /\ j = Q + BlockLen + i
            /\ n * BlockLen - 4 = Q + BlockLen + BlockLen - 4
            /\ n * BlockLen - 1 - j = BlockLen - 1 - i
        BY <1>2, <1>3, <1>7 DEF Places
      <3>2. j > len
        BY <1>1, <1>2, <3>1
      <3> HIDE DEF j
      <3>3. CASE i < LenAt
        BY <1>1, <1>2, <2>4, <3>1, <3>2, <3>3 DEF PaddedByte, j, LenAt
      <3>4. CASE i >= LenAt
        BY <1>1, <1>2, <3>1, <3>2, <3>4 DEF PaddedByte, j, LenAt
      <3>5. QED
        BY <3>1, <3>3, <3>4 DEF LenAt
    <2>8. d = PaddedBlock(n, q + 1)
      <3> HIDE DEF b
      <3>1. PaddedBlock(n, q + 1) = [i \in Places |-> b(i)]
        BY <2>6 DEF PaddedBlock
      <3>2. QED
        BY <2>1, <3>1
    <2>9. LastBlock = PaddedBlock(n, q + 2)
      <3> DEFINE c(i) == IF i < LenAt THEN z[i]
                         ELSE IF BlockLen - 1 - i > 3 THEN 0 ELSE LengthByte(BlockLen - 1 - i)
      <3>1. LastBlock = [i \in Places |-> c(i)]
        BY <2>5
      <3>2. \A i \in Places : PaddedByte(n, (q + 2 - 1) * BlockLen + i) = c(i)
        BY <2>7
      <3> HIDE DEF c
      <3>3. PaddedBlock(n, q + 2) = [i \in Places |-> c(i)]
        BY <3>2 DEF PaddedBlock
      <3>4. QED
        BY <3>1, <3>3
    <2>10. QED
      BY <2>8, <2>9 DEF d
  <1>8. QED
    BY <1>3, <1>5, <1>6, <1>7

-----------------------------------------------------------------------------
(* The theorem.                                                            *)

\* A block that is full of message bytes.
LEMMA BlockOfMessage ==
  ASSUME NEW d \in Block, NEW k, \A i \in Places : d[i] = Message((k - 1) * BlockLen + i)
  PROVE  d = MessageBlock(k)
  <1>1. d = [i \in Places |-> d[i]]
    BY DEF Block
  <1>2. QED
    BY <1>1 DEF MessageBlock

\* sha256_update takes the next byte.
LEMMA UpdatePreserves ==
  ASSUME Consumed, Update
  PROVE  Consumed'
  <1> DEFINE q == Len(transformed)
             Q == q * BlockLen
             next == [data EXCEPT ![datalen] = Message(len)]
  <1>1. /\ q \in Nat /\ datalen \in Nat /\ datalen < BlockLen /\ len \in Nat /\ datalen \in Places
        /\ len = Q + datalen /\ bitlen = 8 * (len - datalen) /\ len - datalen = Q
        /\ Q \in Nat /\ (q + 1) * BlockLen = Q + BlockLen
    BY BlocksApart DEF Consumed, Places
  <1>2. data' = next /\ len' = len + 1 /\ len' \in Nat
    BY <1>1 DEF Update
  <1>3. /\ next \in Block
        /\ \A i \in 0 .. datalen : next[i] = Message(Q + i)
    <2>1. data \in Block /\ Message(len) \in Int
      BY <1>1 DEF Consumed, Message
    <2>2. next \in Block
      BY <2>1 DEF Block
    <2>3. \A i \in 0 .. datalen - 1 : data[i] = Message(Q + i) /\ i \in Places
      BY <1>1 DEF Consumed, Places
    <2>4. next[datalen] = Message(Q + datalen)
      BY <1>1, <2>1 DEF Block
    <2>5. \A i \in 0 .. datalen - 1 : next[i] = data[i]
      BY <1>1, <2>1, <2>3 DEF Block
    <2>6. \A i \in 0 .. datalen : i \in 0 .. datalen - 1 \/ i = datalen
      BY <1>1
    <2> HIDE DEF next, Q
    <2>7. QED
      BY <2>2, <2>3, <2>4, <2>5, <2>6
  <1> HIDE DEF next
  <1>4. CASE datalen + 1 = BlockLen
    <2>1. transformed' = Append(transformed, next) /\ datalen' = 0 /\ bitlen' = bitlen + 8 * BlockLen
      BY <1>2, <1>4 DEF Update, next
    <2>2. /\ transformed' \in Seq(Block) /\ Len(transformed') = q + 1
          /\ transformed'[q + 1] = next
          /\ \A k \in 1 .. q : transformed'[k] = transformed[k]
      BY <1>3, <2>1 DEF Consumed
    <2>3. next = MessageBlock(q + 1)
      <3>1. PICK d, k : d = next /\ k = q + 1
        BY Zenon
      <3>2. d \in Block /\ k - 1 = q
        BY <1>1, <1>3, <3>1
      <3>3. \A i \in Places : d[i] = Message((k - 1) * BlockLen + i)
        BY <1>1, <1>3, <1>4, <3>1, <3>2 DEF Places
      <3>4. d = MessageBlock(k)
        BY <3>2, <3>3, BlockOfMessage
      <3> HIDE DEF q
      <3>5. QED
        BY <3>1, <3>4 DEF MessageBlock, Message
    <2>4. \A k \in 1 .. Len(transformed') : transformed'[k] = MessageBlock(k)
      <3>1. \A k \in 1 .. q : transformed[k] = MessageBlock(k)
        BY DEF Consumed
      <3> HIDE DEF q
      <3>2. \A k \in 1 .. q + 1 : k \in 1 .. q \/ k = q + 1
        BY <1>1
      <3>3. QED
        BY <2>2, <2>3, <3>1, <3>2
    <2>5. bitlen' = 8 * (len' - datalen') /\ len' = Len(transformed') * BlockLen + datalen'
      <3>1. Len(transformed') * BlockLen = (q + 1) * BlockLen
        BY <2>2
      <3> HIDE DEF Q
      <3>2. QED
        BY <1>1, <1>2, <1>4, <2>1, <3>1
    <2>6. QED
      BY <1>2, <1>3, <2>1, <2>2, <2>4, <2>5 DEF Consumed, Places
  <1>5. CASE datalen + 1 # BlockLen
    <2>1. datalen' = datalen + 1 /\ transformed' = transformed /\ bitlen' = bitlen
      BY <1>5 DEF Update
    <2>2. datalen' \in Places
      BY <1>1, <1>5, <2>1 DEF Places
    <2>3. len' - datalen' = Q /\ datalen' - 1 = datalen
      BY <1>1, <1>2, <2>1
    <2>4. len' = Len(transformed') * BlockLen + datalen' /\ bitlen' = 8 * (len' - datalen')
      BY <1>1, <1>2, <2>1
    <2>5. \A i \in 0 .. datalen' - 1 : data'[i] = Message(len' - datalen' + i)
      BY <1>2, <1>3, <2>3
    <2>6. QED
      BY <1>2, <1>3, <2>1, <2>2, <2>4, <2>5 DEF Consumed
  <1>6. QED
    BY <1>4, <1>5

\* f is a sequence of m elements that begins with s.
Continues(f, m, s) == f = [k \in 1 .. m |-> f[k]] /\ \A k \in 1 .. Len(s) : f[k] = s[k]

\* A sequence and one block, or two, more.
LEMMA JoinOne ==
  ASSUME NEW T, NEW s \in Seq(T), NEW b \in T, NEW f, NEW q, Len(s) = q,
         Continues(f, q + 1, s), f[q + 1] = b
  PROVE  s \o <<b>> = f
  <1>1. q \in Nat /\ \A k \in 1 .. q + 1 : k \in 1 .. q \/ k = q + 1
    OBVIOUS
  <1>2. /\ \A k \in 1 .. q : s[k] \in T /\ f[k] = s[k]
        /\ f = [k \in 1 .. q + 1 |-> f[k]]
    <2>1. f = [k \in 1 .. q + 1 |-> f[k]]
      BY Zenon DEF Continues
    <2>2. \A k \in 1 .. q : f[k] = s[k]
      BY Zenon DEF Continues
    <2>3. \A k \in 1 .. q : s[k] \in T
      OBVIOUS
    <2>4. QED
      BY <2>1, <2>2, <2>3
  <1>3. f \in Seq(T) /\ Len(f) = q + 1
    <2>1. \A k \in 1 .. q + 1 : f[k] \in T
      BY <1>1, <1>2
    <2>2. QED
      BY <1>1, <1>2, <2>1
  <1>4. s \o <<b>> \in Seq(T) /\ Len(s \o <<b>>) = q + 1
    OBVIOUS
  <1>5. \A k \in 1 .. q : (s \o <<b>>)[k] = s[k]
    BY <1>1
  <1>6. (s \o <<b>>)[q + 1] = b
    BY <1>1
  <1>7. \A k \in 1 .. Len(f) : (s \o <<b>>)[k] = f[k]
    BY <1>1, <1>2, <1>3, <1>5, <1>6
  <1>8. QED
    BY <1>3, <1>4, <1>7, SeqEqual

LEMMA JoinTwo ==
  ASSUME NEW T, NEW s \in Seq(T), NEW a \in T, NEW b \in T, NEW f, NEW q, Len(s) = q,
         Continues(f, q + 2, s), f[q + 1] = a, f[q + 2] = b
  PROVE  s \o <<a, b>> = f
  <1>1. q \in Nat /\ \A k \in 1 .. q + 2 : k \in 1 .. q \/ k = q + 1 \/ k = q + 2
    OBVIOUS
  <1>2. /\ \A k \in 1 .. q : s[k] \in T /\ f[k] = s[k]
        /\ f = [k \in 1 .. q + 2 |-> f[k]]
    <2>1. f = [k \in 1 .. q + 2 |-> f[k]]
      BY Zenon DEF Continues
    <2>2. \A k \in 1 .. q : f[k] = s[k]
      BY Zenon DEF Continues
    <2>3. \A k \in 1 .. q : s[k] \in T
      OBVIOUS
    <2>4. QED
      BY <2>1, <2>2, <2>3
  <1>3. f \in Seq(T) /\ Len(f) = q + 2
    <2>1. \A k \in 1 .. q + 2 : f[k] \in T
      BY <1>1, <1>2
    <2>2. QED
      BY <1>1, <1>2, <2>1
  <1>4. s \o <<a, b>> \in Seq(T) /\ Len(s \o <<a, b>>) = q + 2
    OBVIOUS
  <1>5. \A k \in 1 .. q : (s \o <<a, b>>)[k] = s[k]
    BY <1>1
  <1>6. (s \o <<a, b>>)[q + 1] = a /\ (s \o <<a, b>>)[q + 2] = b
    BY <1>1
  <1>7. \A k \in 1 .. Len(f) : (s \o <<a, b>>)[k] = f[k]
    BY <1>1, <1>2, <1>3, <1>5, <1>6
  <1>8. QED
    BY <1>3, <1>4, <1>7, SeqEqual

\* sha256_final gives the transform the rest of the padded message.
LEMMA FinalPads ==
  ASSUME Consumed, Final
  PROVE  transformed' = Padded'
  <1> DEFINE q == Len(transformed)
             n == Blocks(len)
             first == Pad(data, BlockLen)
  <1>1. /\ len' = len
        /\ transformed' = transformed \o
             (IF RoomForLength(datalen) THEN <<LastBlock>> ELSE <<first, LastBlock>>)
    BY DEF Final, LastBlock
  <1>2. /\ RoomForLength(datalen) => n = q + 1 /\ LastBlock = PaddedBlock(n, q + 1)
        /\ ~RoomForLength(datalen) => /\ n = q + 2
                                      /\ first = PaddedBlock(n, q + 1)
                                      /\ LastBlock = PaddedBlock(n, q + 2)
        /\ \A k \in 1 .. q : transformed[k] = PaddedBlock(n, k)
    BY FinalBlocks
  <1>3. Padded' = [k \in 1 .. n |-> PaddedBlock(n, k)]
    <2>1. Padded' = Padded
      BY <1>1 DEF Padded
    <2>2. QED
      BY <2>1, PaddedBlocks
  <1>4. transformed \in Seq(Block) /\ q \in Nat
    BY DEF Consumed
  <1> DEFINE f == [k \in 1 .. n |-> PaddedBlock(n, k)]
             T == Block \cup {first, LastBlock}
  <1>5. transformed \in Seq(T) /\ first \in T /\ LastBlock \in T /\ Len(transformed) = q
    BY <1>4
  <1>6. /\ 1 .. q \subseteq 1 .. n
        /\ \A k \in 1 .. q : f[k] = transformed[k]
    BY <1>2, <1>4
  <1> HIDE DEF q, first, T
  <1>7. CASE RoomForLength(datalen)
    <2>1. f = [k \in 1 .. q + 1 |-> f[k]] /\ f[q + 1] = LastBlock
      BY <1>2, <1>4, <1>7
    <2> HIDE DEF f, n
    <2>2. Continues(f, q + 1, transformed)
      BY <1>5, <1>6, <2>1 DEF Continues
    <2>3. transformed \o <<LastBlock>> = f
      BY <1>5, <2>1, <2>2, JoinOne
    <2>4. QED
      BY <1>1, <1>3, <1>7, <2>3 DEF f
  <1>8. CASE ~RoomForLength(datalen)
    <2>1. f = [k \in 1 .. q + 2 |-> f[k]] /\ f[q + 1] = first /\ f[q + 2] = LastBlock
      BY <1>2, <1>4, <1>8
    <2> HIDE DEF f, n
    <2>2. Continues(f, q + 2, transformed)
      BY <1>5, <1>6, <2>1 DEF Continues
    <2>3. transformed \o <<first, LastBlock>> = f
      BY <1>5, <2>1, <2>2, JoinTwo
    <2>4. QED
      BY <1>1, <1>3, <1>8, <2>3 DEF f
  <1>9. QED
    BY <1>7, <1>8

LEMMA InvInit ==
  ASSUME Init
  PROVE  Inv
  <1>1. 0 * BlockLen = 0 /\ 0 \in Places /\ Junk \in Int
    BY DEF Places, Junk
  <1>2. QED
    BY <1>1 DEF Init, Inv, Consumed, Block, Places

\* What sha256_transform has been given is the padded message, whatever its
\* length and the size of a block.
THEOREM HashesPaddedMessageCorrect == Spec => []HashesPaddedMessage
  <1>1. Inv /\ [Next]_vars => Inv'
    <2> SUFFICES ASSUME Inv, [Next]_vars PROVE Inv'
      OBVIOUS
    <2>1. CASE Update
      BY <2>1, UpdatePreserves DEF Inv, Update
    <2>2. CASE Final
      BY <2>2, FinalPads DEF Inv, Final
    <2>3. CASE UNCHANGED vars
      <3>1. UNCHANGED <<data, datalen, bitlen, transformed, len, finished>>
        BY <2>3 DEF vars
      <3>2. QED
        BY <3>1 DEF Inv, Consumed, Padded
    <2>4. QED
      BY <2>1, <2>2, <2>3 DEF Next, Returned
  <1>2. Inv => HashesPaddedMessage
    BY DEF Inv, HashesPaddedMessage
  <1>3. QED
    BY <1>1, <1>2, InvInit, PTL DEF Spec

=============================================================================
