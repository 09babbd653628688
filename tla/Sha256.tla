------------------------------- MODULE Sha256 -------------------------------
(***************************************************************************)
(* How sha256 of task3_filesystem_security/crypto.c cuts a message into    *)
(* blocks and pads the last ones: sha256_init, sha256_update byte by byte, *)
(* and sha256_final, with sha256_transform reduced to the list of blocks   *)
(* it is given.  Passwords, salts and passphrases all pass through here.   *)
(***************************************************************************)
EXTENDS Integers, Sequences, FiniteSetsExt

CONSTANTS
  BlockLen,   \* the 64 bytes of ctx->data
  MaxLen      \* bound: the length of a message

ASSUME BlockLenAssumption == BlockLen \in Nat /\ BlockLen > 8 /\ MaxLen \in 0 .. 2^28

LenAt == BlockLen - 8      \* 56, where the bit length goes

\* Byte i of the message is the symbol 256 + i, which is no byte value, and a
\* byte of ctx->data that nobody has written is Junk.
Message(i) == 256 + i
Junk       == -1

VARIABLES
  data, datalen, bitlen,   \* the SHA256_CTX; data is indexed from 0
  transformed,             \* the blocks sha256_transform has been given
  len,                     \* the bytes sha256_update has consumed
  finished                 \* sha256_final has returned

vars == <<data, datalen, bitlen, transformed, len, finished>>

\* sha256_init; the context is a local variable and data is not initialised.
Init ==
  /\ data = [i \in 0 .. BlockLen - 1 |-> Junk]
  /\ datalen = 0 /\ bitlen = 0
  /\ transformed = << >>
  /\ len = 0
  /\ finished = FALSE

\* sha256_update: the next byte, and the block when it is full.
Update ==
  LET next == [data EXCEPT ![datalen] = Message(len)] IN
  /\ ~finished
  /\ len < MaxLen
  /\ data' = next
  /\ len' = len + 1
  /\ IF datalen + 1 = BlockLen
       THEN /\ transformed' = Append(transformed, next)
            /\ bitlen' = bitlen + 8 * BlockLen
            /\ datalen' = 0
       ELSE /\ datalen' = datalen + 1
            /\ UNCHANGED <<transformed, bitlen>>
  /\ UNCHANGED finished

\* The test for room for the length, one off.
RoomForLengthOffByOne(n) == n <= LenAt
RoomForLength(n) == n < LenAt

\* d with 0x80 at datalen and zeros from there to the end.
Pad(d, end) ==
  [i \in DOMAIN d |-> IF i = datalen THEN 128
                      ELSE IF i \in datalen + 1 .. end - 1 THEN 0
                      ELSE d[i]]

\* The bit length as eight bytes, the last of them the least significant.
WithLength(d, bits) ==
  [i \in DOMAIN d |-> IF i < LenAt THEN d[i]
                      ELSE IF BlockLen - 1 - i > 3 THEN 0   \* bits < 2^32
                      ELSE (bits \div 256 ^ (BlockLen - 1 - i)) % 256]

\* sha256_final: if there is no room for the length, a block of padding first.
Final ==
  LET bits   == bitlen + 8 * datalen
      first  == Pad(data, BlockLen)
      zeroed == [i \in DOMAIN first |-> IF i < LenAt THEN 0 ELSE first[i]]
      last   == WithLength(IF RoomForLength(datalen) THEN Pad(data, LenAt) ELSE zeroed, bits)
  IN
  /\ ~finished
  /\ finished' = TRUE
  /\ transformed' = transformed \o
       (IF RoomForLength(datalen) THEN <<last>> ELSE <<first, last>>)
  /\ data' = last
  /\ bitlen' = bits
  /\ UNCHANGED <<datalen, len>>

\* sha256 returns.
Returned == finished /\ UNCHANGED vars

Next == Update \/ Final \/ Returned

Spec == Init /\ [][Next]_vars

-----------------------------------------------------------------------------
(* Correctness.                                                            *)

\* The message, 0x80, zeros, and the bit length in the last eight bytes of the
\* least number of whole blocks: what the standard says is hashed.
Padded ==
  LET n == Min({k \in 1 .. len + 1 : k * BlockLen >= len + 9})
      Byte(j) == IF j < len THEN Message(j)
                 ELSE IF j = len THEN 128
                 ELSE IF j >= n * BlockLen - 4   \* 8 * len < 2^32
                   THEN ((8 * len) \div 256 ^ (n * BlockLen - 1 - j)) % 256
                 ELSE 0
  IN  [k \in 1 .. n |-> [i \in 0 .. BlockLen - 1 |-> Byte((k - 1) * BlockLen + i)]]

\* sha256_transform has been given the padded message and nothing else, for
\* every length on either side of the boundaries at 55, 56, 63 and 64 bytes.
HashesPaddedMessage == finished => transformed = Padded

=============================================================================
