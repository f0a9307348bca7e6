------------------------------ MODULE Checksum ------------------------------
(***************************************************************************)
(* The checksum of a record: flash_tlv_append() computes it from tag,      *)
(* length and data, flash_tlv_verify() computes it again from flash, in    *)
(* chunks, and calc_crc8() of utils.c does the work from a table.          *)
(*                                                                         *)
(* One record is written; then bits of it rot, and it is verified again    *)
(* and again.  A rotten length is left out: verify then reads another      *)
(* number of bytes, of which no checksum of this kind says anything.  So   *)
(* are header and status, which it does not cover.                         *)
(***************************************************************************)
EXTENDS Integers, Sequences, FiniteSets

CONSTANTS
  Records,    \* what is appended: <<tag, data>>
  ChunkSize,  \* 32: of the buffer of flash_tlv_verify()
  FewFlips,   \* how many bits may rot anywhere
  Burst       \* how many bits in a row may rot

Byte == 0..255

ASSUME ChecksumAssumption ==
  /\ \A r \in Records : r[1] \in Nat /\ r[1] < 65536 /\ r[2] \in Seq(Byte) /\ Len(r[2]) < 65536
  /\ ChunkSize \in Nat \ {0} /\ FewFlips \in Nat /\ Burst \in Nat

VARIABLES
  block,   \* the meta field in flash: tag, length and crc8
  entity,  \* the data in flash
  rotten,  \* the places of the bits that have rotted since the append
  check    \* the verification: crc8, what was read and is to be read, verdict

vars == <<block, entity, rotten, check>>

(* The ^ of two bytes. *)
XorByte(a, b) ==
  LET bit(k) == ((a \div 2^k + b \div 2^k) % 2) * 2^k
  IN  bit(0) + bit(1) + bit(2) + bit(3) + bit(4) + bit(5) + bit(6) + bit(7)

CRC8_LUT ==
  <<0, 7, 14, 9, 28, 27, 18, 21, 56, 63, 54, 49, 36, 35, 42, 45,
    112, 119, 126, 121, 108, 107, 98, 101, 72, 79, 70, 65, 84, 83, 90, 93,
    224, 231, 238, 233, 252, 251, 242, 245, 216, 223, 214, 209, 196, 195, 202, 205,
    144, 151, 158, 153, 140, 139, 130, 133, 168, 175, 166, 161, 180, 179, 186, 189,
    199, 192, 201, 206, 219, 220, 213, 210, 255, 248, 241, 246, 227, 228, 237, 234,
    183, 176, 185, 190, 171, 172, 165, 162, 143, 136, 129, 134, 147, 148, 157, 154,
    39, 32, 41, 46, 59, 60, 53, 50, 31, 24, 17, 22, 3, 4, 13, 10,
    87, 80, 89, 94, 75, 76, 69, 66, 111, 104, 97, 102, 115, 116, 125, 122,
    137, 142, 135, 128, 149, 146, 155, 156, 177, 182, 191, 184, 173, 170, 163, 164,
    249, 254, 247, 240, 229, 226, 235, 236, 193, 198, 207, 200, 221, 218, 211, 212,
    105, 110, 103, 96, 117, 114, 123, 124, 81, 86, 95, 88, 77, 74, 67, 68,
    25, 30, 23, 16, 5, 2, 11, 12, 33, 38, 47, 40, 61, 58, 51, 52,
    78, 73, 64, 71, 82, 85, 92, 91, 118, 113, 120, 127, 106, 109, 100, 99,
    62, 57, 48, 55, 34, 37, 44, 43, 6, 1, 8, 15, 26, 29, 20, 19,
    174, 169, 160, 167, 178, 181, 188, 187, 150, 145, 152, 159, 138, 141, 132, 131,
    222, 217, 208, 215, 194, 197, 204, 203, 230, 225, 232, 239, 250, 253, 244, 243>>

(* Mutant of CalcCrc8: the table is not used. *)
BugCalcCrc8(init, data) ==
  LET crc8[n \in 0..Len(data)] == IF n = 0 THEN init ELSE XorByte(crc8[n - 1], data[n])
  IN  crc8[Len(data)]

(* Mutant of CalcCrc8: the byte comes in after the table. *)
BugCalcCrc8Late(init, data) ==
  LET crc8[n \in 0..Len(data)] ==
        IF n = 0 THEN init ELSE XorByte(CRC8_LUT[crc8[n - 1] + 1], data[n])
  IN  crc8[Len(data)]

CalcCrc8(init, data) ==
  LET crc8[n \in 0..Len(data)] ==
        IF n = 0 THEN init ELSE CRC8_LUT[XorByte(crc8[n - 1], data[n]) + 1]
  IN  crc8[Len(data)]

(* A 16-bit number in memory. *)
TwoBytes(n) == <<n % 256, n \div 256>>

AppendCrc(tag, data) ==
  CalcCrc8(CalcCrc8(CalcCrc8(0, TwoBytes(tag)), TwoBytes(Len(data))), data)

NotChecked == [crc8 |-> 0, offset |-> 0, length |-> 0, verdict |-> "none"]

Init ==
  /\ \E r \in Records :
       /\ block = [tag |-> r[1], length |-> Len(r[2]), crc8 |-> AppendCrc(r[1], r[2])]
       /\ entity = r[2]
  /\ rotten = {}
  /\ check = NotChecked

(***************************************************************************)
(* The places of bits in the order in which the checksum takes them, the   *)
(* highest bit of a byte first: tag, length, data and the checksum.        *)
(***************************************************************************)
Places == LET n == 8 * (5 + Len(entity)) IN (0..15) \cup (32..(n - 1))

InBurst(places) == \A p, q \in places : p - q < Burst

Flipped(byte, p) == XorByte(byte, 2^(7 - (p % 8)))

Rot(p) ==
  LET i == p \div 8
  IN  CASE i < 2 ->
             /\ block' = [block EXCEPT !.tag = LET b == TwoBytes(@)
                                                   c == [b EXCEPT ![i + 1] = Flipped(@, p)]
                                               IN  c[1] + 256 * c[2]]
             /\ UNCHANGED entity
        [] i >= 4 /\ i < 4 + Len(entity) ->
             /\ entity' = [entity EXCEPT ![i - 3] = Flipped(@, p)]
             /\ UNCHANGED block
        [] OTHER ->
             /\ block' = [block EXCEPT !.crc8 = Flipped(@, p)]
             /\ UNCHANGED entity

Running == check.verdict = "running"

BitRots ==
  /\ ~Running
  /\ \E p \in Places \ rotten :
       /\ rotten' = rotten \cup {p}
       /\ Cardinality(rotten') <= FewFlips \/ InBurst(rotten')
       /\ Rot(p)
  /\ check' = NotChecked

(***************************************************************************)
(* flash_tlv_verify(), of the block that a query has found                 *)
(***************************************************************************)
VerifyBegins ==
  /\ ~Running
  /\ check' = [crc8 |-> CalcCrc8(0, TwoBytes(block.tag) \o TwoBytes(block.length)),
               offset |-> 0, length |-> block.length, verdict |-> "running"]
  /\ UNCHANGED <<block, entity, rotten>>

Trunk == IF check.length > ChunkSize THEN ChunkSize ELSE check.length

(* The loop ends when nothing is left, after one round at least. *)
Verdict(length, crc8) ==
  IF length # 0 THEN "running" ELSE IF block.crc8 = crc8 THEN "true" ELSE "false"

(* Mutant of VerifyChunk: the offset stays. *)
BugVerifyChunk ==
  /\ Running
  /\ LET crc8 == CalcCrc8(check.crc8, SubSeq(entity, check.offset + 1, check.offset + Trunk))
         length == check.length - Trunk
     IN  check' = [crc8 |-> crc8, offset |-> check.offset, length |-> length,
                   verdict |-> Verdict(length, crc8)]
  /\ UNCHANGED <<block, entity, rotten>>

VerifyChunk ==
  /\ Running
  /\ LET crc8 == CalcCrc8(check.crc8, SubSeq(entity, check.offset + 1, check.offset + Trunk))
         length == check.length - Trunk
     IN  check' = [crc8 |-> crc8, offset |-> check.offset + Trunk, length |-> length,
                   verdict |-> Verdict(length, crc8)]
  /\ UNCHANGED <<block, entity, rotten>>

Next == BitRots \/ VerifyBegins \/ VerifyChunk

Spec == Init /\ [][Next]_vars

-----------------------------------------------------------------------------
(***************************************************************************)
(* The reference: the remainder, bit by bit, of a message, followed by     *)
(* eight zeros, divided by a polynomial.                                   *)
(***************************************************************************)
Polynomial == 2^8 + 2^2 + 2^1 + 1

Bits(bytes) == [i \in 1..(8 * Len(bytes)) |->
                 (bytes[(i - 1) \div 8 + 1] \div 2^(7 - ((i - 1) % 8))) % 2]

Remainder(bytes) ==
  LET bits == Bits(bytes \o <<0>>)
      rest[n \in 0..Len(bits)] ==
        IF n = 0 THEN 0
        ELSE LET r == 2 * rest[n - 1] + bits[n] IN IF r < 256 THEN r ELSE XorByte(r - 256, Polynomial - 256)
  IN  rest[Len(bits)]

(* What has been computed so far is the remainder of what has been read    *)
(* ("X^8+X^2+X^1+1", at the table and at crc8 of tlv_block_t): the table   *)
(* is that of the polynomial, and chunks make no difference.               *)
CrcIsRemainder ==
  check.verdict # "none" =>
    check.crc8 = Remainder(TwoBytes(block.tag) \o TwoBytes(block.length)
                             \o SubSeq(entity, 1, check.offset))

(* verify accepts what append has written: the two agree on what the       *)
(* checksum covers, for a record without data and on each side of the end  *)
(* of a chunk too.                                                         *)
SoundRecordAccepted == rotten = {} => check.verdict # "false"

(* ... and rejects a record of which a few bits, or any bits of a burst no *)
(* longer than the checksum, have rotted, be it in its tag, so that it     *)
(* would be found as another, in its data or in the checksum itself.       *)
DamageRejected == rotten # {} => check.verdict # "true"
=============================================================================
