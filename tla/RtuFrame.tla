------------------------------- MODULE RtuFrame -------------------------------
(***************************************************************************)
(* Frames of modbus_rtu_client.c byte by byte: the request ADUs and their  *)
(* CRC16.  RtuTransaction takes a CRC for what tells a whole, undamaged    *)
(* frame from any other; here that is evaluated on the computation itself. *)
(***************************************************************************)
EXTENDS Naturals, Sequences, SequencesExt, Bitwise

\* One bit of mb_rtu_compute_crc16(); 40961 is 0xA001.
CrcBit(crc) == IF crc % 2 = 1 THEN (crc \div 2) ^^ 40961 ELSE crc \div 2

CrcByte(crc, byte) ==
  LET shift[c \in 0 .. 65535, bits \in 0 .. 8] ==
        IF bits = 0 THEN c ELSE shift[CrcBit(c), bits - 1]
  IN  shift[crc ^^ byte, 8]

Crc16(data) == FoldLeft(CrcByte, 65535, data)

\* append_uint16_be() and append_crc(): big-endian words, the CRC low byte first.
Word(value) == <<value \div 256, value % 256>>
AppendCrc(adu) == adu \o <<Crc16(adu) % 256, Crc16(adu) \div 256>>

\* verify_response_crc()
VerifyCrc(adu) ==
  /\ Len(adu) >= 2
  /\ Crc16(SubSeq(adu, 1, Len(adu) - 2)) = adu[Len(adu) - 1] + 256 * adu[Len(adu)]

\* The request functions; FC06 is acknowledged by the same bytes.
ReadHolding(unit, addr, qty) == AppendCrc(<<unit, 3>> \o Word(addr) \o Word(qty))
WriteSingle(unit, addr, value) == AppendCrc(<<unit, 6>> \o Word(addr) \o Word(value))
WriteMultiple(unit, addr, data) ==
  AppendCrc(<<unit, 16>> \o Word(addr) \o Word(Len(data)) \o <<(2 * Len(data)) % 256>>
            \o FlattenSeq([i \in DOMAIN data |-> Word(data[i])]))
-----------------------------------------------------------------------------
(* Reference: the remainder of the division by x^16 + x^15 + x^2 + 1 (0x8005) *)
(* of the bits as they are sent, lowest first, the first bit being the        *)
(* highest coefficient; the result is read from its other end.                *)

BitsSent(byte) == [i \in 1 .. 8 |-> (byte \div 2 ^ (i - 1)) % 2]

Divide(rem, bit) ==
  LET shifted == (2 * rem) % 65536
  IN  IF rem \div 32768 # bit THEN shifted ^^ 32773 ELSE shifted

Reversed(word) ==
  FoldLeft(LAMBDA r, i : 2 * r + ((word \div 2 ^ i) % 2), 0, [i \in 1 .. 16 |-> i - 1])

DivideByte(rem, byte) ==
  LET divide[r \in 0 .. 65535, i \in 1 .. 9] ==
        IF i = 9 THEN r ELSE divide[Divide(r, BitsSent(byte)[i]), i + 1]
  IN  divide[rem, 1]

ReferenceCrc(data) == Reversed(FoldLeft(DivideByte, 65535, data))
=============================================================================
