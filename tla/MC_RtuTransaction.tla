------------------------- MODULE MC_RtuTransaction -------------------------
(* A read of one register (0x210C of inverter_map.c), a single write, and a *)
(* multiple write, whose response is as long as that of the single one.     *)
(* For the late answers, single writes to the operation and the frequency   *)
(* register.                                                                *)
EXTENDS RtuTransaction, RtuFrame

MCRequests == {[fc |-> 3, addr |-> 8460, qty |-> 1],
               [fc |-> 6, addr |-> 8193, qty |-> 1],
               [fc |-> 16, addr |-> 8192, qty |-> 2]}
MCWrites == {[fc |-> 6, addr |-> 8192, qty |-> 1],
             [fc |-> 6, addr |-> 8193, qty |-> 1]}

\* Requests of the three kinds to unit 1, with extreme values.
MCFrames == {ReadHolding(1, 8460, 1), WriteSingle(1, 8193, 65535),
             WriteMultiple(1, 8192, <<0, 5000>>)}

\* The CRC is the remainder of the polynomial division, for every byte and for
\* whole frames, and 0x0A84 for the first vector of test_modbus_rtu_crc.c; a
\* frame as it is built passes the check that responses get.
ASSUME CrcIsRemainder ==
  /\ Crc16(<<1, 3, 0, 0, 0, 1>>) = 2692
  /\ \A byte \in 0 .. 255 : Crc16(<<byte>>) = ReferenceCrc(<<byte>>)
  /\ \A f \in MCFrames : Crc16(f) = ReferenceCrc(f) /\ VerifyCrc(f)

Damaged(f, i, by) == [f EXCEPT ![i] = @ ^^ by]

\* What RtuTransaction assumes of a damaged or cut frame: any damage within one
\* byte or at the edge of two, a lost byte at either end, and a frame whose
\* CRC bytes were swapped fail the check.
ASSUME DamageIsSeen ==
  \A f \in MCFrames :
    /\ \A i \in DOMAIN f, by \in 1 .. 255 : ~VerifyCrc(Damaged(f, i, by))
    /\ \A i \in 1 .. Len(f) - 1, a, b \in {1, 3, 128, 170, 255} :
         ~VerifyCrc(Damaged(Damaged(f, i, a), i + 1, b))
    /\ ~VerifyCrc(Tail(f))
    /\ ~VerifyCrc(SubSeq(f, 1, Len(f) - 1))
    /\ LET n == Len(f)
       IN  ~VerifyCrc([f EXCEPT ![n - 1] = f[n], ![n] = f[n - 1]])
=============================================================================
