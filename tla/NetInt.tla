------------------------------- MODULE NetInt --------------------------------
(***************************************************************************)
(* The network-order integers of class Buffer: HTONx/NTOHx around a        *)
(* memcpy.  A w-byte integer is w digits in base Base, most significant    *)
(* first, in two's complement; the code has Base = 256, w in {1,2,4,8}.    *)
(***************************************************************************)
EXTENDS Integers, Sequences

CONSTANT Base       \* how many values a byte takes

ASSUME BaseAssumption == Base \in Nat /\ Base > 1 /\ Base % 2 = 0

Byte == 0 .. (Base - 1)

(* The number that digits spell behind first.                              *)
Value(first, digits) ==
  LET value[i \in 0 .. Len(digits)] ==
        IF i = 0 THEN first ELSE Base * value[i - 1] + digits[i]
  IN  value[Len(digits)]

(* How many values w bytes take, Base to the power of w.                   *)
Power(w) == Value(1, [i \in 1 .. w |-> 0])

(* The values intW_t can hold: w bytes, half of them negative.             *)
IntRange(w) == -(Power(w) \div 2) .. (Power(w) \div 2) - 1

(* The w bytes that x is written as, the only member of this set; \div and  *)
(* % round towards minus infinity, which gives two's complement.           *)
NetworkOrder(x, w) ==
  {bytes \in [1 .. w -> Byte] :
     \A i \in 1 .. w : bytes[i] = (x \div Power(w - i)) % Base}

(* The number that bytes spell, first as unsigned and then as signed.      *)
Unsigned(bytes) == Value(0, bytes)

(* Mutant: the sign is lost.                                               *)
Decode_Unsigned(bytes) == Unsigned(bytes)

Decode(bytes) ==
  LET u == Unsigned(bytes)
  IN  IF 2 * u >= Power(Len(bytes)) THEN u - Power(Len(bytes)) ELSE u
=============================================================================
