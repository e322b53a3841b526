----------------------------- MODULE BitUtilities -----------------------------
(***************************************************************************)
(* The bit and string helpers of src/stack/framework/byte-utilities.c.     *)
(* An array is the function of its bits, the most significant bit of the   *)
(* first byte at 0; a string is the function of its bytes.                 *)
(***************************************************************************)
EXTENDS Integers

Shorter(a, b) == IF a < b THEN a ELSE b

SameByte(x, y, k) == \A i \in (8 * k)..(8 * k + 7) : x[i] = y[i]

(* emMatchingPrefixBitLength: whole bytes first, then the bits of the next *)
(* one from the highest.                                                   *)
MatchingBytes(x, y, length) ==
  CHOOSE k \in 0..(length \div 8) :
    /\ k = length \div 8 \/ ~SameByte(x, y, k)
    /\ \A j \in 0..(k - 1) : SameByte(x, y, j)

MatchingPrefixBitLength(x, xLength, y, yLength) ==
  LET length == Shorter(xLength, yLength)
      first  == 8 * MatchingBytes(x, y, length)
  IN  CHOOSE count \in first..Shorter(length, first + 8) :
        /\ count = Shorter(length, first + 8) \/ x[count] # y[count]
        /\ \A i \in first..(count - 1) : x[i] = y[i]

(* emBitCopy: fullBytes is a uint8_t.                                      *)
BitCopy(to, from, count) ==
  LET fullBytes == (count \div 8) % 256
      extraBits == count % 8
  IN  [i \in DOMAIN to |->
         IF i < 8 * fullBytes + extraBits THEN from[i] ELSE to[i]]

(* The cast of a difference of two bytes to int8_t.                        *)
Int8(value) == IF (value % 256) < 128 THEN value % 256 ELSE (value % 256) - 256

(* emStrcmp: the loop ends at the end of s1 or at the first difference.    *)
StopsAt(s1, s2, n) ==
  /\ s1[n] = 0 \/ s1[n] # s2[n]
  /\ \A i \in 0..(n - 1) : s1[i] # 0 /\ s1[i] = s2[i]

Strcmp(s1, s2) ==
  LET n == CHOOSE n \in Nat : StopsAt(s1, s2, n)
  IN  Int8(s1[n] - s2[n])
=============================================================================
