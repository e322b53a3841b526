------------------------------ MODULE CspProofs ------------------------------
(***************************************************************************)
(* The serialization protocol: what is sent is what is read, for every     *)
(* format, every identifier and all values that fit it, and what follows   *)
(* for a session: the commands, responses and indications of the           *)
(* catalogues, and the switch of the message length mode.                  *)
(*                                                                         *)
(* In order: sequences joined and folded; one field stored and fetched; a  *)
(* whole frame; the catalogues of commands and indications; the values     *)
(* tried of them; the session.                                             *)
(***************************************************************************)
EXTENDS CspSession, ConversionProofs, SequenceTheorems, WellFoundedInduction

-----------------------------------------------------------------------------
(* Sequences.                                                              *)

(* A set that has 0, and with every number the next one, has all numbers.  *)
LEMMA AllNumbers ==
  ASSUME NEW S, 0 \in S, \A n \in Nat : n \in S => n + 1 \in S
  PROVE  \A n \in Nat : n \in S
<1> DEFINE missing == {n \in Nat : n \notin S}
<1> DEFINE less == {pair \in Nat \X Nat : pair[1] < pair[2]}
<1> SUFFICES ASSUME missing # {} PROVE FALSE
  OBVIOUS
<1>1. IsWellFoundedOn(less, Nat)
  BY NatLessThanWellFounded DEF OpToRel
<1>2. \E n \in missing : \A m \in missing : ~ (<<m, n>> \in less)
  <2> HIDE DEF less
  <2>1. missing \subseteq Nat
    OBVIOUS
  <2> HIDE DEF missing
  <2> QED
    BY <1>1, <2>1, WFMin, Zenon
<1>3. PICK n \in missing : \A m \in missing : ~ (<<m, n>> \in less)
  BY <1>2, Zenon
<1>4. n - 1 \in missing
  BY <1>3
<1>5. \A m \in Nat : m < n => <<m, n>> \in less
  BY <1>3
<1>6. <<n - 1, n>> \in less
  <2> HIDE DEF less
  <2> QED BY <1>4, <1>5
<1> QED
  <2> HIDE DEF less, missing
  <2> QED BY <1>3, <1>4, <1>6, Zenon

(* What the first of n byte sequences make, one after another.             *)
Joins(parts, n, C) ==
  /\ C \in [0..n -> Seq(Byte)]
  /\ C[0] = <<>>
  /\ \A i \in 1..n : C[i] = C[i - 1] \o parts[i]

LEMMA JoinsExist ==
  ASSUME NEW n \in Nat, NEW parts, \A i \in 1..n : parts[i] \in Seq(Byte)
  PROVE  \E C : Joins(parts, n, C)
<1> DEFINE S == {k \in Nat : k <= n => \E C : Joins(parts, k, C)}
<1>1. 0 \in S
  <2> DEFINE C == [i \in 0..0 |-> <<>>]
  <2>1. C \in [0..0 -> Seq(Byte)] /\ C[0] = <<>>
    OBVIOUS
  <2> HIDE DEF C
  <2>2. Joins(parts, 0, C)
    BY <2>1 DEF Joins
  <2> QED
    BY <2>2
<1>2. ASSUME NEW k \in Nat, k \in S PROVE k + 1 \in S
  <2> SUFFICES ASSUME k + 1 <= n PROVE \E D : Joins(parts, k + 1, D)
    OBVIOUS
  <2>1. PICK C : Joins(parts, k, C)
    BY <1>2
  <2> DEFINE last == C[k] \o parts[k + 1]
  <2> DEFINE D == [i \in 0..(k + 1) |-> IF i = k + 1 THEN last ELSE C[i]]
  <2>2. C[k] \in Seq(Byte) /\ parts[k + 1] \in Seq(Byte) /\ C \in [0..k -> Seq(Byte)]
    BY <2>1 DEF Joins
  <2>3. last \in Seq(Byte)
    BY <2>2
  <2> HIDE DEF last
  <2>4. D \in [0..(k + 1) -> Seq(Byte)] /\ D[k + 1] = last
    BY <2>2, <2>3
  <2>5. \A i \in 0..k : D[i] = C[i]
    BY <2>2
  <2> HIDE DEF D
  <2>6. \A i \in 1..(k + 1) : D[i] = D[i - 1] \o parts[i]
    <3> SUFFICES ASSUME NEW i \in 1..(k + 1) PROVE D[i] = D[i - 1] \o parts[i]
      OBVIOUS
    <3>1. CASE i = k + 1
      <4>1. i - 1 = k /\ k \in 0..k
        BY <3>1
      <4> QED
        BY <2>4, <2>5, <3>1, <4>1, Zenon DEF last
    <3>2. CASE i \in 1..k
      <4>1. i - 1 \in 0..k /\ i \in 0..k
        BY <3>2
      <4> QED
        BY <2>1, <2>5, <3>2, <4>1, Zenon DEF Joins
    <3>3. i = k + 1 \/ i \in 1..k
      OBVIOUS
    <3> QED
      BY <3>1, <3>2, <3>3, Zenon
  <2>7. D[0] = <<>>
    <3>1. 0 \in 0..k
      OBVIOUS
    <3> QED
      BY <2>1, <2>5, <3>1, Zenon DEF Joins
  <2>8. Joins(parts, k + 1, D)
    BY <2>4, <2>6, <2>7, Zenon DEF Joins
  <2> QED
    BY <2>8, Zenon
<1>3. n \in S
  <2> HIDE DEF S
  <2> QED
    BY <1>1, <1>2, AllNumbers, Zenon
<1>4. n <= n
  OBVIOUS
<1> QED
  BY <1>3, <1>4, Zenon

(* FlattenSeq joins the parts.                                             *)
LEMMA Flattened ==
  ASSUME NEW n \in Nat, NEW parts, Len(parts) = n, n = 0 => parts = <<>>,
         \A i \in 1..n : parts[i] \in Seq(Byte), NEW C, Joins(parts, n, C)
  PROVE  FlattenSeq(parts) = C[n]
<1>1. CASE n = 0
  <2>1. FlattenSeq(parts) = <<>>
    BY <1>1, Zenon DEF FlattenSeq
  <2>2. C[0] = <<>>
    BY Zenon DEF Joins
  <2> QED
    BY <1>1, <2>1, <2>2
<1>2. CASE n # 0
  <2> DEFINE Recurs(f) == f = [i \in 1..n |-> IF i = 1 THEN parts[i] ELSE f[i - 1] \o parts[i]]
  <2> DEFINE flatten == CHOOSE f : Recurs(f)
  <2>1. FlattenSeq(parts) = flatten[n]
    BY <1>2, Zenon DEF FlattenSeq
  <2>2. C[1] = parts[1]
    <3>1. 1 \in 1..n /\ 1 - 1 = 0
      BY <1>2
    <3>2. parts[1] \in Seq(Byte) /\ C[1] = <<>> \o parts[1]
      BY <3>1, Zenon DEF Joins
    <3> QED
      BY <3>2, ConcatEmptySeq, Zenon
  <2>3. \A i \in 1..n : i # 1 => C[i] = C[i - 1] \o parts[i]
    BY Zenon DEF Joins
  <2> DEFINE D == [i \in 1..n |-> C[i]]
  <2>4. \A i \in 1..n : i # 1 => i - 1 \in 1..n
    OBVIOUS
  <2>5. Recurs(D)
    <3>1. \A i \in 1..n : C[i] = IF i = 1 THEN parts[i] ELSE D[i - 1] \o parts[i]
      BY <2>2, <2>3, <2>4, Zenon
    <3> QED
      BY <3>1, Zenon
  <2>6. Recurs(flatten)
    <3> HIDE DEF D, Recurs
    <3> QED
      BY <2>5, Zenon
  <2> HIDE DEF flatten
  <2>7. \A i \in 1..n : flatten[i] = IF i = 1 THEN parts[i] ELSE flatten[i - 1] \o parts[i]
    <3> DEFINE F == [i \in 1..n |-> IF i = 1 THEN parts[i] ELSE flatten[i - 1] \o parts[i]]
    <3>1. flatten = F
      BY <2>6, Zenon
    <3>2. \A i \in 1..n : F[i] = IF i = 1 THEN parts[i] ELSE flatten[i - 1] \o parts[i]
      BY Zenon
    <3> HIDE DEF F
    <3> QED
      BY <3>1, <3>2, Zenon
  <2> HIDE DEF Recurs
  <2> DEFINE S == {k \in Nat : k + 1 \in 1..n => flatten[k + 1] = C[k + 1]}
  <2>8. 0 \in S
    <3>1. 0 + 1 = 1 /\ 1 \in 1..n /\ 0 \in Nat
      BY <1>2
    <3> QED
      BY <2>2, <2>7, <3>1, Zenon
  <2>9. ASSUME NEW k \in Nat, k \in S PROVE k + 1 \in S
    <3> DEFINE i == k + 1 + 1
    <3>1. k + 1 \in Nat /\ (i \in 1..n => i - 1 = k + 1 /\ k + 1 \in 1..n /\ i # 1)
      OBVIOUS
    <3> HIDE DEF i
    <3>2. k + 1 \in 1..n => flatten[k + 1] = C[k + 1]
      BY <2>9, Zenon
    <3>3. ASSUME i \in 1..n PROVE flatten[i] = C[i]
      <4>1. flatten[i] = flatten[i - 1] \o parts[i] /\ C[i] = C[i - 1] \o parts[i]
        BY <2>3, <2>7, <3>1, <3>3, Zenon
      <4> QED
        BY <3>1, <3>2, <3>3, <4>1, Zenon
    <3> QED
      BY <3>1, <3>3, Zenon DEF i
  <2>10. n - 1 \in S
    <3> HIDE DEF S
    <3>1. n - 1 \in Nat
      BY <1>2
    <3> QED
      BY <3>1, <2>8, <2>9, AllNumbers, Zenon
  <2>11. n - 1 + 1 = n /\ n \in 1..n
    BY <1>2
  <2> QED
    BY <2>1, <2>10, <2>11, Zenon
<1> QED
  BY <1>1, <1>2

(* A prefix is found again at the front of every longer one.               *)
LEMMA PrefixStays ==
  ASSUME NEW n \in Nat, NEW parts, \A k \in 1..n : parts[k] \in Seq(Byte),
         NEW C, Joins(parts, n, C), NEW i \in 0..n, NEW m \in i..n
  PROVE  Len(C[i]) <= Len(C[m]) /\ \A j \in 1..Len(C[i]) : C[m][j] = C[i][j]
<1> DEFINE Begins(a) == Len(C[i]) <= Len(a) /\ \A j \in 1..Len(C[i]) : a[j] = C[i][j]
<1> DEFINE S == {k \in Nat : i + k \in i..n => Begins(C[i + k])}
<1>0. C[i] \in Seq(Byte) /\ \A k \in 1..n : C[k] = C[k - 1] \o parts[k]
  BY DEF Joins
<1>1. 0 \in S
  <2>1. i + 0 = i /\ Len(C[i]) \in Nat
    BY <1>0
  <2> QED
    BY <2>1
<1>2. ASSUME NEW k \in Nat, k \in S PROVE k + 1 \in S
  <2> DEFINE a == C[i + k]
  <2> DEFINE b == parts[i + (k + 1)]
  <2> SUFFICES ASSUME i + (k + 1) \in i..n PROVE Begins(C[i + (k + 1)])
    OBVIOUS
  <2>1. i + k \in i..n /\ i + k \in 0..n /\ i + (k + 1) \in 1..n /\ i + (k + 1) - 1 = i + k
    OBVIOUS
  <2>2. Begins(a)
    BY <1>2, <2>1, Zenon
  <2>3. C[i + (k + 1)] = a \o b /\ a \in Seq(Byte) /\ b \in Seq(Byte)
    <3> DEFINE p == i + (k + 1)
    <3>1. p \in 1..n /\ p - 1 = i + k
      BY <2>1
    <3> HIDE DEF p
    <3>2. C[p] = C[p - 1] \o parts[p] /\ parts[p] \in Seq(Byte)
      BY <1>0, <3>1, Zenon
    <3>3. a \in Seq(Byte)
      BY <2>1, Zenon DEF Joins
    <3> QED
      BY <3>1, <3>2, <3>3, Zenon DEF p
  <2> HIDE DEF a, b
  <2>4. Len(a \o b) = Len(a) + Len(b) /\ \A j \in 1..Len(a) : (a \o b)[j] = a[j]
    BY <2>3
  <2> DEFINE c == C[i]
  <2>5. c \in Seq(Byte)
    BY <1>0
  <2> HIDE DEF c
  <2> QED
    BY <2>2, <2>3, <2>4, <2>5 DEF c
<1>3. m - i \in S
  <2> HIDE DEF S
  <2>1. m - i \in Nat
    OBVIOUS
  <2> QED
    BY <1>1, <1>2, <2>1, AllNumbers, Zenon
<1>4. i + (m - i) = m /\ m \in i..n
  OBVIOUS
<1> HIDE DEF Begins
<1>5. Begins(C[m])
  BY <1>3, <1>4
<1> QED
  BY <1>5, Zenon DEF Begins

(* So every part is found where the ones before it end.                    *)
Placed(parts, n, C, i) ==
  /\ C[i - 1] \in Seq(Byte) /\ C[n] \in Seq(Byte)
  /\ Len(C[i]) = Len(C[i - 1]) + Len(parts[i])
  /\ Len(C[i - 1]) + Len(parts[i]) <= Len(C[n])
  /\ \A j \in 1..Len(parts[i]) : C[n][Len(C[i - 1]) + j] = parts[i][j]

LEMMA PartStays ==
  ASSUME NEW n \in Nat, NEW parts, \A k \in 1..n : parts[k] \in Seq(Byte),
         NEW C, Joins(parts, n, C), NEW i \in 1..n
  PROVE  Placed(parts, n, C, i)
<1> DEFINE a == C[i - 1]
<1> DEFINE b == parts[i]
<1>1. i - 1 \in 0..n /\ i \in 0..n /\ n \in 0..n /\ n \in i..n
  OBVIOUS
<1>2. a \in Seq(Byte) /\ b \in Seq(Byte) /\ C[n] \in Seq(Byte) /\ C[i] = a \o b
  <2>1. \A k \in 1..n : C[k] = C[k - 1] \o parts[k]
    BY DEF Joins
  <2>2. C \in [0..n -> Seq(Byte)]
    BY DEF Joins
  <2>3. C[i] = a \o b
    BY <2>1
  <2>4. a \in Seq(Byte) /\ C[n] \in Seq(Byte)
    BY <1>1, <2>2
  <2>5. b \in Seq(Byte)
    BY SMT
  <2> QED
    BY <2>3, <2>4, <2>5
<1>3. Len(C[i]) <= Len(C[n]) /\ \A j \in 1..Len(C[i]) : C[n][j] = C[i][j]
  BY <1>1, PrefixStays
<1> HIDE DEF a, b
<1> DEFINE c == C[n]
<1>4. Len(a \o b) = Len(a) + Len(b) /\ \A j \in 1..Len(b) : (a \o b)[Len(a) + j] = b[j]
  BY <1>2
<1>5. Len(a \o b) <= Len(c) /\ \A j \in 1..Len(a \o b) : c[j] = (a \o b)[j]
  BY <1>2, <1>3, Zenon
<1> HIDE DEF c
<1>6. Len(a) + Len(b) <= Len(c) /\ \A j \in 1..Len(b) : c[Len(a) + j] = b[j]
  BY <1>2, <1>4, <1>5
<1>7. /\ a \in Seq(Byte) /\ c \in Seq(Byte)
      /\ Len(C[i]) = Len(a) + Len(b)
  BY <1>2, <1>4, ZenonT(60) DEF c
<1> QED
  BY <1>6, <1>7 DEF Placed, a, b, c

-----------------------------------------------------------------------------
(* One field.                                                              *)

(* What a field of each kind can carry: the arguments of the API, whose    *)
(* lengths fit the length variable of the kind and, in the short mode, a   *)
(* byte.                                                                   *)
MaxLength(kind, long) == IF long /\ WideLength(kind) THEN 65535 ELSE 255

Carried(kind, long) ==
  CASE kind \in {"u", "s"} -> Byte
    [] kind \in {"v", "a"} -> Int16
    [] kind = "w"          -> Int32
    [] kind \in {"l", "n"} -> Nat
    [] kind \in ArrayKinds -> {bytes \in Seq(Byte) : Len(bytes) <= MaxLength(kind, long)}

LEMMA ArrayKindsAre ==
  ArrayKinds = {"eui64", "key", "bytes", "payload", "beaconFields", "beaconPayload"}
BY DEF ArrayKinds, Capacity

LEMMA CapacityTypes == \A kind \in ArrayKinds : Capacity[kind] \in Nat /\ Capacity[kind] <= 2048
BY DEF ArrayKinds, Capacity

(* The part is in the frame from the place on.                             *)
Holds(frame, at, part) ==
  \A j \in 1..Len(part) : at + j - 1 \in 1..Len(frame) /\ frame[at + j - 1] = part[j]

(* The length of an array is one byte, or two, and read back.              *)
LEMMA LengthReadBack ==
  ASSUME NEW long \in BOOLEAN, NEW length \in Nat, NEW frame \in Seq(Byte), NEW at \in Nat \ {0},
         length <= IF long THEN 65535 ELSE 255, Holds(frame, at, StoreLength(long, length))
  PROVE  FetchLength(frame, at, long) = length
<1>1. CASE long
  <2>1. StoreLength(long, length) = <<HighByte(length), LowByte(length)>>
    BY <1>1 DEF StoreLength, StoreHighLowInt16u
  <2>2. frame[at] = HighByte(length) /\ frame[at + 1] = LowByte(length)
    BY <2>1 DEF Holds
  <2>3. SubSeq(frame, at, at + 1)[1] = frame[at] /\ SubSeq(frame, at, at + 1)[2] = frame[at + 1]
    OBVIOUS
  <2>4. 256 * HighByte(length) + LowByte(length) = length
    BY DEF HighByte, LowByte
  <2> QED
    BY <1>1, <2>2, <2>3, <2>4 DEF FetchLength, FetchHighLowInt16u
<1>2. CASE ~long
  <2>1. StoreLength(long, length) = <<length>>
    BY <1>2 DEF StoreLength
  <2> QED
    BY <1>2, <2>1 DEF Holds, FetchLength
<1> QED
  BY <1>1, <1>2

LEMMA StoredLength ==
  ASSUME NEW long \in BOOLEAN, NEW length \in Nat
  PROVE  StoreLength(long, length) \in Seq(Byte) /\ Len(StoreLength(long, length)) = LengthSize(long)
<1>1. length % 256 \in Byte /\ length % 65536 \in Nat /\ (length % 65536) % 256 \in Byte
      /\ length % 65536 <= 65535
  BY DEF Byte
<1> DEFINE m == length % 65536
<1> HIDE DEF m
<1>2. m \div 256 \in Byte
  BY <1>1 DEF Byte, m
<1> QED
  BY <1>1, <1>2 DEF StoreLength, LengthSize, StoreHighLowInt16u, HighByte, LowByte, m

(* What a remainder leaves.                                                *)
LEMMA LowPart ==
  /\ \A value \in Nat : value % 256 \in Byte
  /\ \A value \in Byte : value % 256 = value
  /\ \A value \in Int16 : value % 65536 = value
BY SMT DEF Byte, Int16

LEMMA BytesAreSequences ==
  /\ \A b \in Byte : <<b>> \in Seq(Byte)
  /\ \A a, b \in Byte : <<a, b>> \in Seq(Byte)
  /\ \A s \in Byte \X Byte \X Byte \X Byte : s \in Seq(Byte)
<1>1. \A a, b, c, d \in Byte : <<a, b, c, d>> \in Seq(Byte)
  BY SMT
<1>2. ASSUME NEW s \in Byte \X Byte \X Byte \X Byte PROVE s \in Seq(Byte)
  <2>1. s = <<s[1], s[2], s[3], s[4]>> /\ s[1] \in Byte /\ s[2] \in Byte /\ s[3] \in Byte /\ s[4] \in Byte
    OBVIOUS
  <2> QED
    BY <1>1, <2>1, ZenonT(60)
<1> QED
  BY <1>2

(* What is carried, and how it is stored, kind by kind.                    *)
LEMMA BytesCase ==
  ASSUME NEW kind \in {"u", "s"}, NEW long, NEW value
  PROVE  Carried(kind, long) = Byte /\ StoreField(kind, value, long) = <<value % 256>>
BY ArrayKindsAre, SMT DEF Carried, StoreField

LEMMA Bytes ==
  ASSUME NEW kind \in {"u", "s"}, NEW long, NEW value \in Carried(kind, long)
  PROVE  value \in Byte /\ StoreField(kind, value, long) = <<value>>
<1>1. value \in Byte
  BY BytesCase, SMT
<1>2. value % 256 = value
  BY <1>1, LowPart
<1> QED
  BY <1>1, <1>2, BytesCase, SMT

LEMMA OverwrittenCase ==
  ASSUME NEW long, NEW value
  PROVE  Carried("n", long) = Nat /\ StoreField("n", value, long) = <<value % 256>>
BY ArrayKindsAre, SMT DEF Carried, StoreField

LEMMA Overwritten ==
  ASSUME NEW long, NEW value \in Carried("n", long)
  PROVE  \E byte \in Byte : StoreField("n", value, long) = <<byte>>
<1>1. value \in Nat
  BY OverwrittenCase, SMT
<1>2. value % 256 \in Byte
  BY <1>1, LowPart
<1> QED
  BY <1>2, OverwrittenCase, SMT

LEMMA Lengths ==
  ASSUME NEW long, NEW value
  PROVE  Carried("l", long) = Nat /\ StoreField("l", value, long) = StoreLength(long, value)
BY ArrayKindsAre, SMT DEF Carried, StoreField

LEMMA HalvesCase ==
  ASSUME NEW kind \in {"v", "a"}, NEW long, NEW value
  PROVE  /\ Carried(kind, long) = Int16
         /\ StoreField(kind, value, long) = StoreHighLowInt16u(value % 65536)
BY ArrayKindsAre, SMT DEF Carried, StoreField

LEMMA Halves ==
  ASSUME NEW kind \in {"v", "a"}, NEW long, NEW value \in Carried(kind, long)
  PROVE  value \in Int16 /\ StoreField(kind, value, long) = StoreHighLowInt16u(value)
<1>1. value \in Int16
  BY HalvesCase, SMT
<1>2. value % 65536 = value
  BY <1>1, LowPart
<1> QED
  BY <1>1, <1>2, HalvesCase, SMT

LEMMA Words ==
  ASSUME NEW long, NEW value
  PROVE  Carried("w", long) = Int32 /\ StoreField("w", value, long) = StoreHighLowInt32u(value)
BY ArrayKindsAre, SMT DEF Carried, StoreField

LEMMA ArraysCase ==
  ASSUME NEW kind \in ArrayKinds, NEW long, NEW value
  PROVE  /\ Carried(kind, long) = {bytes \in Seq(Byte) : Len(bytes) <= MaxLength(kind, long)}
         /\ StoreField(kind, value, long) = StoreLength(long, Len(value)) \o value
BY ArrayKindsAre, SMT DEF Carried, StoreField

LEMMA Arrays ==
  ASSUME NEW kind \in ArrayKinds, NEW long, NEW value \in Carried(kind, long)
  PROVE  /\ value \in Seq(Byte) /\ Len(value) \in Nat /\ Len(value) <= MaxLength(kind, long)
         /\ StoreField(kind, value, long) = StoreLength(long, Len(value)) \o value
<1>1. \A bytes \in Seq(Byte) : Len(bytes) \in Nat
  BY SMT
<1> QED
  BY <1>1, ArraysCase, Zenon

LEMMA EveryKind ==
  ASSUME NEW kind \in Kinds
  PROVE  \/ kind \in {"u", "s"} \/ kind = "n" \/ kind = "l"
         \/ kind \in {"v", "a"} \/ kind = "w" \/ kind \in ArrayKinds
BY DEF Kinds

(* What is stored are bytes.                                               *)
LEMMA StoredField ==
  ASSUME NEW long \in BOOLEAN, NEW kind \in Kinds, NEW value \in Carried(kind, long)
  PROVE  StoreField(kind, value, long) \in Seq(Byte)
<1>1. CASE kind \in {"u", "s"}
  BY <1>1, Bytes, BytesAreSequences, ZenonT(60)
<1>2. CASE kind = "n"
  BY <1>2, Overwritten, BytesAreSequences, ZenonT(60)
<1>3. CASE kind \in {"v", "a"}
  <2>1. value \in Int16 /\ StoreField(kind, value, long) = StoreHighLowInt16u(value)
    BY <1>3, Halves, Zenon
  <2>2. HighByte(value) \in Byte /\ LowByte(value) \in Byte
    BY <2>1, RoundTrip16, Zenon
  <2> QED
    BY <2>1, <2>2, BytesAreSequences, Zenon DEF StoreHighLowInt16u
<1>4. CASE kind = "l"
  BY <1>4, Lengths, StoredLength, Zenon
<1>5. CASE kind = "w"
  <2>1. value \in Int32 /\ StoreField(kind, value, long) = StoreHighLowInt32u(value)
    BY <1>5, Words, Zenon
  <2>2. StoreInt32u(FALSE, value) \in Byte \X Byte \X Byte \X Byte
    BY <2>1, RoundTrip32, Zenon
  <2> QED
    BY <2>1, <2>2, BytesAreSequences, Zenon DEF StoreHighLowInt32u
<1>6. CASE kind \in ArrayKinds
  <2>1. value \in Seq(Byte) /\ StoreLength(long, Len(value)) \in Seq(Byte)
    BY <1>6, Arrays, StoredLength, Zenon
  <2>2. StoreLength(long, Len(value)) \o value \in Seq(Byte)
    BY <2>1, SMT
  <2> QED
    BY <1>6, <2>2, Arrays, ZenonT(60)
<1> QED
  BY <1>1, <1>2, <1>3, <1>4, <1>5, <1>6, EveryKind, ZenonT(60)

(* An array after its length: each is where the other leaves it.           *)
LEMMA HoldsBoth ==
  ASSUME NEW frame, NEW at \in Nat \ {0}, NEW a \in Seq(Byte), NEW b \in Seq(Byte),
         Holds(frame, at, a \o b)
  PROVE  Holds(frame, at, a) /\ Holds(frame, at + Len(a), b)
<1>1. /\ Len(a) \in Nat /\ Len(b) \in Nat /\ Len(a \o b) = Len(a) + Len(b)
      /\ \A j \in 1..Len(a) : (a \o b)[j] = a[j]
      /\ \A j \in 1..Len(b) : (a \o b)[Len(a) + j] = b[j]
  OBVIOUS
<1> DEFINE c == a \o b
<1>2. \A j \in 1..Len(c) : at + j - 1 \in 1..Len(frame) /\ frame[at + j - 1] = c[j]
  BY DEF Holds
<1>3. Len(c) = Len(a) + Len(b) /\ \A j \in 1..Len(a) : c[j] = a[j]
  BY <1>1
<1>4. \A j \in 1..Len(b) : c[Len(a) + j] = b[j]
  BY <1>1
<1> HIDE DEF c
<1>5. Holds(frame, at, a)
  BY <1>1, <1>2, <1>3 DEF Holds
<1>6. ASSUME NEW j \in 1..Len(b)
      PROVE  at + Len(a) + j - 1 \in 1..Len(frame) /\ frame[at + Len(a) + j - 1] = b[j]
  <2>1. Len(a) + j \in 1..Len(c) /\ at + (Len(a) + j) - 1 = at + Len(a) + j - 1
    BY <1>1, <1>3
  <2> QED
    BY <1>2, <1>4, <2>1
<1> QED
  BY <1>5, <1>6 DEF Holds

LEMMA SamePart ==
  ASSUME NEW frame \in Seq(Byte), NEW value \in Seq(Byte), NEW start \in Nat \ {0},
         NEW F \in 0..Len(value), Holds(frame, start, value)
  PROVE  SubSeq(frame, start, start + F - 1) = SubSeq(value, 1, F)
<1> DEFINE a == SubSeq(frame, start, start + F - 1)
<1> DEFINE b == SubSeq(value, 1, F)
<1>1. F \in Nat /\ Len(value) \in Nat
  OBVIOUS
<1>2. \A i \in 1..F : value[i] \in Byte /\ i \in 1..Len(value)
  OBVIOUS
<1>3. b \in Seq(Byte) /\ Len(b) = F /\ \A i \in 1..F : b[i] = value[i]
  BY <1>1, <1>2
<1>4. \A i \in start..(start + F - 1) : frame[i] \in Byte
  <2> SUFFICES ASSUME NEW i \in start..(start + F - 1) PROVE frame[i] \in Byte
    OBVIOUS
  <2>1. i - start + 1 \in 1..Len(value) /\ start + (i - start + 1) - 1 = i
    BY <1>1
  <2>2. i \in 1..Len(frame)
    BY <2>1 DEF Holds
  <2> QED
    BY <2>2
<1>5. a \in Seq(Byte) /\ Len(a) = F /\ \A i \in 1..F : a[i] = frame[start + i - 1]
  BY <1>1, <1>4
<1>6. \A i \in 1..F : a[i] = b[i]
  BY <1>2, <1>3, <1>5, SMTT(60) DEF Holds
<1> HIDE DEF a, b
<1> QED
  BY <1>3, <1>5, <1>6, SeqEqual DEF a, b

(* What the receiver of an array is handed.                                *)
Cut(kind, value) ==
  [ length |-> Fits(kind, Len(value)), data |-> SubSeq(value, 1, Fits(kind, Len(value))) ]

LEMMA JoinedLength == \A a, b \in Seq(Byte) : Len(a \o b) = Len(a) + Len(b)
BY SMT

LEMMA NarrowLength ==
  ASSUME NEW kind, NEW long, ~WideLength(kind), NEW n \in Nat, n <= MaxLength(kind, long)
  PROVE  n \in Byte
BY SMT DEF MaxLength, Byte

LEMMA ArrayReadBack ==
  ASSUME NEW long \in BOOLEAN, NEW kind \in ArrayKinds, NEW value \in Carried(kind, long),
         NEW frame \in Seq(Byte), NEW at \in Nat \ {0},
         Holds(frame, at, StoreField(kind, value, long))
  PROVE  FetchArray(kind, frame, at, long) =
           [value |-> Cut(kind, value), size |-> Len(StoreField(kind, value, long))]
<1> DEFINE length == Len(value)
<1> DEFINE stored == StoreLength(long, length)
<1>1. /\ value \in Seq(Byte) /\ length \in Nat /\ length <= MaxLength(kind, long)
      /\ StoreField(kind, value, long) = stored \o value
  BY Arrays, Zenon
<1>2. stored \in Seq(Byte) /\ Len(stored) = LengthSize(long) /\ LengthSize(long) \in Nat
  <2>1. LengthSize(long) \in Nat
    BY DEF LengthSize
  <2> QED
    BY <1>1, <2>1, StoredLength, Zenon
<1>3. Holds(frame, at, stored) /\ Holds(frame, at + LengthSize(long), value)
  <2>1. Holds(frame, at, stored \o value)
    BY <1>1, Zenon
  <2> HIDE DEF stored, length
  <2> QED
    BY <1>1, <1>2, <2>1, HoldsBoth, Zenon
<1>4. length <= IF long THEN 65535 ELSE 255
  BY <1>1, SMT DEF MaxLength
<1>5. FetchLength(frame, at, long) = length
  BY <1>1, <1>3, <1>4, LengthReadBack, SMT
<1> DEFINE F == Fits(kind, length)
<1>6. F \in 0..length
  BY <1>1, CapacityTypes DEF Fits
<1>7. Clamp(kind, length) = F
  <2>1. CASE WideLength(kind)
    BY <2>1, Zenon DEF Clamp, Fits
  <2>2. CASE ~WideLength(kind)
    <3>1. length \in Byte
      BY <1>1, <2>2, NarrowLength, Zenon
    <3> HIDE DEF length
    <3>2. length % 256 = length
      BY <3>1, LowPart, SMT
    <3> QED
      BY <2>2, <3>2, SMT DEF Clamp, Fits
  <2> QED
    BY <2>1, <2>2, Zenon
<1>8. SubSeq(frame, at + LengthSize(long), at + LengthSize(long) + F - 1) = SubSeq(value, 1, F)
  <2>1. at + LengthSize(long) \in Nat \ {0}
    BY <1>2
  <2> HIDE DEF F
  <2> QED
    BY <1>1, <1>3, <1>6, <2>1, SamePart, ZenonT(60)
<1>9. Len(StoreField(kind, value, long)) = LengthSize(long) + length
  BY <1>1, <1>2, JoinedLength, ZenonT(60)
<1> QED
  BY <1>5, <1>7, <1>8, <1>9, Zenon DEF FetchArray, Cut

(* How each kind is fetched.                                               *)
LEMMA ByteFetched ==
  ASSUME NEW kind \in {"u", "s", "n"}, NEW frame, NEW at, NEW long
  PROVE  FetchField(kind, frame, at, long) = [value |-> frame[at], size |-> 1]
BY ArrayKindsAre, SMT DEF FetchField

LEMMA HalfFetched ==
  ASSUME NEW kind \in {"v", "a"}, NEW frame, NEW at, NEW long
  PROVE  FetchField(kind, frame, at, long) =
           [value |-> FetchHighLowInt16u(SubSeq(frame, at, at + 1)), size |-> 2]
BY ArrayKindsAre, SMT DEF FetchField

LEMMA LengthFetched ==
  ASSUME NEW frame, NEW at, NEW long
  PROVE  FetchField("l", frame, at, long) =
           [value |-> FetchLength(frame, at, long), size |-> LengthSize(long)]
BY ArrayKindsAre, SMT DEF FetchField

LEMMA WordFetched ==
  ASSUME NEW frame, NEW at, NEW long
  PROVE  FetchField("w", frame, at, long) =
           [value |-> FetchHighLowInt32u(SubSeq(frame, at, at + 3)), size |-> 4]
BY ArrayKindsAre, SMT DEF FetchField

LEMMA ArrayFetched ==
  ASSUME NEW kind \in ArrayKinds, NEW frame, NEW at, NEW long
  PROVE  FetchField(kind, frame, at, long) = FetchArray(kind, frame, at, long)
BY ArrayKindsAre, SMT DEF FetchField

(* The bytes of an integer, where they are in the frame.                   *)
LEMMA OneByteHeld ==
  ASSUME NEW frame, NEW at \in Nat \ {0}, NEW a, Holds(frame, at, <<a>>)
  PROVE  frame[at] = a
BY DEF Holds

LEMMA WholePart ==
  ASSUME NEW frame \in Seq(Byte), NEW at \in Nat \ {0}, NEW part \in Seq(Byte),
         Holds(frame, at, part)
  PROVE  SubSeq(frame, at, at + Len(part) - 1) = part
<1> DEFINE n == Len(part)
<1>1. n \in Nat /\ n \in 0..n /\ SubSeq(part, 1, n) = part
  BY SMT
<1> HIDE DEF n
<1>2. SubSeq(frame, at, at + n - 1) = SubSeq(part, 1, n)
  BY <1>1, SamePart, ZenonT(60) DEF n
<1> QED
  BY <1>1, <1>2, ZenonT(60) DEF n

LEMMA TwoBytesHeld ==
  ASSUME NEW frame \in Seq(Byte), NEW at \in Nat \ {0}, NEW a \in Byte, NEW b \in Byte,
         Holds(frame, at, <<a, b>>)
  PROVE  SubSeq(frame, at, at + 1) = <<a, b>>
<1> DEFINE part == <<a, b>>
<1>1. part \in Seq(Byte) /\ Holds(frame, at, part)
  BY BytesAreSequences, Zenon
<1>2. at + Len(part) - 1 = at + 1
  OBVIOUS
<1> HIDE DEF part
<1>3. SubSeq(frame, at, at + Len(part) - 1) = part
  BY <1>1, WholePart, Zenon
<1> QED
  BY <1>2, <1>3, Zenon DEF part

LEMMA FourBytesHeld ==
  ASSUME NEW frame \in Seq(Byte), NEW at \in Nat \ {0},
         NEW bytes \in Byte \X Byte \X Byte \X Byte, Holds(frame, at, bytes)
  PROVE  Len(bytes) = 4 /\ SubSeq(frame, at, at + 3) = bytes
<1>1. bytes \in Seq(Byte)
  BY BytesAreSequences, Zenon
<1>2. Len(bytes) = 4
  <2>1. bytes = <<bytes[1], bytes[2], bytes[3], bytes[4]>>
    BY SMT
  <2>2. \A a, b, c, d : Len(<<a, b, c, d>>) = 4
    BY SMT
  <2> QED
    BY <2>1, <2>2, Zenon
<1>3. at + 4 - 1 = at + 3
  OBVIOUS
<1>4. SubSeq(frame, at, at + Len(bytes) - 1) = bytes
  BY <1>1, WholePart, Zenon
<1> QED
  BY <1>2, <1>3, <1>4, Zenon

(* What the receiver of a field is handed.                                 *)
Handover(kind, value) == IF kind \in ArrayKinds THEN Cut(kind, value) ELSE value

LEMMA AsItIs ==
  ASSUME NEW kind, NEW value, kind \in {"u", "s", "v", "a", "w"}
  PROVE  Handover(kind, value) = value
BY ArrayKindsAre, SMT DEF Handover

(* The two parts of what is fetched.                                       *)
LEMMA Fetched ==
  ASSUME NEW field, NEW v, NEW k, field = [value |-> v, size |-> k]
  PROVE  field.value = v /\ field.size = k
OBVIOUS

LEMMA TupleLengths ==
  ASSUME NEW a, NEW b
  PROVE  Len(<<a>>) = 1 /\ Len(<<a, b>>) = 2
OBVIOUS

(* A field is read as it was written, and the next one is looked for where *)
(* it ends.                                                                *)
IsReadBack(kind, value, frame, at, long) ==
  LET field == FetchField(kind, frame, at, long)
  IN  /\ field.size = Len(StoreField(kind, value, long))
      /\ kind \notin {"l", "n"} => field.value = Handover(kind, value)

LEMMA FieldReadBack ==
  ASSUME NEW long \in BOOLEAN, NEW kind \in Kinds, NEW value \in Carried(kind, long),
         NEW frame \in Seq(Byte), NEW at \in Nat \ {0},
         Holds(frame, at, StoreField(kind, value, long))
  PROVE  IsReadBack(kind, value, frame, at, long)
<1> DEFINE field == FetchField(kind, frame, at, long)
<1> DEFINE stored == StoreField(kind, value, long)
<1> SUFFICES /\ field.size = Len(stored)
             /\ kind \notin {"l", "n"} => field.value = Handover(kind, value)
  BY Zenon DEF IsReadBack
<1>1. CASE kind \in {"u", "s"}
  <2>1. stored = <<value>>
    BY <1>1, Bytes, Zenon
  <2>2. frame[at] = value
    BY <2>1, OneByteHeld, Zenon
  <2>3. Handover(kind, value) = value /\ kind \in {"u", "s", "n"}
    BY <1>1, AsItIs, SMT
  <2>4. field = [value |-> value, size |-> 1]
    BY <2>2, <2>3, ByteFetched, SMT
  <2> HIDE DEF field, stored
  <2> QED
    BY <2>1, <2>3, <2>4, Fetched, TupleLengths, Zenon
<1>2. CASE kind = "n"
  <2>1. PICK byte \in Byte : stored = <<byte>>
    BY <1>2, Overwritten, Zenon
  <2>2. field = [value |-> frame[at], size |-> 1]
    BY <1>2, ByteFetched, Zenon
  <2> HIDE DEF field, stored
  <2> QED
    BY <1>2, <2>1, <2>2, Fetched, TupleLengths, Zenon
<1>3. CASE kind \in {"v", "a"}
  <2>1. value \in Int16 /\ stored = StoreHighLowInt16u(value)
    BY <1>3, Halves, Zenon
  <2>2. HighByte(value) \in Byte /\ LowByte(value) \in Byte
    BY <2>1, RoundTrip16, Zenon
  <2>3. Holds(frame, at, <<HighByte(value), LowByte(value)>>)
    BY <2>1, Zenon DEF StoreHighLowInt16u
  <2>4. SubSeq(frame, at, at + 1) = StoreHighLowInt16u(value)
    BY <2>2, <2>3, TwoBytesHeld, Zenon DEF StoreHighLowInt16u
  <2>5. FetchHighLowInt16u(SubSeq(frame, at, at + 1)) = value
    BY <2>1, <2>4, RoundTrip16, Zenon
  <2>6. Len(StoreHighLowInt16u(value)) = 2
    BY TupleLengths, Zenon DEF StoreHighLowInt16u
  <2>7. field = [value |-> value, size |-> 2]
    BY <1>3, <2>5, HalfFetched, Zenon
  <2>8. Handover(kind, value) = value
    BY <1>3, AsItIs, SMT
  <2> HIDE DEF field, stored
  <2> QED
    BY <2>1, <2>6, <2>7, <2>8, Fetched, Zenon
<1>4. CASE kind = "l"
  <2>1. value \in Nat /\ stored = StoreLength(long, value)
    BY <1>4, Lengths, Zenon
  <2>2. Len(StoreLength(long, value)) = LengthSize(long)
    BY <2>1, StoredLength, Zenon
  <2>3. field = [value |-> FetchLength(frame, at, long), size |-> LengthSize(long)]
    BY <1>4, LengthFetched, Zenon
  <2> HIDE DEF field, stored
  <2> QED
    BY <1>4, <2>1, <2>2, <2>3, Fetched, Zenon
<1>5. CASE kind = "w"
  <2> DEFINE bytes == StoreInt32u(FALSE, value)
  <2>1. value \in Int32 /\ stored = bytes
    BY <1>5, Words, Zenon DEF StoreHighLowInt32u
  <2>2. bytes \in Byte \X Byte \X Byte \X Byte /\ FetchInt32u(FALSE, bytes) = value
    BY <2>1, RoundTrip32, Zenon
  <2>3. Len(bytes) = 4 /\ SubSeq(frame, at, at + 3) = bytes
    <3>1. Holds(frame, at, bytes)
      BY <2>1, Zenon
    <3> HIDE DEF bytes
    <3> QED
      BY <2>2, <3>1, FourBytesHeld, Zenon
  <2>4. FetchHighLowInt32u(SubSeq(frame, at, at + 3)) = value
    BY <2>2, <2>3, Zenon DEF FetchHighLowInt32u
  <2>5. field = [value |-> value, size |-> 4]
    BY <1>5, <2>4, WordFetched, Zenon
  <2>6. Handover(kind, value) = value
    BY <1>5, AsItIs, SMT
  <2> HIDE DEF field, stored, bytes
  <2> QED
    BY <2>1, <2>3, <2>5, <2>6, Fetched, Zenon
<1>6. CASE kind \in ArrayKinds
  <2>1. field = FetchArray(kind, frame, at, long)
    BY <1>6, ArrayFetched, SMT
  <2>2. FetchArray(kind, frame, at, long) = [value |-> Cut(kind, value), size |-> Len(stored)]
    BY <1>6, ArrayReadBack, SMT
  <2> HIDE DEF field, stored
  <2> QED
    BY <1>6, <2>1, <2>2, Fetched, Zenon DEF Handover
<1> QED
  BY <1>1, <1>2, <1>3, <1>4, <1>5, <1>6, EveryKind, Zenon

-----------------------------------------------------------------------------
(* All the fields.                                                         *)

(* What FetchParams has after a field: where the next one is, and the      *)
(* values.                                                                 *)
NothingTaken == [at |-> 3, values |-> <<>>]

Taken(format, frame, long, i, done) ==
  LET field == FetchField(format[i], frame, done.at, long)
  IN  [ at |-> done.at + field.size, values |-> Append(done.values, field.value) ]

(* The fold takes the fields in the order of the format.                   *)
TakesLast(S, format, frame, long, g) ==
  [ s \in SUBSET S |->
      IF s = {} THEN NothingTaken
      ELSE Taken(format, frame, long, Max(s), g[s \ {Max(s)}]) ]

LEMMA Folded ==
  ASSUME NEW format, NEW frame, NEW long
  PROVE  FetchParams(frame, format, long) =
           (CHOOSE g : g = TakesLast(DOMAIN format, format, frame, long, g))[DOMAIN format].values
BY Zenon DEF FetchParams, FoldLeft, MapThenFoldSet, TakesLast, Taken, NothingTaken

LEMMA Largest ==
  ASSUME NEW k \in Nat, NEW s \in SUBSET (1..(k + 1))
  PROVE  /\ s \ {Max(s)} \in SUBSET (1..(k + 1))
         /\ k + 1 \in s => Max(s) = k + 1
         /\ s # {} => s \ {Max(s)} \in SUBSET (1..k)
<1>1. ASSUME k + 1 \in s PROVE Max(s) = k + 1
  <2>1. \A y \in s : k + 1 >= y
    OBVIOUS
  <2>2. \A x \in s : (\A y \in s : x >= y) => x = k + 1
    BY <1>1
  <2> QED
    BY <1>1, <2>1, <2>2, Zenon DEF Max
<1>2. k + 1 \notin s => s \in SUBSET (1..k)
  OBVIOUS
<1>3. k + 1 \in s => s \ {k + 1} \in SUBSET (1..k)
  OBVIOUS
<1> QED
  BY <1>1, <1>2, <1>3

LEMMA FoldExists ==
  ASSUME NEW n \in Nat, NEW format, NEW frame, NEW long
  PROVE  \E g : g = TakesLast(1..n, format, frame, long, g)
<1> DEFINE Body(k, g) == TakesLast(1..k, format, frame, long, g)
<1> DEFINE S == {k \in Nat : \E g : g = Body(k, g)}
<1>1. 0 \in S
  <2>1. \A g : Body(0, g) = [s \in SUBSET (1..0) |-> NothingTaken]
    <3>1. \A s \in SUBSET (1..0) : s = {}
      OBVIOUS
    <3> QED
      BY <3>1, Zenon DEF TakesLast
  <2> QED
    BY <2>1, Zenon
<1>2. ASSUME NEW k \in Nat, k \in S PROVE k + 1 \in S
  <2>1. PICK g : g = Body(k, g)
    BY <1>2, Zenon
  <2> DEFINE h == Body(k + 1, g)
  <2>2. \A t \in SUBSET (1..k) : t \in SUBSET (1..(k + 1))
    OBVIOUS
  <2>3. \A t \in SUBSET (1..k) : h[t] = g[t]
    <3>1. \A t \in SUBSET (1..k) :
             g[t] = IF t = {} THEN NothingTaken
                    ELSE Taken(format, frame, long, Max(t), g[t \ {Max(t)}])
      <4>1. \A t \in SUBSET (1..k) :
               Body(k, g)[t] = IF t = {} THEN NothingTaken
                               ELSE Taken(format, frame, long, Max(t), g[t \ {Max(t)}])
        BY Zenon DEF TakesLast
      <4> QED
        BY <2>1, <4>1, Zenon
    <3>2. \A t \in SUBSET (1..(k + 1)) :
             h[t] = IF t = {} THEN NothingTaken
                    ELSE Taken(format, frame, long, Max(t), g[t \ {Max(t)}])
      BY Zenon DEF TakesLast
    <3> HIDE DEF h
    <3> QED
      BY <2>2, <3>1, <3>2, Zenon
  <2>4. \A s \in SUBSET (1..(k + 1)) : s # {} => h[s \ {Max(s)}] = g[s \ {Max(s)}]
    <3> HIDE DEF h
    <3> QED
      BY <2>3, Largest, Zenon
  <2>5. h = Body(k + 1, h)
    <3> DEFINE f == h
    <3>1. \A s \in SUBSET (1..(k + 1)) : s # {} => f[s \ {Max(s)}] = g[s \ {Max(s)}]
      BY <2>4, Zenon
    <3>0. f = Body(k + 1, g)
      OBVIOUS
    <3> SUFFICES f = Body(k + 1, f)
      OBVIOUS
    <3> HIDE DEF f
    <3>2. \A s \in SUBSET (1..(k + 1)) :
             (IF s = {} THEN NothingTaken ELSE Taken(format, frame, long, Max(s), g[s \ {Max(s)}]))
             = (IF s = {} THEN NothingTaken ELSE Taken(format, frame, long, Max(s), f[s \ {Max(s)}]))
      BY <3>1, Zenon
    <3>3. Body(k + 1, g) = Body(k + 1, f)
      BY <3>2, Zenon DEF TakesLast
    <3> QED
      BY <3>0, <3>3, Zenon
  <2> HIDE DEF h
  <2>6. \E f : f = Body(k + 1, f)
    <3> HIDE DEF Body
    <3> QED
      BY <2>5, Zenon
  <2>7. k + 1 \in Nat
    OBVIOUS
  <2> QED
    BY <2>6, <2>7, Zenon
<1> HIDE DEF S
<1>3. n \in S
  BY <1>1, <1>2, AllNumbers, Zenon
<1> QED
  BY <1>3, Zenon DEF S

(* G[i] is what has been taken after i fields.                             *)
TakesInOrder(n, format, frame, long, G) ==
  /\ G[0] = NothingTaken
  /\ \A i \in 1..n : G[i] = Taken(format, frame, long, i, G[i - 1])

LEMMA FetchedInOrder ==
  ASSUME NEW n \in Nat, NEW format, DOMAIN format = 1..n, NEW frame, NEW long, NEW G,
         TakesInOrder(n, format, frame, long, G)
  PROVE  FetchParams(frame, format, long) = G[n].values
<1> DEFINE Fixed(g) == g = TakesLast(1..n, format, frame, long, g)
<1> DEFINE iter == CHOOSE g : Fixed(g)
<1>1. FetchParams(frame, format, long) = iter[1..n].values
  BY Folded, Zenon
<1>2. Fixed(iter)
  <2>1. \E g : Fixed(g)
    BY FoldExists, Zenon
  <2> HIDE DEF Fixed
  <2> QED
    BY <2>1, Zenon
<1> HIDE DEF iter
<1>3. \A s \in SUBSET (1..n) :
         iter[s] = IF s = {} THEN NothingTaken
                   ELSE Taken(format, frame, long, Max(s), iter[s \ {Max(s)}])
  <2>1. \A s \in SUBSET (1..n) :
           TakesLast(1..n, format, frame, long, iter)[s] =
             IF s = {} THEN NothingTaken
             ELSE Taken(format, frame, long, Max(s), iter[s \ {Max(s)}])
    BY Zenon DEF TakesLast
  <2> QED
    BY <1>2, <2>1, Zenon
<1> HIDE DEF Fixed
<1> DEFINE S == {k \in Nat : k <= n => iter[1..k] = G[k]}
<1>4. 0 \in S
  <2>1. 1..0 = {} /\ {} \in SUBSET (1..n)
    OBVIOUS
  <2> QED
    BY <1>3, <2>1, Zenon DEF TakesInOrder
<1>5. ASSUME NEW k \in Nat, k \in S PROVE k + 1 \in S
  <2> SUFFICES ASSUME k + 1 <= n PROVE iter[1..(k + 1)] = G[k + 1]
    OBVIOUS
  <2> DEFINE s == 1..(k + 1)
  <2>1. /\ s \in SUBSET (1..n) /\ s # {} /\ s \ {k + 1} = 1..k
        /\ k <= n /\ k + 1 \in 1..n /\ k + 1 - 1 = k
    BY SMTT(60)
  <2>2. Max(s) = k + 1
    <3>1. s \in SUBSET (1..(k + 1)) /\ k + 1 \in s
      OBVIOUS
    <3> HIDE DEF s
    <3> QED
      BY <3>1, Largest, Zenon
  <2> HIDE DEF s
  <2>3. iter[s] = Taken(format, frame, long, k + 1, iter[1..k])
    BY <1>3, <2>1, <2>2, Zenon
  <2>4. iter[1..k] = G[k]
    BY <1>5, <2>1, Zenon
  <2>5. G[k + 1] = Taken(format, frame, long, k + 1, G[k])
    <3> DEFINE i == k + 1
    <3>1. i \in 1..n /\ i - 1 = k
      BY <2>1
    <3> HIDE DEF i
    <3>2. G[i] = Taken(format, frame, long, i, G[k])
      BY <3>1, Zenon DEF TakesInOrder
    <3> QED
      BY <3>2, Zenon DEF i
  <2> QED
    BY <2>3, <2>4, <2>5, Zenon DEF s
<1>6. n <= n
  OBVIOUS
<1>7. n \in S
  <2> HIDE DEF S
  <2> QED
    BY <1>4, <1>5, AllNumbers, Zenon
<1> QED
  BY <1>1, <1>6, <1>7, Zenon

-----------------------------------------------------------------------------
(* The whole frame.                                                        *)

(* In a format of the code a length that is read ahead has its array next, *)
(* and a short address its long one.                                       *)
ArrayNext(kind, next) == next \in ArrayKinds /\ (kind = "a" => next = "eui64")

LengthsPaired(format) ==
  \A i \in DOMAIN format : format[i] \in Overlaid =>
    i + 1 \in DOMAIN format /\ ArrayNext(format[i], format[i + 1])

(* Values that fit the fields they are sent in.                            *)
Sendable(format, values, long) ==
  \A i \in DOMAIN format : values[i] \in Carried(format[i], long)

Fields(format, values, long) ==
  [i \in DOMAIN format |-> StoreField(format[i], values[i], long)]

LEMMA FormatDomain ==
  ASSUME NEW format \in Seq(Kinds)
  PROVE  /\ Len(format) \in Nat /\ DOMAIN format = 1..Len(format)
         /\ \A i \in 1..Len(format) : format[i] \in Kinds
BY SMT

LEMMA FieldsAreBytes ==
  ASSUME NEW long \in BOOLEAN, NEW format \in Seq(Kinds), NEW values, Sendable(format, values, long)
  PROVE  /\ \A i \in 1..Len(format) : Fields(format, values, long)[i]
                                        = StoreField(format[i], values[i], long)
         /\ \A i \in 1..Len(format) : Fields(format, values, long)[i] \in Seq(Byte)
         /\ Len(Fields(format, values, long)) = Len(format)
         /\ Len(format) = 0 => Fields(format, values, long) = <<>>
<1> DEFINE n == Len(format)
<1> DEFINE parts == Fields(format, values, long)
<1>1. n \in Nat /\ DOMAIN format = 1..n /\ \A i \in 1..n : format[i] \in Kinds
  BY FormatDomain, Zenon
<1>2. \A i \in 1..n : parts[i] = StoreField(format[i], values[i], long)
  BY <1>1, Zenon DEF Fields
<1>3. \A i \in 1..n : parts[i] \in Seq(Byte)
  <2>1. \A i \in 1..n : values[i] \in Carried(format[i], long)
    BY <1>1, Zenon DEF Sendable
  <2> QED
    BY <1>1, <1>2, <2>1, StoredField, Zenon
<1>4. parts = [i \in 1..n |-> parts[i]]
  BY <1>1, <1>2, Zenon DEF Fields
<1> HIDE DEF parts, n
<1>5. parts \in Seq(Seq(Byte)) /\ Len(parts) = n
  <2>1. parts \in [1..n -> Seq(Byte)]
    BY <1>3, <1>4, Zenon
  <2> QED
    BY <1>1, <2>1, SMT
<1>6. n = 0 => parts = <<>>
  BY <1>5, SMT
<1> QED
  BY <1>2, <1>3, <1>5, <1>6 DEF parts, n

LEMMA Concatenated ==
  ASSUME NEW a \in Seq(Byte), NEW b \in Seq(Byte)
  PROVE  /\ Len(a) \in Nat /\ Len(b) \in Nat
         /\ a \o b \in Seq(Byte) /\ Len(a \o b) = Len(a) + Len(b)
         /\ \A j \in 1..Len(a) : (a \o b)[j] = a[j]
         /\ \A j \in 1..Len(b) : (a \o b)[Len(a) + j] = b[j]
BY SMT

(* The identifier, and every field where the ones before it end.           *)
Located(format, values, long, frame, C) ==
  /\ C \in [0..Len(format) -> Seq(Byte)] /\ C[0] = <<>>
  /\ \A i \in 1..Len(format) :
       LET part == StoreField(format[i], values[i], long)
       IN  /\ Len(C[i]) = Len(C[i - 1]) + Len(part)
           /\ Holds(frame, 3 + Len(C[i - 1]), part)

Formatted(frame, identifier, format, values, long) ==
  frame = FormatCommand(identifier, format, values, long)

Framed(frame, identifier, format, values, long) ==
  /\ frame \in Seq(Byte)
  /\ FetchHighLowInt16u(SubSeq(frame, 1, 2)) = identifier
  /\ \E C : Located(format, values, long, frame, C)

Received(frame, identifier, format, values, reader) ==
  /\ frame \in Seq(Byte)
  /\ FetchHighLowInt16u(SubSeq(frame, 1, 2)) = identifier
  /\ Handed(format, FetchParams(frame, format, reader)) = Expected(format, values)

(* A receiver in the mode of the sender, or of a format without a length.  *)
Understands(reader, long, format) == reader = long \/ ModeFree(format)

LEMMA FrameParts ==
  ASSUME NEW long \in BOOLEAN, NEW identifier \in Int16, NEW format \in Seq(Kinds), NEW values,
         Sendable(format, values, long), NEW frame,
         Formatted(frame, identifier, format, values, long)
  PROVE  Framed(frame, identifier, format, values, long)
<1> DEFINE n == Len(format)
<1> DEFINE parts == Fields(format, values, long)
<1> DEFINE head == StoreHighLowInt16u(identifier)
<1>1. /\ n \in Nat /\ Len(parts) = n /\ (n = 0 => parts = <<>>)
      /\ \A i \in 1..n : parts[i] \in Seq(Byte) /\ parts[i] = StoreField(format[i], values[i], long)
  BY FormatDomain, FieldsAreBytes, ZenonT(60)
<1>2. PICK C : Joins(parts, n, C)
  <2> HIDE DEF parts, n
  <2> QED
    BY <1>1, JoinsExist, Zenon
<1>3. frame = head \o FlattenSeq(parts)
  BY Zenon DEF Formatted, FormatCommand, Fields
<1>4. FlattenSeq(parts) = C[n]
  <2> HIDE DEF parts, n
  <2> QED
    BY <1>1, <1>2, Flattened, Zenon
<1>5. head \in Seq(Byte) /\ Len(head) = 2
  <2>1. HighByte(identifier) \in Byte /\ LowByte(identifier) \in Byte
    BY RoundTrip16, Zenon
  <2> QED
    BY <2>1, BytesAreSequences, TupleLengths, Zenon DEF StoreHighLowInt16u
<1>6. FetchHighLowInt16u(head) = identifier
  BY RoundTrip16, Zenon
<1> HIDE DEF head, parts, n
<1> DEFINE tail == C[n]
<1>7. tail \in Seq(Byte) /\ frame = head \o tail /\ n \in 0..n
  BY <1>1, <1>2, <1>3, <1>4 DEF Joins
<1> HIDE DEF tail
<1>77. head \in Seq(Byte) /\ tail \in Seq(Byte)
  BY <1>5, <1>7, Zenon
<1>8. /\ frame \in Seq(Byte) /\ Len(frame) = 2 + Len(tail) /\ Len(tail) \in Nat
      /\ \A j \in 1..Len(tail) : frame[2 + j] = tail[j]
      /\ SubSeq(frame, 1, 2) = head
  <2>0. /\ Len(tail) \in Nat
        /\ head \o tail \in Seq(Byte) /\ Len(head \o tail) = Len(head) + Len(tail)
        /\ \A j \in 1..Len(head) : (head \o tail)[j] = head[j]
        /\ \A j \in 1..Len(tail) : (head \o tail)[Len(head) + j] = tail[j]
    BY <1>77, Concatenated, Zenon
  <2>1. head \o tail \in Seq(Byte) /\ Len(head \o tail) = 2 + Len(tail) /\ Len(tail) \in Nat
    BY <1>5, <2>0, Zenon
  <2>2. \A j \in 1..Len(tail) : (head \o tail)[2 + j] = tail[j]
    BY <1>5, <2>0, Zenon
  <2>3. SubSeq(head \o tail, 1, Len(head)) = head
    <3>1. Holds(head \o tail, 1, head)
      <4>1. \A j \in 1..Len(head) : (head \o tail)[j] = head[j]
        BY <2>0, Zenon
      <4> DEFINE both == head \o tail
      <4>2. \A j \in 1..Len(head) : 1 + j - 1 = j /\ j \in 1..Len(both)
        BY <1>5, <2>1, SMT
      <4> HIDE DEF both
      <4>3. \A j \in 1..Len(head) : both[j] = head[j]
        BY <4>1, Zenon DEF both
      <4>4. \A j \in 1..Len(head) : 1 + j - 1 \in 1..Len(both) /\ both[1 + j - 1] = head[j]
        BY <4>2, <4>3, Zenon
      <4> QED
        BY <4>4, Zenon DEF Holds, both
    <3>2. 1 + Len(head) - 1 = Len(head) /\ 1 \in Nat \ {0}
      BY <1>5, SMT
    <3>3. SubSeq(head \o tail, 1, 1 + Len(head) - 1) = head
      BY <1>5, <2>1, <3>1, <3>2, WholePart, Zenon
    <3> QED
      BY <3>2, <3>3, Zenon
  <2> QED
    BY <1>5, <1>7, <2>1, <2>2, <2>3, Zenon
<1>9. ASSUME NEW i \in 1..n
      PROVE  /\ Len(C[i]) = Len(C[i - 1]) + Len(parts[i])
             /\ Holds(frame, 3 + Len(C[i - 1]), parts[i])
  <2> DEFINE before == Len(C[i - 1])
  <2> DEFINE part == parts[i]
  <2>1. /\ C[i - 1] \in Seq(Byte) /\ Len(C[i]) = before + Len(part)
        /\ before + Len(part) <= Len(tail)
        /\ \A j \in 1..Len(part) : tail[before + j] = part[j]
    <3>1. \A k \in 1..n : parts[k] \in Seq(Byte)
      BY <1>1, Zenon
    <3>2. n \in Nat
      BY <1>1, Zenon
    <3> HIDE DEF before, part
    <3>3. Placed(parts, n, C, i)
      BY <1>2, <3>1, <3>2, PartStays, Zenon
    <3> QED
      BY <3>3, Zenon DEF Placed, tail, before, part
  <2>2. before \in Nat /\ Len(part) \in Nat
    BY <1>1, <2>1, SMT
  <2> HIDE DEF before, part
  <2>3. ASSUME NEW j \in 1..Len(part)
        PROVE  3 + before + j - 1 \in 1..Len(frame) /\ frame[3 + before + j - 1] = part[j]
    <3>1. /\ before + j \in 1..Len(tail) /\ 3 + before + j - 1 = 2 + (before + j)
          /\ 2 + (before + j) \in 1..Len(frame)
      BY <1>8, <2>1, <2>2, SMT
    <3> QED
      BY <1>8, <2>1, <3>1, Zenon
  <2> QED
    BY <2>1, <2>3, Zenon DEF Holds, before, part
<1> QED
  <2>1. C \in [0..n -> Seq(Byte)] /\ C[0] = <<>>
    BY <1>2, Zenon DEF Joins
  <2>2. Located(format, values, long, frame, C)
    BY <1>1, <1>9, <2>1, Zenon DEF Located, n
  <2> QED
    BY <1>6, <1>8, <2>2, Zenon DEF Framed

FieldValues(format, frame, long, C) ==
  [i \in 1..Len(format) |-> FetchField(format[i], frame, 3 + Len(C[i - 1]), long).value]

LEMMA TwoParts ==
  ASSUME NEW done, NEW a, NEW v, done = [at |-> a, values |-> v]
  PROVE  done.at = a /\ done.values = v
OBVIOUS

(* Every field is read from where it is, and the fold comes by there.      *)
LEMMA ParamsFetched ==
  ASSUME NEW long \in BOOLEAN, NEW format \in Seq(Kinds), NEW values,
         Sendable(format, values, long), NEW frame \in Seq(Byte),
         NEW C, Located(format, values, long, frame, C)
  PROVE  FetchParams(frame, format, long) = FieldValues(format, frame, long, C)
<1> DEFINE n == Len(format)
<1> DEFINE at(i) == 3 + Len(C[i])
<1> DEFINE field(i) == FetchField(format[i], frame, at(i - 1), long)
<1> DEFINE got(i) == [j \in 1..i |-> field(j).value]
<1> DEFINE G == [i \in 0..n |-> [at |-> at(i), values |-> got(i)]]
<1>1. n \in Nat /\ DOMAIN format = 1..n /\ \A i \in 1..n : format[i] \in Kinds
  BY FormatDomain, Zenon
<1>2. G[0] = NothingTaken
  <2>1. 0 \in 0..n
    BY <1>1, SMT
  <2>2. at(0) = 3
    BY SMT DEF Located
  <2>3. got(0) = <<>>
    <3> HIDE DEF field
    <3> QED
      BY SMT
  <2> HIDE DEF at, got
  <2> QED
    BY <2>1, <2>2, <2>3, Zenon DEF NothingTaken
<1>3. ASSUME NEW i \in 1..n PROVE G[i] = Taken(format, frame, long, i, G[i - 1])
  <2>1. i \in 0..n /\ i - 1 \in 0..n /\ i - 1 \in Nat /\ i - 1 + 1 = i
    BY <1>1, SMT
  <2> DEFINE part == StoreField(format[i], values[i], long)
  <2>2. Len(C[i]) = Len(C[i - 1]) + Len(part) /\ Holds(frame, at(i - 1), part)
    BY Zenon DEF Located
  <2>3. C[i - 1] \in Seq(Byte) /\ at(i - 1) \in Nat \ {0}
    <3>1. C[i - 1] \in Seq(Byte)
      BY <2>1, Zenon DEF Located
    <3>2. Len(C[i - 1]) \in Nat
      BY <3>1, Concatenated, Zenon
    <3> QED
      BY <3>1, <3>2, SMT
  <2>4. format[i] \in Kinds /\ values[i] \in Carried(format[i], long)
    BY <1>1, Zenon DEF Sendable
  <2>5. field(i).size = Len(part)
    <3>1. IsReadBack(format[i], values[i], frame, at(i - 1), long)
      <4> HIDE DEF at
      <4> QED
        BY <2>2, <2>3, <2>4, FieldReadBack, Zenon
    <3> QED
      BY <3>1, Zenon DEF IsReadBack
  <2>6. at(i) = at(i - 1) + field(i).size
    <3>1. Len(C[i - 1]) \in Nat /\ Len(part) \in Nat
      <4>1. part \in Seq(Byte)
        BY <2>4, StoredField, Zenon
      <4> QED
        BY <2>3, <4>1, Concatenated, Zenon
    <3> HIDE DEF field, part
    <3> QED
      BY <2>2, <2>5, <3>1, SMT
  <2>7. got(i) = Append(got(i - 1), field(i).value)
    <3> HIDE DEF field
    <3> QED
      BY <2>1, SMT
  <2>8. G[i] = [at |-> at(i), values |-> got(i)]
        /\ G[i - 1] = [at |-> at(i - 1), values |-> got(i - 1)]
    <3> HIDE DEF at, got
    <3> QED
      BY <2>1, Zenon
  <2>9. G[i - 1].at = at(i - 1) /\ G[i - 1].values = got(i - 1)
    <3> HIDE DEF at, got, G
    <3> QED
      BY <2>8, TwoParts, SMT
  <2>10. Taken(format, frame, long, i, G[i - 1]) =
           [at |-> at(i - 1) + field(i).size, values |-> Append(got(i - 1), field(i).value)]
    <3>1. Taken(format, frame, long, i, G[i - 1]) =
            [ at     |-> G[i - 1].at + FetchField(format[i], frame, G[i - 1].at, long).size,
              values |-> Append(G[i - 1].values,
                                FetchField(format[i], frame, G[i - 1].at, long).value) ]
      <4> HIDE DEF G
      <4> QED
        BY Zenon DEF Taken
    <3>2. FetchField(format[i], frame, G[i - 1].at, long) = field(i)
      <4> HIDE DEF at, G
      <4> QED
        BY <2>9, Zenon
    <3> HIDE DEF at, got, G, field
    <3> QED
      BY <2>9, <3>1, <3>2, Zenon
  <2> HIDE DEF at, got, G, field
  <2> QED
    BY <2>6, <2>7, <2>8, <2>10, Zenon
<1>4. FetchParams(frame, format, long) = G[n].values
  <2> HIDE DEF G, n
  <2>1. TakesInOrder(n, format, frame, long, G)
    BY <1>2, <1>3, Zenon DEF TakesInOrder
  <2> QED
    BY <1>1, <2>1, FetchedInOrder, Zenon
<1>5. G[n].values = got(n)
  <2>1. n \in 0..n
    BY <1>1, SMT
  <2> HIDE DEF at, got
  <2> QED
    BY <2>1, Zenon
<1> QED
  BY <1>4, <1>5, Zenon DEF FieldValues

(* What is handed over, place by place.                                    *)
LEMMA ExpectedFields ==
  ASSUME NEW format, NEW values
  PROVE  Expected(format, values) =
           [i \in DOMAIN format |->
              IF format[i] \in Overlaid THEN LeftBy(format[i], Cut(format[i + 1], values[i + 1]))
              ELSE Handover(format[i], values[i])]
<1>1. Expected(format, values) =
        [i \in DOMAIN format |->
           CASE format[i] \in Overlaid   -> LeftBy(format[i], Cut(format[i + 1], values[i + 1]))
             [] format[i] \in ArrayKinds -> Cut(format[i], values[i])
             [] OTHER                    -> values[i]]
  BY Zenon DEF Expected, Cut
<1>2. \A i \in DOMAIN format :
        (CASE format[i] \in Overlaid   -> LeftBy(format[i], Cut(format[i + 1], values[i + 1]))
           [] format[i] \in ArrayKinds -> Cut(format[i], values[i])
           [] OTHER                    -> values[i])
        = IF format[i] \in Overlaid THEN LeftBy(format[i], Cut(format[i + 1], values[i + 1]))
          ELSE Handover(format[i], values[i])
  <2> SUFFICES ASSUME NEW i \in DOMAIN format
               PROVE  (CASE format[i] \in Overlaid   -> LeftBy(format[i], Cut(format[i + 1], values[i + 1]))
                         [] format[i] \in ArrayKinds -> Cut(format[i], values[i])
                         [] OTHER                    -> values[i])
                      = IF format[i] \in Overlaid THEN LeftBy(format[i], Cut(format[i + 1], values[i + 1]))
                        ELSE Handover(format[i], values[i])
    BY Zenon
  <2>1. format[i] \in Overlaid => format[i] \notin ArrayKinds
    BY ArrayKindsAre, SMT DEF Overlaid
  <2> QED
    BY <2>1, SMT DEF Handover
<1> QED
  BY <1>1, <1>2, ZenonT(60)

LEMMA LocatedReadBack ==
  ASSUME NEW long \in BOOLEAN, NEW format \in Seq(Kinds), LengthsPaired(format),
         NEW values, Sendable(format, values, long), NEW frame \in Seq(Byte),
         NEW C, Located(format, values, long, frame, C)
  PROVE  Handed(format, FetchParams(frame, format, long)) = Expected(format, values)
<1> DEFINE n == Len(format)
<1>1. n \in Nat /\ DOMAIN format = 1..n /\ \A i \in 1..n : format[i] \in Kinds
  BY FormatDomain, Zenon
<1> DEFINE got == FetchParams(frame, format, long)
<1> DEFINE fetched(i) == FetchField(format[i], frame, 3 + Len(C[i - 1]), long).value
<1>4. got = [i \in 1..n |-> fetched(i)]
  <2>1. got = FieldValues(format, frame, long, C)
    BY ParamsFetched, ZenonT(60)
  <2> QED
    BY <2>1, ZenonT(60) DEF FieldValues
<1>5. \A i \in 1..n : got[i] = fetched(i)
  <2> HIDE DEF fetched, got
  <2> QED
    BY <1>4, Zenon
<1>6. ASSUME NEW i \in 1..n, format[i] \notin {"l", "n"}
      PROVE  got[i] = Handover(format[i], values[i])
  <2> DEFINE at == 3 + Len(C[i - 1])
  <2>1. Holds(frame, at, StoreField(format[i], values[i], long))
    BY Zenon DEF Located
  <2>2. at \in Nat \ {0}
    <3>1. i - 1 \in 0..n
      BY <1>1, SMT
    <3>2. C[i - 1] \in Seq(Byte)
      BY <3>1, Zenon DEF Located
    <3>3. Len(C[i - 1]) \in Nat
      BY <3>2, Concatenated, Zenon
    <3> QED
      BY <3>3, SMT
  <2>3. format[i] \in Kinds /\ values[i] \in Carried(format[i], long)
    BY <1>1, Zenon DEF Sendable
  <2>4. fetched(i) = FetchField(format[i], frame, at, long).value
    BY Zenon
  <2> HIDE DEF at, got, fetched
  <2>5. IsReadBack(format[i], values[i], frame, at, long)
    BY <2>1, <2>2, <2>3, FieldReadBack, Zenon
  <2> QED
    BY <1>5, <1>6, <2>4, <2>5, Zenon DEF IsReadBack
<1> HIDE DEF got, fetched
<1>7. ASSUME NEW i \in 1..n, format[i] \in Overlaid
      PROVE  got[i + 1] = Cut(format[i + 1], values[i + 1])
  <2>1. i + 1 \in 1..n /\ format[i + 1] \in ArrayKinds
    BY <1>1, <1>7, Zenon DEF LengthsPaired, ArrayNext
  <2>2. format[i + 1] \notin {"l", "n"}
    BY <2>1, ArrayKindsAre, SMT
  <2>3. got[i + 1] = Handover(format[i + 1], values[i + 1])
    <3> DEFINE k == i + 1
    <3>1. k \in 1..n /\ format[k] \notin {"l", "n"}
      BY <2>1, <2>2, Zenon
    <3> HIDE DEF k
    <3>2. got[k] = Handover(format[k], values[k])
      BY <1>6, <3>1, Zenon
    <3> QED
      BY <3>2, Zenon DEF k
  <2> QED
    BY <2>1, <2>3, Zenon DEF Handover
<1>8. Handed(format, got) =
        [i \in DOMAIN format |->
           IF format[i] \in Overlaid THEN LeftBy(format[i], Cut(format[i + 1], values[i + 1]))
           ELSE Handover(format[i], values[i])]
  <2>1. \A i \in 1..n : format[i] \notin Overlaid => format[i] \notin {"l", "n"}
    BY Zenon DEF Overlaid
  <2>2. \A i \in DOMAIN format :
          (IF format[i] \in Overlaid THEN LeftBy(format[i], got[i + 1]) ELSE got[i])
          = (IF format[i] \in Overlaid THEN LeftBy(format[i], Cut(format[i + 1], values[i + 1]))
             ELSE Handover(format[i], values[i]))
    BY <1>1, <1>6, <1>7, <2>1, Zenon
  <2> QED
    BY <2>2, Zenon DEF Handed
<1> QED
  BY <1>8, ExpectedFields, Zenon DEF got

(* What has no length looks the same in both modes.                        *)
LEMMA SameInBothModes ==
  ASSUME NEW kind \in Kinds, kind \notin {"l"} \cup ArrayKinds, NEW value, NEW long, NEW reader
  PROVE  /\ StoreField(kind, value, long) = StoreField(kind, value, reader)
         /\ Carried(kind, long) = Carried(kind, reader)
<1>1. kind \in {"u", "s", "n"} \/ kind \in {"v", "a"} \/ kind = "w"
  BY SMT DEF Kinds
<1> QED
  BY <1>1, SMT DEF StoreField, Carried

LEMMA ModeFreeFields ==
  ASSUME NEW long, NEW reader, NEW format \in Seq(Kinds), ModeFree(format), NEW values
  PROVE  /\ Fields(format, values, long) = Fields(format, values, reader)
         /\ Sendable(format, values, long) => Sendable(format, values, reader)
<1>1. ASSUME NEW i \in DOMAIN format
      PROVE  /\ StoreField(format[i], values[i], long) = StoreField(format[i], values[i], reader)
             /\ Carried(format[i], long) = Carried(format[i], reader)
  <2>1. format[i] \in Kinds
    BY FormatDomain, Zenon
  <2>2. format[i] \notin {"l"} \cup ArrayKinds
    BY Zenon DEF ModeFree
  <2> QED
    BY <2>1, <2>2, SameInBothModes, Zenon
<1> QED
  BY <1>1, Zenon DEF Fields, Sendable

LEMMA SameFrame ==
  ASSUME NEW long, NEW reader, NEW identifier, NEW format \in Seq(Kinds), NEW values,
         Sendable(format, values, long), Understands(reader, long, format)
  PROVE  /\ \A frame : Formatted(frame, identifier, format, values, long)
                         => Formatted(frame, identifier, format, values, reader)
         /\ Sendable(format, values, reader)
<1>1. CASE reader = long
  BY <1>1, Zenon
<1>2. CASE ModeFree(format)
  <2>1. \A mode : FormatCommand(identifier, format, values, mode)
                    = StoreHighLowInt16u(identifier) \o FlattenSeq(Fields(format, values, mode))
    BY Zenon DEF FormatCommand, Fields
  <2>2. Fields(format, values, long) = Fields(format, values, reader)
        /\ Sendable(format, values, reader)
    BY <1>2, ModeFreeFields, Zenon
  <2> QED
    BY <2>1, <2>2, Zenon DEF Formatted
<1> QED
  BY <1>1, <1>2, Zenon DEF Understands

LEMMA FrameReadBack ==
  ASSUME NEW long \in BOOLEAN, NEW reader \in BOOLEAN, NEW identifier \in Int16,
         NEW format \in Seq(Kinds), LengthsPaired(format), NEW values,
         Sendable(format, values, long), Understands(reader, long, format),
         NEW frame, Formatted(frame, identifier, format, values, long)
  PROVE  Received(frame, identifier, format, values, reader)
<1>1. Formatted(frame, identifier, format, values, reader) /\ Sendable(format, values, reader)
  BY SameFrame, Zenon
<1>2. Framed(frame, identifier, format, values, reader)
  BY <1>1, FrameParts, Zenon
<1>3. Handed(format, FetchParams(frame, format, reader)) = Expected(format, values)
  <2>1. frame \in Seq(Byte)
    BY <1>2, Zenon DEF Framed
  <2>2. PICK C : Located(format, values, reader, frame, C)
    BY <1>2, Zenon DEF Framed
  <2> QED
    BY <1>1, <2>1, <2>2, LocatedReadBack, ZenonT(60)
<1> QED
  BY <1>2, <1>3, ZenonT(60) DEF Framed, Received

(* A command, response or indication is read back by a receiver in the     *)
(* mode of the sender, or in either mode when it has no length; the        *)
(* identifier always: for every format of the letters u, s, v, w, b, a, l  *)
(* and n, every identifier and all values that fit it (formatCommand of    *)
(* csp-format.c and fetchParams after it).  Of an "a" the receiver keeps   *)
(* what the long address after it makes of it.                             *)
THEOREM ReadBack ==
  ASSUME NEW long \in BOOLEAN, NEW reader \in BOOLEAN, NEW identifier \in Int16,
         NEW format \in Seq(Kinds), LengthsPaired(format), NEW values,
         Sendable(format, values, long), reader = long \/ ModeFree(format)
  PROVE  LET frame == FormatCommand(identifier, format, values, long)
         IN  /\ frame \in Seq(Byte)
             /\ FetchHighLowInt16u(SubSeq(frame, 1, 2)) = identifier
             /\ Handed(format, FetchParams(frame, format, reader)) = Expected(format, values)
<1> DEFINE frame == FormatCommand(identifier, format, values, long)
<1>1. Formatted(frame, identifier, format, values, long)
  BY Zenon DEF Formatted
<1>2. Understands(reader, long, format)
  BY Zenon DEF Understands
<1> HIDE DEF frame
<1>3. Received(frame, identifier, format, values, reader)
  BY <1>1, <1>2, FrameReadBack, Zenon
<1> QED
  BY <1>3, Zenon DEF Received, frame

-----------------------------------------------------------------------------
(* The catalogues.                                                         *)

(* A format whose lengths are paired, and that is short and has one large  *)
(* array at most, so that it fits the command buffer.                      *)
LargeArrays == {"bytes", "payload", "beaconFields"}

GoodFormat(format) ==
  /\ format \in Seq(Kinds) /\ Len(format) <= 20 /\ LengthsPaired(format)
  /\ \A i \in DOMAIN format, j \in DOMAIN format :
       format[i] \in LargeArrays /\ format[j] \in LargeArrays => i = j

LEMMA KindsAre ==
  Kinds = {"u", "s", "v", "a", "l", "n", "w", "eui64", "key", "bytes", "payload",
           "beaconFields", "beaconPayload"}
BY ArrayKindsAre, SMT DEF Kinds

LEMMA ShortFormats ==
  /\ GoodFormat(<<>>) /\ GoodFormat(<<"u">>) /\ GoodFormat(<<"v">>) /\ GoodFormat(<<"w">>)
  /\ GoodFormat(<<"key">>) /\ GoodFormat(<<"eui64">>) /\ GoodFormat(<<"bytes">>)
  /\ GoodFormat(<<"u", "v">>) /\ GoodFormat(<<"v", "u">>) /\ GoodFormat(<<"v", "v">>)
  /\ GoodFormat(<<"u", "u">>) /\ GoodFormat(<<"u", "w">>) /\ GoodFormat(<<"u", "key">>)
  /\ GoodFormat(<<"v", "eui64">>) /\ GoodFormat(<<"bytes", "w">>)
  /\ GoodFormat(<<"v", "v", "v">>) /\ GoodFormat(<<"u", "v", "v", "v">>)
BY KindsAre, ArrayKindsAre, SMT DEF GoodFormat, LengthsPaired, ArrayNext, Overlaid, LargeArrays

LEMMA LongerFormats ==
  /\ GoodFormat(<<"u", "u", "u", "u">>) /\ GoodFormat(<<"u", "u", "u", "v">>)
  /\ GoodFormat(<<"u", "v", "v", "w">>) /\ GoodFormat(<<"u", "v", "v", "v", "v">>)
  /\ GoodFormat(<<"v", "u", "u", "l", "payload", "u">>)
  /\ GoodFormat(<<"s", "u", "u", "u", "v", "v", "u", "w", "v">>)
  /\ GoodFormat(<<"u", "v", "u", "u", "l", "payload", "w", "u">>)
  /\ GoodFormat(<<"u", "u", "v", "u", "u", "l", "payload", "u", "w">>)
BY KindsAre, ArrayKindsAre, SMT DEF GoodFormat, LengthsPaired, ArrayNext, Overlaid, LargeArrays

(* The formats that are put together from the members of a MAC frame.      *)
Plain(format, n) ==
  /\ format \in Seq(Kinds) /\ Len(format) = n /\ LengthsPaired(format)
  /\ \A i \in DOMAIN format : format[i] \notin LargeArrays

LEMMA JoinedFormats ==
  ASSUME NEW a \in Seq(Kinds), NEW b \in Seq(Kinds), NEW n, NEW m, Len(a) = n, Len(b) = m
  PROVE  /\ n \in Nat /\ m \in Nat
         /\ a \o b \in Seq(Kinds) /\ Len(a \o b) = n + m
         /\ \A i \in 1..n : (a \o b)[i] = a[i]
         /\ \A i \in 1..m : (a \o b)[n + i] = b[i]
BY SMT

(* Where the lengths of two formats are, they are in the two joined.       *)
LEMMA JoinedPairs ==
  ASSUME NEW n \in Nat, NEW m \in Nat, NEW a, NEW b, NEW c,
         DOMAIN a = 1..n, DOMAIN b = 1..m, DOMAIN c = 1..(n + m),
         \A i \in 1..n : c[i] = a[i], \A i \in 1..m : c[n + i] = b[i],
         LengthsPaired(a), LengthsPaired(b)
  PROVE  LengthsPaired(c)
<1> SUFFICES ASSUME NEW i \in 1..(n + m), c[i] \in Overlaid
             PROVE  i + 1 \in 1..(n + m) /\ ArrayNext(c[i], c[i + 1])
  BY Zenon DEF LengthsPaired
<1>1. CASE i \in 1..n
  <2>1. i + 1 \in 1..n /\ ArrayNext(a[i], a[i + 1])
    BY <1>1, Zenon DEF LengthsPaired
  <2>2. c[i] = a[i] /\ c[i + 1] = a[i + 1]
    BY <1>1, <2>1, Zenon
  <2>3. i + 1 \in 1..(n + m)
    BY <2>1
  <2> QED
    BY <2>1, <2>2, <2>3, Zenon
<1>2. CASE i \notin 1..n
  <2> DEFINE j == i - n
  <2>1. j \in 1..m /\ n + j = i /\ j \in Int
    BY <1>2
  <2> HIDE DEF j
  <2>2. c[i] = b[j]
    BY <2>1, Zenon
  <2>3. j + 1 \in 1..m /\ ArrayNext(b[j], b[j + 1])
    BY <2>1, <2>2, Zenon DEF LengthsPaired
  <2>4. c[n + (j + 1)] = b[j + 1]
    BY <2>3, Zenon
  <2>5. n + (j + 1) = i + 1 /\ i + 1 \in 1..(n + m)
    BY <2>1, <2>3
  <2> QED
    BY <2>2, <2>3, <2>4, <2>5, Zenon
<1> QED
  BY <1>1, <1>2, Zenon

LEMMA PlainJoined ==
  ASSUME NEW n, NEW m, NEW a, NEW b, Plain(a, n), Plain(b, m)
  PROVE  Plain(a \o b, n + m)
<1>1. a \in Seq(Kinds) /\ b \in Seq(Kinds) /\ Len(a) = n /\ Len(b) = m
  BY Zenon DEF Plain
<1> DEFINE c == a \o b
<1>2. /\ n \in Nat /\ m \in Nat
      /\ c \in Seq(Kinds) /\ Len(c) = n + m
      /\ \A i \in 1..n : c[i] = a[i]
      /\ \A i \in 1..m : c[n + i] = b[i]
  BY <1>1, JoinedFormats, SMTT(60)
<1> HIDE DEF c
<1>3. DOMAIN a = 1..n /\ DOMAIN b = 1..m /\ DOMAIN c = 1..(n + m)
  BY <1>1, <1>2, FormatDomain, ZenonT(60)
<1>4. ASSUME NEW i \in DOMAIN c PROVE c[i] \notin LargeArrays
  <2>1. i \in 1..n \/ (i - n \in 1..m /\ n + (i - n) = i)
    BY <1>2, <1>3
  <2>2. CASE i \in 1..n
    BY <1>2, <1>3, <2>2, Zenon DEF Plain
  <2>3. CASE i - n \in 1..m /\ n + (i - n) = i
    <3> DEFINE j == i - n
    <3>1. j \in 1..m /\ n + j = i
      BY <2>3, Zenon
    <3> HIDE DEF j
    <3>2. c[i] = b[j] /\ b[j] \notin LargeArrays
      BY <1>2, <1>3, <3>1, Zenon DEF Plain
    <3> QED
      BY <3>2, Zenon
  <2> QED
    BY <2>1, <2>2, <2>3, Zenon
<1>5. LengthsPaired(c)
  <2>1. LengthsPaired(a) /\ LengthsPaired(b)
    BY Zenon DEF Plain
  <2> QED
    BY <1>2, <1>3, <2>1, JoinedPairs, Zenon
<1> QED
  BY <1>2, <1>4, <1>5, Zenon DEF Plain, c

LEMMA GoodJoined ==
  ASSUME NEW n, NEW a, NEW b, Plain(a, n), GoodFormat(b), n + Len(b) <= 20
  PROVE  GoodFormat(a \o b)
<1> DEFINE m == Len(b)
<1> DEFINE c == a \o b
<1>1. a \in Seq(Kinds) /\ b \in Seq(Kinds) /\ Len(a) = n
  BY Zenon DEF Plain, GoodFormat
<1>2. /\ n \in Nat /\ m \in Nat
      /\ c \in Seq(Kinds) /\ Len(c) = n + m
      /\ \A i \in 1..n : c[i] = a[i]
      /\ \A i \in 1..m : c[n + i] = b[i]
  BY <1>1, JoinedFormats, SMTT(60)
<1>3. DOMAIN a = 1..n /\ DOMAIN b = 1..m
  BY <1>1, FormatDomain, ZenonT(60)
<1>4. n + m <= 20
  OBVIOUS
<1> HIDE DEF c, m
<1>5. DOMAIN c = 1..(n + m)
  BY <1>2, FormatDomain, Zenon
<1>6. ASSUME NEW i \in DOMAIN c, c[i] \in LargeArrays
      PROVE  i - n \in 1..m /\ n + (i - n) = i /\ b[i - n] \in LargeArrays
  <2>1. i \in 1..n \/ (i - n \in 1..m /\ n + (i - n) = i)
    BY <1>2, <1>5
  <2>2. i \notin 1..n
    BY <1>2, <1>3, <1>6, Zenon DEF Plain
  <2>3. i - n \in 1..m /\ n + (i - n) = i
    BY <2>1, <2>2, Zenon
  <2> DEFINE j == i - n
  <2>4. j \in 1..m /\ n + j = i
    BY <2>3, Zenon
  <2> HIDE DEF j
  <2>5. b[j] \in LargeArrays
    BY <1>2, <1>6, <2>4, Zenon
  <2> QED
    BY <2>3, <2>5, Zenon DEF j
<1>7. ASSUME NEW i \in DOMAIN c, NEW j \in DOMAIN c, c[i] \in LargeArrays, c[j] \in LargeArrays
      PROVE  i = j
  <2>1. /\ i - n \in 1..m /\ n + (i - n) = i /\ b[i - n] \in LargeArrays
        /\ j - n \in 1..m /\ n + (j - n) = j /\ b[j - n] \in LargeArrays
    BY <1>6, <1>7, Zenon
  <2>2. i - n = j - n
    BY <1>3, <2>1, Zenon DEF GoodFormat
  <2> QED
    BY <2>1, <2>2, Zenon
<1>8. LengthsPaired(c)
  <2>1. LengthsPaired(a) /\ LengthsPaired(b)
    BY Zenon DEF Plain, GoodFormat
  <2> QED
    BY <1>2, <1>3, <1>5, <2>1, JoinedPairs, Zenon
<1>9. Len(c) <= 20
  BY <1>2, <1>4, Zenon
<1> QED
  BY <1>2, <1>7, <1>8, <1>9, Zenon DEF GoodFormat, c

LEMMA MacParts ==
  /\ Plain(<<"u">>, 1) /\ Plain(<<"u", "u">>, 2) /\ Plain(<<"v">>, 1)
  /\ Plain(MacAddress, 3) /\ Plain(MacFrame, 10)
<1>1. Plain(<<"u">>, 1) /\ Plain(<<"u", "u">>, 2) /\ Plain(<<"v">>, 1)
      /\ Plain(<<"v", "v", "u", "u">>, 4) /\ Plain(MacAddress, 3)
  BY KindsAre, ArrayKindsAre, SMT DEF Plain, LengthsPaired, ArrayNext, Overlaid, LargeArrays, MacAddress
<1>2. Plain(MacAddress \o MacAddress, 6)
  <2>1. Plain(MacAddress \o MacAddress, 3 + 3)
    BY <1>1, PlainJoined
  <2> QED
    BY <2>1
<1>3. Plain(MacAddress \o MacAddress \o <<"v", "v", "u", "u">>, 10)
  <2>1. Plain(MacAddress \o MacAddress \o <<"v", "v", "u", "u">>, 6 + 4)
    BY <1>1, <1>2, PlainJoined
  <2> QED
    BY <2>1
<1> QED
  BY <1>1, <1>3, Zenon DEF MacFrame

LEMMA MacFormats ==
  /\ GoodFormat(MacAddress) /\ GoodFormat(<<"u">> \o MacAddress)
  /\ GoodFormat(<<"u">> \o MacAddress \o <<"u">>)
  /\ GoodFormat(MacFrame \o <<"u", "l", "payload", "u">>)
  /\ GoodFormat(<<"u">> \o MacFrame \o <<"u", "u", "w", "l", "payload", "w">>)
  /\ GoodFormat(<<"u", "u">> \o MacFrame \o <<"u", "w", "l", "payload", "u", "w">>)
  /\ GoodFormat(<<"v">> \o MacAddress
                   \o <<"u", "u", "n", "beaconFields", "n", "beaconPayload">>)
<1>1. GoodFormat(MacAddress) /\ Len(MacAddress) = 3
  BY KindsAre, ArrayKindsAre, SMT DEF GoodFormat, LengthsPaired, ArrayNext, Overlaid, LargeArrays, MacAddress
<1>2. /\ GoodFormat(<<"u", "l", "payload", "u">>)
      /\ GoodFormat(<<"u", "u", "w", "l", "payload", "w">>)
      /\ GoodFormat(<<"u", "w", "l", "payload", "u", "w">>)
      /\ GoodFormat(<<"u", "u", "n", "beaconFields", "n", "beaconPayload">>)
  BY KindsAre, ArrayKindsAre, SMT DEF GoodFormat, LengthsPaired, ArrayNext, Overlaid, LargeArrays
<1>3. ASSUME NEW n \in {4, 10, 11, 12}, NEW a, NEW b, Plain(a, n), GoodFormat(b), Len(b) <= 6
      PROVE  GoodFormat(a \o b)
  <2>1. Len(b) \in Nat
    BY <1>3, SMT DEF GoodFormat
  <2>2. n \in Nat /\ n + Len(b) <= 20
    BY <1>3, <2>1
  <2> QED
    BY <1>3, <2>2, GoodJoined, Zenon
<1>4. Plain(<<"u">> \o MacAddress, 4) /\ Plain(<<"v">> \o MacAddress, 4)
  <2>1. Plain(<<"u">> \o MacAddress, 1 + 3) /\ Plain(<<"v">> \o MacAddress, 1 + 3)
    BY MacParts, PlainJoined
  <2> QED
    BY <2>1
<1>5. Plain(<<"u">> \o MacFrame, 11) /\ Plain(<<"u", "u">> \o MacFrame, 12)
  <2>1. Plain(<<"u">> \o MacFrame, 1 + 10) /\ Plain(<<"u", "u">> \o MacFrame, 2 + 10)
    BY MacParts, PlainJoined
  <2> QED
    BY <2>1
<1>6. GoodFormat(<<"u">> \o MacAddress)
  <2>1. 1 \in Nat /\ 1 + Len(MacAddress) <= 20
    BY <1>1
  <2> QED
    BY <1>1, <2>1, MacParts, GoodJoined, Zenon
<1>7. GoodFormat(<<"u">> \o MacAddress \o <<"u">>)
  <2>1. Len(<<"u">>) <= 6 /\ 4 \in {4, 10, 11, 12}
    OBVIOUS
  <2> QED
    BY <1>3, <1>4, <2>1, ShortFormats, Zenon
<1>8. GoodFormat(<<"v">> \o MacAddress
                   \o <<"u", "u", "n", "beaconFields", "n", "beaconPayload">>)
  <2>1. Len(<<"u", "u", "n", "beaconFields", "n", "beaconPayload">>) <= 6 /\ 4 \in {4, 10, 11, 12}
    OBVIOUS
  <2> QED
    BY <1>2, <1>3, <1>4, <2>1, Zenon
<1>9. /\ GoodFormat(MacFrame \o <<"u", "l", "payload", "u">>)
      /\ GoodFormat(<<"u">> \o MacFrame \o <<"u", "u", "w", "l", "payload", "w">>)
      /\ GoodFormat(<<"u", "u">> \o MacFrame \o <<"u", "w", "l", "payload", "u", "w">>)
  <2>1. /\ Len(<<"u", "l", "payload", "u">>) <= 6
        /\ Len(<<"u", "u", "w", "l", "payload", "w">>) <= 6
        /\ Len(<<"u", "w", "l", "payload", "u", "w">>) <= 6
        /\ 10 \in {4, 10, 11, 12} /\ 11 \in {4, 10, 11, 12} /\ 12 \in {4, 10, 11, 12}
    OBVIOUS
  <2> QED
    BY <1>2, <1>3, <1>5, <2>1, MacParts, Zenon
<1> QED
  BY <1>1, <1>6, <1>7, <1>8, <1>9, Zenon

(* What a table of commands is asked for: formats that fit, and            *)
(* identifiers that tell the command and its table.                        *)
Owner(k) ==
  CASE k \in {2, 3, 4, 79, 76, 77} -> KeyCommands
    [] k \in {82, 78, 80, 5, 75, 6} -> CounterAndChannelCommands
    [] k \in {7, 8, 9, 10, 88, 11} -> RadioCommands
    [] k \in {12, 13, 14, 15, 58, 16, 17} -> NodeCommands
    [] k \in {18, 19, 20, 70, 71, 72, 73} -> NetworkStateCommands
    [] k \in {48, 74, 83, 84, 85, 86} -> VersionCommands
    [] k \in {87, 22, 23, 43, 56, 45} -> MessageCommands
    [] k \in {49, 50, 51, 46, 62, 63} -> ChildCommands
    [] k \in {64, 24, 25, 26, 27, 60, 61} -> ScanAndBeaconCommands
    [] k \in {28, 29, 30, 59, 31, 32} -> FormAndJoinCommands
    [] k \in {33, 44, 38, 39, 40, 41, 42} -> FrequencyHoppingCommands
    [] k \in {67, 68, 65, 66, 69} -> StreamCommands

LastId == VNCP_CMD_ID + 255

GoodCommand(command) == GoodFormat(command.request) /\ GoodFormat(command.response)

OneByte(command) == command.request = <<"u">> /\ command.response = <<"u">>

GoodTable(table) ==
  /\ \A name \in DOMAIN table :
       /\ GoodCommand(table[name])
       /\ table[name].id \in Int16
       /\ Owner(table[name].id - VNCP_CMD_ID) = table
  /\ \A name \in DOMAIN table, other \in DOMAIN table :
       table[name].id = table[other].id => name = other
  /\ SetLongMessagesUse \in DOMAIN table => OneByte(table[SetLongMessagesUse])

LEMMA Between ==
  ASSUME NEW S, NEW m \in Nat, S = 0..m, NEW id \in Nat, id <= m
  PROVE  id \in S
OBVIOUS

LEMMA SmallIds ==
  ASSUME NEW id \in Nat, id <= LastId
  PROVE  id \in Int16
<1> DEFINE top == 65535
<1>1. Int16 = 0..top
  BY DEF Int16
<1>2. top \in Nat /\ id <= top
  BY SMT DEF LastId, VNCP_CMD_ID
<1> HIDE DEF top
<1> QED
  BY <1>1, <1>2, Between, SMT

LEMMA CommandGood ==
  ASSUME NEW id, NEW request, NEW response, GoodFormat(request), GoodFormat(response)
  PROVE  GoodCommand(Command(id, request, response))
BY SMT DEF GoodCommand, Command

LEMMA CommandIds ==
  ASSUME NEW id, NEW request, NEW response
  PROVE  Command(id, request, response).id = VNCP_CMD_ID + id
BY Zenon DEF Command

LEMMA TableGood ==
  ASSUME NEW table, NEW names, DOMAIN table = names, NEW ids,
         \A name \in names : GoodCommand(table[name]),
         \A name \in names : /\ table[name].id \in Nat
                             /\ table[name].id <= LastId
                             /\ table[name].id - VNCP_CMD_ID \in ids,
         \A k \in ids : Owner(k) = table,
         \A name \in names, other \in names : table[name].id = table[other].id => name = other,
         SetLongMessagesUse \in names => OneByte(table[SetLongMessagesUse])
  PROVE  GoodTable(table)
BY SmallIds, Zenon DEF GoodTable

LEMMA KeyCommandsGood == GoodTable(KeyCommands)
<1> DEFINE names == { "emberNetworkState", "emberStackIsUp",
                      "emberSetSecurityKey", "emberGetSecurityKey",
                      "emberSetPsaSecurityKey", "emberRemovePsaSecurityKey" }
<1> DEFINE ids == {2, 3, 4, 79, 76, 77}
<1>1. DOMAIN KeyCommands = names
  BY SMT DEF KeyCommands
<1>2. \A name \in names : GoodCommand(KeyCommands[name])
  BY CommandGood, ShortFormats, SMT DEF KeyCommands
<1>3. \A name \in names : /\ KeyCommands[name].id \in Nat
                         /\ KeyCommands[name].id <= LastId
                         /\ KeyCommands[name].id - VNCP_CMD_ID \in ids
  BY CommandIds, SMTT(60) DEF KeyCommands, VNCP_CMD_ID, LastId
<1>4. \A name \in names, other \in names :
        KeyCommands[name].id = KeyCommands[other].id => name = other
  BY CommandIds, SMTT(60) DEF KeyCommands, VNCP_CMD_ID
<1>5. \A k \in ids : Owner(k) = KeyCommands
  BY SMT DEF Owner
<1>6. SetLongMessagesUse \notin names
  BY SMT DEF SetLongMessagesUse
<1> HIDE DEF names, ids
<1> QED
  BY <1>1, <1>2, <1>3, <1>4, <1>5, <1>6, TableGood, Zenon

LEMMA CounterAndChannelCommandsGood == GoodTable(CounterAndChannelCommands)
<1> DEFINE names == { "emberSetNcpSecurityKeyPersistent",
                      "emberSetNcpSecurityKey", "emberGetKeyId",
                      "emberGetCounter", "emberSetRadioChannelExtended",
                      "emberSetRadioChannel" }
<1> DEFINE ids == {82, 78, 80, 5, 75, 6}
<1>1. DOMAIN CounterAndChannelCommands = names
  BY SMT DEF CounterAndChannelCommands
<1>2. \A name \in names : GoodCommand(CounterAndChannelCommands[name])
  BY CommandGood, ShortFormats, SMT DEF CounterAndChannelCommands
<1>3. \A name \in names : /\ CounterAndChannelCommands[name].id \in Nat
                         /\ CounterAndChannelCommands[name].id <= LastId
                         /\ CounterAndChannelCommands[name].id - VNCP_CMD_ID \in ids
  BY CommandIds, SMTT(60) DEF CounterAndChannelCommands, VNCP_CMD_ID, LastId
<1>4. \A name \in names, other \in names :
        CounterAndChannelCommands[name].id = CounterAndChannelCommands[other].id => name = other
  BY CommandIds, SMTT(60) DEF CounterAndChannelCommands, VNCP_CMD_ID
<1>5. \A k \in ids : Owner(k) = CounterAndChannelCommands
  BY SMT DEF Owner
<1>6. SetLongMessagesUse \notin names
  BY SMT DEF SetLongMessagesUse
<1> HIDE DEF names, ids
<1> QED
  BY <1>1, <1>2, <1>3, <1>4, <1>5, <1>6, TableGood, Zenon

LEMMA RadioCommandsGood == GoodTable(RadioCommands)
<1> DEFINE names == { "emberGetRadioChannel", "emberSetRadioPower",
                      "emberGetRadioPower", "emberSetRadioPowerMode",
                      "emberSetUnencryptedPacketsAcceptance",
                      "emberSetMacParams" }
<1> DEFINE ids == {7, 8, 9, 10, 88, 11}
<1>1. DOMAIN RadioCommands = names
  BY SMT DEF RadioCommands
<1>2. \A name \in names : GoodCommand(RadioCommands[name])
  BY CommandGood, ShortFormats, LongerFormats, SMT DEF RadioCommands
<1>3. \A name \in names : /\ RadioCommands[name].id \in Nat
                         /\ RadioCommands[name].id <= LastId
                         /\ RadioCommands[name].id - VNCP_CMD_ID \in ids
  BY CommandIds, SMTT(60) DEF RadioCommands, VNCP_CMD_ID, LastId
<1>4. \A name \in names, other \in names :
        RadioCommands[name].id = RadioCommands[other].id => name = other
  BY CommandIds, SMTT(60) DEF RadioCommands, VNCP_CMD_ID
<1>5. \A k \in ids : Owner(k) = RadioCommands
  BY SMT DEF Owner
<1>6. SetLongMessagesUse \notin names
  BY SMT DEF SetLongMessagesUse
<1> HIDE DEF names, ids
<1> QED
  BY <1>1, <1>2, <1>3, <1>4, <1>5, <1>6, TableGood, Zenon

LEMMA NodeCommandsGood == GoodTable(NodeCommands)
<1> DEFINE names == { "emberCurrentStackTasks", "emberOkToNap",
                      "emberOkToHibernate", "emberGetEui64",
                      "emberMacGetParentAddress", "emberIsLocalEui64",
                      "emberGetNodeId" }
<1> DEFINE ids == {12, 13, 14, 15, 58, 16, 17}
<1>1. DOMAIN NodeCommands = names
  BY SMT DEF NodeCommands
<1>2. \A name \in names : GoodCommand(NodeCommands[name])
  BY CommandGood, ShortFormats, MacFormats, SMT DEF NodeCommands
<1>3. \A name \in names : /\ NodeCommands[name].id \in Nat
                         /\ NodeCommands[name].id <= LastId
                         /\ NodeCommands[name].id - VNCP_CMD_ID \in ids
  BY CommandIds, SMTT(60) DEF NodeCommands, VNCP_CMD_ID, LastId
<1>4. \A name \in names, other \in names :
        NodeCommands[name].id = NodeCommands[other].id => name = other
  BY CommandIds, SMTT(60) DEF NodeCommands, VNCP_CMD_ID
<1>5. \A k \in ids : Owner(k) = NodeCommands
  BY SMT DEF Owner
<1>6. SetLongMessagesUse \notin names
  BY SMT DEF SetLongMessagesUse
<1> HIDE DEF names, ids
<1> QED
  BY <1>1, <1>2, <1>3, <1>4, <1>5, <1>6, TableGood, Zenon

LEMMA NetworkStateCommandsGood == GoodTable(NetworkStateCommands)
<1> DEFINE names == { "emberGetPanId", "emberGetParentId", "emberGetNodeType",
                      "emberCalibrateCurrentChannelExtended",
                      "emberApplyIrCalibration", "emberTempCalibration",
                      "emberGetCalType" }
<1> DEFINE ids == {18, 19, 20, 70, 71, 72, 73}
<1>1. DOMAIN NetworkStateCommands = names
  BY SMT DEF NetworkStateCommands
<1>2. \A name \in names : GoodCommand(NetworkStateCommands[name])
  BY CommandGood, ShortFormats, SMT DEF NetworkStateCommands
<1>3. \A name \in names : /\ NetworkStateCommands[name].id \in Nat
                         /\ NetworkStateCommands[name].id <= LastId
                         /\ NetworkStateCommands[name].id - VNCP_CMD_ID \in ids
  BY CommandIds, SMTT(60) DEF NetworkStateCommands, VNCP_CMD_ID, LastId
<1>4. \A name \in names, other \in names :
        NetworkStateCommands[name].id = NetworkStateCommands[other].id => name = other
  BY CommandIds, SMTT(60) DEF NetworkStateCommands, VNCP_CMD_ID
<1>5. \A k \in ids : Owner(k) = NetworkStateCommands
  BY SMT DEF Owner
<1>6. SetLongMessagesUse \notin names
  BY SMT DEF SetLongMessagesUse
<1> HIDE DEF names, ids
<1> QED
  BY <1>1, <1>2, <1>3, <1>4, <1>5, <1>6, TableGood, Zenon

LEMMA VersionCommandsGood == GoodTable(VersionCommands)
<1> DEFINE names == { "emberGetMaximumPayloadLength",
                      "emberSetIndirectQueueTimeout", "emberGetVersionInfo",
                      "emberOfdmSetMcs", "emberOfdmGetMcs",
                      "emberNcpSetLongMessagesUse" }
<1> DEFINE ids == {48, 74, 83, 84, 85, 86}
<1>1. DOMAIN VersionCommands = names
  BY SMT DEF VersionCommands
<1>2. \A name \in names : GoodCommand(VersionCommands[name])
  BY CommandGood, ShortFormats, LongerFormats, SMT DEF VersionCommands
<1>3. \A name \in names : /\ VersionCommands[name].id \in Nat
                         /\ VersionCommands[name].id <= LastId
                         /\ VersionCommands[name].id - VNCP_CMD_ID \in ids
  BY CommandIds, SMTT(60) DEF VersionCommands, VNCP_CMD_ID, LastId
<1>4. \A name \in names, other \in names :
        VersionCommands[name].id = VersionCommands[other].id => name = other
  BY CommandIds, SMTT(60) DEF VersionCommands, VNCP_CMD_ID
<1>5. \A k \in ids : Owner(k) = VersionCommands
  BY SMT DEF Owner
<1>6. OneByte(VersionCommands[SetLongMessagesUse])
  BY SMT DEF OneByte, VersionCommands, Command, SetLongMessagesUse
<1> HIDE DEF names, ids
<1> QED
  BY <1>1, <1>2, <1>3, <1>4, <1>5, <1>6, TableGood, Zenon

LEMMA MessageCommandsGood == GoodTable(MessageCommands)
<1> DEFINE names == { "emberUsingLongMessages", "emberMessageSend",
                      "emberPollForData", "emberMacMessageSend",
                      "emberMacSetPanCoordinator",
                      "emberSetPollDestinationAddress" }
<1> DEFINE ids == {87, 22, 23, 43, 56, 45}
<1>1. DOMAIN MessageCommands = names
  BY SMT DEF MessageCommands
<1>2. \A name \in names : GoodCommand(MessageCommands[name])
  BY CommandGood, ShortFormats, LongerFormats, MacFormats, SMT DEF MessageCommands
<1>3. \A name \in names : /\ MessageCommands[name].id \in Nat
                         /\ MessageCommands[name].id <= LastId
                         /\ MessageCommands[name].id - VNCP_CMD_ID \in ids
  BY CommandIds, SMTT(60) DEF MessageCommands, VNCP_CMD_ID, LastId
<1>4. \A name \in names, other \in names :
        MessageCommands[name].id = MessageCommands[other].id => name = other
  BY CommandIds, SMTT(60) DEF MessageCommands, VNCP_CMD_ID
<1>5. \A k \in ids : Owner(k) = MessageCommands
  BY SMTT(60) DEF Owner
<1>6. SetLongMessagesUse \notin names
  BY SMT DEF SetLongMessagesUse
<1> HIDE DEF names, ids
<1> QED
  BY <1>1, <1>2, <1>3, <1>4, <1>5, <1>6, TableGood, Zenon

LEMMA ChildCommandsGood == GoodTable(ChildCommands)
<1> DEFINE names == { "emberRemoveChild", "emberGetChildFlags",
                      "emberGetChildInfo", "emberPurgeIndirectMessages",
                      "emberMacAddShortToLongAddressMapping",
                      "emberMacClearShortToLongAddressMappings" }
<1> DEFINE ids == {49, 50, 51, 46, 62, 63}
<1>1. DOMAIN ChildCommands = names
  BY SMT DEF ChildCommands
<1>2. \A name \in names : GoodCommand(ChildCommands[name])
  BY CommandGood, ShortFormats, MacFormats, SMT DEF ChildCommands
<1>3. \A name \in names : /\ ChildCommands[name].id \in Nat
                         /\ ChildCommands[name].id <= LastId
                         /\ ChildCommands[name].id - VNCP_CMD_ID \in ids
  BY CommandIds, SMTT(60) DEF ChildCommands, VNCP_CMD_ID, LastId
<1>4. \A name \in names, other \in names :
        ChildCommands[name].id = ChildCommands[other].id => name = other
  BY CommandIds, SMTT(60) DEF ChildCommands, VNCP_CMD_ID
<1>5. \A k \in ids : Owner(k) = ChildCommands
  BY SMT DEF Owner
<1>6. SetLongMessagesUse \notin names
  BY SMT DEF SetLongMessagesUse
<1> HIDE DEF names, ids
<1> QED
  BY <1>1, <1>2, <1>3, <1>4, <1>5, <1>6, TableGood, Zenon

LEMMA ScanAndBeaconCommandsGood == GoodTable(ScanAndBeaconCommands)
<1> DEFINE names == { "emberNetworkLeave", "emberNetworkInit",
                      "emberStartActiveScan", "emberStartEnergyScan",
                      "emberSetApplicationBeaconPayload",
                      "emberSetSelectiveJoinPayload",
                      "emberClearSelectiveJoinPayload" }
<1> DEFINE ids == {64, 24, 25, 26, 27, 60, 61}
<1>1. DOMAIN ScanAndBeaconCommands = names
  BY SMT DEF ScanAndBeaconCommands
<1>2. \A name \in names : GoodCommand(ScanAndBeaconCommands[name])
  BY CommandGood, ShortFormats, SMT DEF ScanAndBeaconCommands
<1>3. \A name \in names : /\ ScanAndBeaconCommands[name].id \in Nat
                         /\ ScanAndBeaconCommands[name].id <= LastId
                         /\ ScanAndBeaconCommands[name].id - VNCP_CMD_ID \in ids
  BY CommandIds, SMTT(60) DEF ScanAndBeaconCommands, VNCP_CMD_ID, LastId
<1>4. \A name \in names, other \in names :
        ScanAndBeaconCommands[name].id = ScanAndBeaconCommands[other].id => name = other
  BY CommandIds, SMTT(60) DEF ScanAndBeaconCommands, VNCP_CMD_ID
<1>5. \A k \in ids : Owner(k) = ScanAndBeaconCommands
  BY SMT DEF Owner
<1>6. SetLongMessagesUse \notin names
  BY SMT DEF SetLongMessagesUse
<1> HIDE DEF names, ids
<1> QED
  BY <1>1, <1>2, <1>3, <1>4, <1>5, <1>6, TableGood, Zenon

LEMMA FormAndJoinCommandsGood == GoodTable(FormAndJoinCommands)
<1> DEFINE names == { "emberFormNetwork", "emberJoinNetworkExtended",
                      "emberJoinNetwork", "emberMacFormNetwork",
                      "emberPermitJoining", "emberJoinCommissioned" }
<1> DEFINE ids == {28, 29, 30, 59, 31, 32}
<1>1. DOMAIN FormAndJoinCommands = names
  BY SMT DEF FormAndJoinCommands
<1>2. \A name \in names : GoodCommand(FormAndJoinCommands[name])
  BY CommandGood, ShortFormats, LongerFormats, SMT DEF FormAndJoinCommands
<1>3. \A name \in names : /\ FormAndJoinCommands[name].id \in Nat
                         /\ FormAndJoinCommands[name].id <= LastId
                         /\ FormAndJoinCommands[name].id - VNCP_CMD_ID \in ids
  BY CommandIds, SMTT(60) DEF FormAndJoinCommands, VNCP_CMD_ID, LastId
<1>4. \A name \in names, other \in names :
        FormAndJoinCommands[name].id = FormAndJoinCommands[other].id => name = other
  BY CommandIds, SMTT(60) DEF FormAndJoinCommands, VNCP_CMD_ID
<1>5. \A k \in ids : Owner(k) = FormAndJoinCommands
  BY SMT DEF Owner
<1>6. SetLongMessagesUse \notin names
  BY SMT DEF SetLongMessagesUse
<1> HIDE DEF names, ids
<1> QED
  BY <1>1, <1>2, <1>3, <1>4, <1>5, <1>6, TableGood, Zenon

LEMMA FrequencyHoppingCommandsGood == GoodTable(FrequencyHoppingCommands)
<1> DEFINE names == { "emberResetNetworkState",
                      "emberFrequencyHoppingSetChannelMask",
                      "emberFrequencyHoppingStartServer",
                      "emberFrequencyHoppingStartClient",
                      "emberFrequencyHoppingStop",
                      "emberSetAuxiliaryAddressFilteringEntry",
                      "emberGetAuxiliaryAddressFilteringEntry" }
<1> DEFINE ids == {33, 44, 38, 39, 40, 41, 42}
<1>1. DOMAIN FrequencyHoppingCommands = names
  BY SMT DEF FrequencyHoppingCommands
<1>2. \A name \in names : GoodCommand(FrequencyHoppingCommands[name])
  BY CommandGood, ShortFormats, SMT DEF FrequencyHoppingCommands
<1>3. \A name \in names : /\ FrequencyHoppingCommands[name].id \in Nat
                         /\ FrequencyHoppingCommands[name].id <= LastId
                         /\ FrequencyHoppingCommands[name].id - VNCP_CMD_ID \in ids
  BY CommandIds, SMTT(60) DEF FrequencyHoppingCommands, VNCP_CMD_ID, LastId
<1>4. \A name \in names, other \in names :
        FrequencyHoppingCommands[name].id = FrequencyHoppingCommands[other].id => name = other
  BY CommandIds, SMTT(60) DEF FrequencyHoppingCommands, VNCP_CMD_ID
<1>5. \A k \in ids : Owner(k) = FrequencyHoppingCommands
  BY SMT DEF Owner
<1>6. SetLongMessagesUse \notin names
  BY SMT DEF SetLongMessagesUse
<1> HIDE DEF names, ids
<1> QED
  BY <1>1, <1>2, <1>3, <1>4, <1>5, <1>6, TableGood, Zenon

LEMMA StreamCommandsGood == GoodTable(StreamCommands)
<1> DEFINE names == { "emberStartTxStream", "emberStopTxStream",
                      "emberSetActiveScanDuration",
                      "emberGetActiveScanDuration", "emberGetDefaultChannel" }
<1> DEFINE ids == {67, 68, 65, 66, 69}
<1>1. DOMAIN StreamCommands = names
  BY SMT DEF StreamCommands
<1>2. \A name \in names : GoodCommand(StreamCommands[name])
  BY CommandGood, ShortFormats, SMT DEF StreamCommands
<1>3. \A name \in names : /\ StreamCommands[name].id \in Nat
                         /\ StreamCommands[name].id <= LastId
                         /\ StreamCommands[name].id - VNCP_CMD_ID \in ids
  BY CommandIds, SMTT(60) DEF StreamCommands, VNCP_CMD_ID, LastId
<1>4. \A name \in names, other \in names :
        StreamCommands[name].id = StreamCommands[other].id => name = other
  BY CommandIds, SMTT(60) DEF StreamCommands, VNCP_CMD_ID
<1>5. \A k \in ids : Owner(k) = StreamCommands
  BY SMT DEF Owner
<1>6. SetLongMessagesUse \notin names
  BY SMT DEF SetLongMessagesUse
<1> HIDE DEF names, ids
<1> QED
  BY <1>1, <1>2, <1>3, <1>4, <1>5, <1>6, TableGood, Zenon

(* The whole catalogue.                                                    *)
LEMMA FromTable ==
  ASSUME NEW tables, NEW name \in DOMAIN Catalogue(tables)
  PROVE  \E table \in tables : name \in DOMAIN table /\ Catalogue(tables)[name] = table[name]
<1> DEFINE table == CHOOSE t \in tables : name \in DOMAIN t
<1>1. name \in UNION {DOMAIN t : t \in tables}
  BY Zenon DEF Catalogue
<1>2. \E t \in tables : name \in DOMAIN t
  BY <1>1, Zenon
<1>3. table \in tables /\ name \in DOMAIN table
  BY <1>2, Zenon
<1>4. Catalogue(tables)[name] = table[name]
  BY <1>1, Zenon DEF Catalogue
<1> HIDE DEF table
<1> QED
  BY <1>3, <1>4, Zenon

CommandTables ==
  { KeyCommands, CounterAndChannelCommands, RadioCommands, NodeCommands,
    NetworkStateCommands, VersionCommands, MessageCommands, ChildCommands,
    ScanAndBeaconCommands, FormAndJoinCommands, FrequencyHoppingCommands,
    StreamCommands }

LEMMA TablesGood == \A table \in CommandTables : GoodTable(table)
BY KeyCommandsGood, CounterAndChannelCommandsGood, RadioCommandsGood, NodeCommandsGood,
   NetworkStateCommandsGood, VersionCommandsGood, MessageCommandsGood, ChildCommandsGood,
   ScanAndBeaconCommandsGood, FormAndJoinCommandsGood, FrequencyHoppingCommandsGood,
   StreamCommandsGood, Zenon DEF CommandTables

LEMMA InCommandTable ==
  ASSUME NEW name \in DOMAIN Commands
  PROVE  \E table \in CommandTables : name \in DOMAIN table /\ Commands[name] = table[name]
<1>1. Commands = Catalogue(CommandTables)
  BY Zenon DEF Commands, CommandTables
<1> QED
  BY <1>1, FromTable, Zenon

(* Every command has formats that fit and an identifier of its own.        *)
LEMMA CommandsGood ==
  ASSUME NEW name \in DOMAIN Commands
  PROVE  /\ GoodFormat(Commands[name].request) /\ GoodFormat(Commands[name].response)
         /\ Commands[name].id \in Int16
         /\ \A other \in DOMAIN Commands : Commands[name].id = Commands[other].id => name = other
<1>1. PICK table \in CommandTables : name \in DOMAIN table /\ Commands[name] = table[name]
  BY InCommandTable, Zenon
<1>2. GoodTable(table)
  BY TablesGood, Zenon
<1>3. /\ GoodCommand(Commands[name]) /\ Commands[name].id \in Int16
      /\ Owner(Commands[name].id - VNCP_CMD_ID) = table
  BY <1>1, <1>2, Zenon DEF GoodTable
<1>4. ASSUME NEW other \in DOMAIN Commands, Commands[name].id = Commands[other].id
      PROVE  name = other
  <2>1. PICK second \in CommandTables : other \in DOMAIN second /\ Commands[other] = second[other]
    BY InCommandTable, Zenon
  <2>2. GoodTable(second)
    BY TablesGood, Zenon
  <2>3. Owner(Commands[other].id - VNCP_CMD_ID) = second
    BY <2>1, <2>2, Zenon DEF GoodTable
  <2>4. table = second
    BY <1>3, <1>4, <2>3, Zenon
  <2> QED
    BY <1>1, <1>2, <1>4, <2>1, <2>4, Zenon DEF GoodTable
<1> QED
  BY <1>3, <1>4, Zenon DEF GoodCommand

LEMMA SwitchCommand == SetLongMessagesUse \in DOMAIN Commands => OneByte(Commands[SetLongMessagesUse])
<1> SUFFICES ASSUME SetLongMessagesUse \in DOMAIN Commands
             PROVE  OneByte(Commands[SetLongMessagesUse])
  OBVIOUS
<1>1. PICK table \in CommandTables :
        SetLongMessagesUse \in DOMAIN table
        /\ Commands[SetLongMessagesUse] = table[SetLongMessagesUse]
  BY InCommandTable, Zenon
<1>2. GoodTable(table)
  BY TablesGood, Zenon
<1> QED
  BY <1>1, <1>2, Zenon DEF GoodTable

(* And every indication.                                                   *)
Sender(k) ==
  CASE k \in {0, 1, 48, 5, 6, 10} -> StatusIndications
    [] k \in {2, 3}               -> MessageIndications
    [] k \in {11, 12, 57}         -> MacIndications

GoodIndications(table) ==
  /\ \A name \in DOMAIN table :
       /\ GoodFormat(table[name].format)
       /\ table[name].id \in Int16
       /\ Sender(table[name].id - STACK_CALLBACK_ID) = table
  /\ \A name \in DOMAIN table, other \in DOMAIN table :
       table[name].id = table[other].id => name = other

LEMMA IndicationParts ==
  ASSUME NEW id, NEW format
  PROVE  /\ Indication(id, format).id = STACK_CALLBACK_ID + id
         /\ Indication(id, format).format = format
BY Zenon DEF Indication

LEMMA IndicationTableGood ==
  ASSUME NEW table, NEW names, DOMAIN table = names, NEW ids,
         \A name \in names : GoodFormat(table[name].format),
         \A name \in names : /\ table[name].id \in Nat
                             /\ table[name].id <= LastId
                             /\ table[name].id - STACK_CALLBACK_ID \in ids,
         \A k \in ids : Sender(k) = table,
         \A name \in names, other \in names : table[name].id = table[other].id => name = other
  PROVE  GoodIndications(table)
BY SmallIds, Zenon DEF GoodIndications

LEMMA StatusIndicationsGood == GoodIndications(StatusIndications)
<1> DEFINE names == { "emberAfStackStatus", "emberAfChildJoin",
                      "emberAfRadioNeedsCalibrating",
                      "emberAfActiveScanComplete",
                      "emberAfEnergyScanComplete",
                      "emberAfFrequencyHoppingStartClientComplete" }
<1> DEFINE ids == {0, 1, 48, 5, 6, 10}
<1>1. DOMAIN StatusIndications = names
  BY SMT DEF StatusIndications
<1>2. \A name \in names : GoodFormat(StatusIndications[name].format)
  BY IndicationParts, ShortFormats, LongerFormats, SMT DEF StatusIndications
<1>3. \A name \in names : /\ StatusIndications[name].id \in Nat
                         /\ StatusIndications[name].id <= LastId
                         /\ StatusIndications[name].id - STACK_CALLBACK_ID \in ids
  BY IndicationParts, SMTT(60) DEF StatusIndications, STACK_CALLBACK_ID, VNCP_CMD_ID, LastId
<1>4. \A name \in names, other \in names :
        StatusIndications[name].id = StatusIndications[other].id => name = other
  BY IndicationParts, SMTT(60) DEF StatusIndications, STACK_CALLBACK_ID
<1>5. \A k \in ids : Sender(k) = StatusIndications
  BY SMT DEF Sender
<1> HIDE DEF names, ids
<1> QED
  BY <1>1, <1>2, <1>3, <1>4, <1>5, IndicationTableGood, Zenon

LEMMA MessageIndicationsGood == GoodIndications(MessageIndications)
<1> DEFINE names == { "emberAfMessageSent", "emberAfIncomingMessage" }
<1> DEFINE ids == {2, 3}
<1>1. DOMAIN MessageIndications = names
  BY SMT DEF MessageIndications
<1>2. \A name \in names : GoodFormat(MessageIndications[name].format)
  BY IndicationParts, LongerFormats, SMT DEF MessageIndications
<1>3. \A name \in names : /\ MessageIndications[name].id \in Nat
                         /\ MessageIndications[name].id <= LastId
                         /\ MessageIndications[name].id - STACK_CALLBACK_ID \in ids
  BY IndicationParts, SMTT(60) DEF MessageIndications, STACK_CALLBACK_ID, VNCP_CMD_ID, LastId
<1>4. \A name \in names, other \in names :
        MessageIndications[name].id = MessageIndications[other].id => name = other
  BY IndicationParts, SMTT(60) DEF MessageIndications, STACK_CALLBACK_ID
<1>5. \A k \in ids : Sender(k) = MessageIndications
  BY SMT DEF Sender
<1> HIDE DEF names, ids
<1> QED
  BY <1>1, <1>2, <1>3, <1>4, <1>5, IndicationTableGood, Zenon

LEMMA MacIndicationsGood == GoodIndications(MacIndications)
<1> DEFINE names == { "emberAfIncomingMacMessage", "emberAfMacMessageSent",
                      "emberAfIncomingBeacon" }
<1> DEFINE ids == {11, 12, 57}
<1>1. DOMAIN MacIndications = names
  BY SMT DEF MacIndications
<1>2. \A name \in names : GoodFormat(MacIndications[name].format)
  BY IndicationParts, MacFormats, SMT DEF MacIndications
<1>3. \A name \in names : /\ MacIndications[name].id \in Nat
                         /\ MacIndications[name].id <= LastId
                         /\ MacIndications[name].id - STACK_CALLBACK_ID \in ids
  BY IndicationParts, SMTT(60) DEF MacIndications, STACK_CALLBACK_ID, VNCP_CMD_ID, LastId
<1>4. \A name \in names, other \in names :
        MacIndications[name].id = MacIndications[other].id => name = other
  BY IndicationParts, SMTT(60) DEF MacIndications, STACK_CALLBACK_ID
<1>5. \A k \in ids : Sender(k) = MacIndications
  BY SMT DEF Sender
<1> HIDE DEF names, ids
<1> QED
  BY <1>1, <1>2, <1>3, <1>4, <1>5, IndicationTableGood, Zenon

LEMMA IndicationsGood ==
  ASSUME NEW name \in DOMAIN Indications
  PROVE  /\ GoodFormat(Indications[name].format)
         /\ Indications[name].id \in Int16
         /\ \A other \in DOMAIN Indications :
              Indications[name].id = Indications[other].id => name = other
<1> DEFINE tables == {StatusIndications, MessageIndications, MacIndications}
<1>1. Indications = Catalogue(tables)
  BY Zenon DEF Indications
<1>2. \A table \in tables : GoodIndications(table)
  BY StatusIndicationsGood, MessageIndicationsGood, MacIndicationsGood, Zenon
<1> HIDE DEF tables
<1>3. \A other \in DOMAIN Indications :
        \E table \in tables : other \in DOMAIN table /\ Indications[other] = table[other]
  BY <1>1, FromTable, Zenon
<1>4. PICK table \in tables : name \in DOMAIN table /\ Indications[name] = table[name]
  BY <1>3, Zenon
<1>5. /\ GoodFormat(Indications[name].format) /\ Indications[name].id \in Int16
      /\ Sender(Indications[name].id - STACK_CALLBACK_ID) = table
  BY <1>2, <1>4, Zenon DEF GoodIndications
<1>6. ASSUME NEW other \in DOMAIN Indications, Indications[name].id = Indications[other].id
      PROVE  name = other
  <2>1. PICK second \in tables : other \in DOMAIN second /\ Indications[other] = second[other]
    BY <1>3, Zenon
  <2>2. Sender(Indications[other].id - STACK_CALLBACK_ID) = second
    BY <1>2, <2>1, Zenon DEF GoodIndications
  <2>3. table = second
    BY <1>5, <1>6, <2>2, Zenon
  <2> QED
    BY <1>2, <1>4, <1>6, <2>1, <2>3, Zenon DEF GoodIndications
<1> QED
  BY <1>5, <1>6, Zenon

-----------------------------------------------------------------------------
(* The values tried.                                                       *)

(* The most bytes a field of the values tried takes.                       *)
Widest(kind) == IF kind \in LargeArrays THEN 260 ELSE 32

(* Values that fit their fields, and together the command buffer.          *)
FitsBuffer(format, values, long) ==
  /\ Sendable(format, values, long)
  /\ \A i \in DOMAIN format : Len(StoreField(format[i], values[i], long)) <= Widest(format[i])

LEMMA SmallNumbers == 1 <= 4 /\ 2 <= 4 /\ 4 <= 4
BY SMT

(* How many bytes a field takes that is no array.                          *)
LEMMA NumberLengths ==
  ASSUME NEW long \in BOOLEAN, NEW kind \in Kinds, kind \notin ArrayKinds,
         NEW value \in Carried(kind, long)
  PROVE  Len(StoreField(kind, value, long)) <= 4
<1>1. /\ \A a : Len(<<a>>) = 1
      /\ \A a, b : Len(<<a, b>>) = 2
      /\ \A s \in Byte \X Byte \X Byte \X Byte : Len(s) = 4
  BY TupleLengths, SMT
<1>2. CASE kind \in {"u", "s"}
  BY <1>1, <1>2, Bytes, SMT
<1>3. CASE kind = "n"
  BY <1>1, <1>3, Overwritten, SMT
<1>4. CASE kind \in {"v", "a"}
  <2>1. StoreField(kind, value, long) = StoreHighLowInt16u(value)
    BY <1>4, Halves, Zenon
  <2>2. Len(StoreHighLowInt16u(value)) = 2
    BY <1>1, Zenon DEF StoreHighLowInt16u
  <2> QED
    BY <2>1, <2>2, SmallNumbers, Zenon
<1>5. CASE kind = "l"
  <2>1. StoreField(kind, value, long) = StoreLength(long, value) /\ value \in Nat
    BY <1>5, Lengths, Zenon
  <2>2. Len(StoreField(kind, value, long)) = LengthSize(long)
    BY <2>1, StoredLength, Zenon
  <2> QED
    BY <2>2, SmallNumbers, Zenon DEF LengthSize
<1>6. CASE kind = "w"
  <2>1. value \in Int32 /\ StoreField(kind, value, long) = StoreHighLowInt32u(value)
    BY <1>6, Words, Zenon
  <2>2. StoreHighLowInt32u(value) \in Byte \X Byte \X Byte \X Byte
    BY <2>1, RoundTrip32, Zenon DEF StoreHighLowInt32u
  <2>3. Len(StoreHighLowInt32u(value)) = 4
    BY <1>1, <2>2, Zenon
  <2> QED
    BY <2>1, <2>3, SmallNumbers, Zenon
<1> QED
  BY <1>2, <1>3, <1>4, <1>5, <1>6, EveryKind, Zenon

(* And an array with its length.                                           *)
LEMMA ArrayLengths ==
  ASSUME NEW long \in BOOLEAN, NEW kind \in ArrayKinds, NEW value \in Carried(kind, long)
  PROVE  Len(StoreField(kind, value, long)) <= Len(value) + 2
<1>1. /\ value \in Seq(Byte) /\ Len(value) \in Nat
      /\ StoreField(kind, value, long) = StoreLength(long, Len(value)) \o value
  BY Arrays, Zenon
<1>2. /\ StoreLength(long, Len(value)) \in Seq(Byte)
      /\ Len(StoreLength(long, Len(value))) = LengthSize(long)
  BY <1>1, StoredLength, Zenon
<1>3. LengthSize(long) <= 2 /\ LengthSize(long) \in Nat
  BY SMT DEF LengthSize
<1>4. Len(StoreField(kind, value, long)) = LengthSize(long) + Len(value)
  BY <1>1, <1>2, JoinedLength, Zenon
<1> QED
  BY <1>1, <1>3, <1>4, SMT

LEMMA LengthsTried ==
  /\ \A kind \in ArrayKinds : LeastLength[kind] \in Nat /\ LeastLength[kind] <= 16
  /\ \A kind \in ArrayKinds : LargestLength[kind] \in Nat /\ LargestLength[kind] <= 255
  /\ \A kind \in ArrayKinds : kind \notin LargeArrays => LargestLength[kind] <= 30
  /\ LongPayload \in Nat /\ LongPayload <= 258 /\ "payload" \in LargeArrays
BY ArrayKindsAre, SMT DEF LeastLength, LargestLength, LongPayload, LargeArrays

LEMMA TriedLength ==
  ASSUME NEW kind \in ArrayKinds, NEW largest \in BOOLEAN, NEW long \in BOOLEAN
  PROVE  /\ Length(kind, largest, long) \in Nat
         /\ Length(kind, largest, long) <= MaxLength(kind, long)
         /\ Length(kind, largest, long) + 2 <= Widest(kind)
<1>1. CASE ~largest
  BY <1>1, LengthsTried, SMT DEF Length, MaxLength, Widest
<1>2. CASE largest /\ kind = "payload" /\ long
  BY <1>2, LengthsTried, SMT DEF Length, MaxLength, WideLength, Widest
<1>3. CASE largest /\ ~(kind = "payload" /\ long)
  BY <1>3, LengthsTried, SMT DEF Length, MaxLength, Widest
<1> QED
  BY <1>1, <1>2, <1>3, Zenon

LEMMA InRange ==
  /\ \A value \in Nat : value <= 255 => value \in Byte
  /\ \A value \in Nat : value <= 65535 => value \in Int16
  /\ \A value \in Nat : value <= 2147483647 => value \in Int32
<1>1. \A value \in Nat : value <= 255 => value \in Byte
  <2> DEFINE top == 255
  <2>1. Byte = 0..top /\ top \in Nat
    BY DEF Byte
  <2> HIDE DEF top
  <2>2. \A value \in Nat : value <= top => value \in Byte
    BY <2>1, Between
  <2> QED
    BY <2>2 DEF top
<1>2. \A value \in Nat : value <= 65535 => value \in Int16
  <2> DEFINE top == 65535
  <2>1. Int16 = 0..top /\ top \in Nat
    BY DEF Int16
  <2> HIDE DEF top
  <2>2. \A value \in Nat : value <= top => value \in Int16
    BY <2>1, Between
  <2> QED
    BY <2>2 DEF top
<1>3. \A value \in Nat : value <= 2147483647 => value \in Int32
  BY DEF Int32
<1> QED
  BY <1>1, <1>2, <1>3

LEMMA CarriedIs ==
  ASSUME NEW kind, NEW long
  PROVE  /\ kind \in {"u", "s"} => Carried(kind, long) = Byte
         /\ kind \in {"v", "a"} => Carried(kind, long) = Int16
         /\ kind = "w" => Carried(kind, long) = Int32
         /\ kind \in {"l", "n"} => Carried(kind, long) = Nat
BY ArrayKindsAre, SMTT(60) DEF Carried

(* The numbers tried, kind by kind.                                        *)
LEMMA NumberTried ==
  ASSUME NEW kind \in {"u", "s", "v", "a", "w"}, NEW place \in 1..20,
         NEW largest \in BOOLEAN, NEW long \in BOOLEAN
  PROVE  Value(kind, place, largest, long) \in Carried(kind, long)
<1> DEFINE value == Value(kind, place, largest, long)
<1>0. place \in Nat /\ 1 <= place /\ place <= 20
  OBVIOUS
<1>1. CASE kind \in {"u", "s"}
  <2>1. Carried(kind, long) = Byte
    BY <1>1, CarriedIs, Zenon
  <2>2. value = (IF largest THEN 255 - place ELSE 0)
    BY <1>1, SMT DEF Value
  <2> HIDE DEF value
  <2>3. value \in Nat /\ value <= 255
    BY <1>0, <2>2, SMT
  <2>4. value \in Byte
    BY <2>3, InRange, SMT
  <2> QED
    BY <2>1, <2>4, Zenon DEF value
<1>2. CASE kind \in {"v", "a"}
  <2>1. Carried(kind, long) = Int16
    BY <1>2, CarriedIs, Zenon
  <2>2. value = (IF largest THEN 65535 - 256 * place ELSE place)
    BY <1>2, SMT DEF Value
  <2> HIDE DEF value
  <2>3. value \in Nat /\ value <= 65535
    BY <1>0, <2>2, SMT
  <2>4. value \in Int16
    BY <2>3, InRange, SMT
  <2> QED
    BY <2>1, <2>4, Zenon DEF value
<1>3. CASE kind = "w"
  <2>1. Carried(kind, long) = Int32
    BY <1>3, CarriedIs, Zenon
  <2>2. value = (IF largest THEN 2147483647 - 65536 * place ELSE 0)
    BY <1>3, SMT DEF Value
  <2> HIDE DEF value
  <2>3. value \in Nat /\ value <= 2147483647
    BY <1>0, <2>2, SMT
  <2>4. value \in Int32
    BY <2>3, InRange, SMT
  <2> QED
    BY <2>1, <2>4, Zenon DEF value
<1> QED
  BY <1>1, <1>2, <1>3, SMT

(* The value at a place fits its field, if the field is a value's own.     *)
LEMMA TriedValue ==
  ASSUME NEW kind \in Kinds, kind \notin {"l", "n"}, NEW place \in 1..20,
         NEW largest \in BOOLEAN, NEW long \in BOOLEAN
  PROVE  /\ Value(kind, place, largest, long) \in Carried(kind, long)
         /\ Len(StoreField(kind, Value(kind, place, largest, long), long)) <= Widest(kind)
<1> DEFINE value == Value(kind, place, largest, long)
<1>1. CASE kind \in {"u", "s", "v", "a", "w"}
  <2>1. value \in Carried(kind, long)
    BY <1>1, NumberTried, Zenon
  <2>2. kind \notin ArrayKinds
    BY <1>1, ArrayKindsAre, SMT
  <2>3. Widest(kind) = 32
    BY <1>1, SMT DEF Widest, LargeArrays
  <2> HIDE DEF value
  <2> DEFINE width == Len(StoreField(kind, value, long))
  <2>4. width <= 4
    BY <2>1, <2>2, NumberLengths, Zenon
  <2>5. width \in Nat
    <3>1. StoreField(kind, value, long) \in Seq(Byte)
      BY <2>1, StoredField, Zenon
    <3> QED
      BY <3>1, SMT
  <2> HIDE DEF width
  <2>6. width <= Widest(kind)
    BY <2>3, <2>4, <2>5, SMT
  <2> QED
    BY <2>1, <2>6, Zenon DEF width, value
<1>2. CASE kind \in ArrayKinds
  <2> DEFINE n == Length(kind, largest, long)
  <2>1. n \in Nat /\ n <= MaxLength(kind, long) /\ n + 2 <= Widest(kind)
    BY <1>2, TriedLength, Zenon
  <2>2. kind \notin {"u", "s"} /\ kind \notin {"v", "a"} /\ kind # "w"
    BY <1>2, ArrayKindsAre, SMT
  <2>3. value = [j \in 1..n |-> (place + 7 * j) % 256]
    BY <2>2, SMT DEF Value
  <2> HIDE DEF value, n
  <2>4. \A j \in 1..n : (place + 7 * j) % 256 \in Byte
    BY <2>1, LowPart
  <2>5. value \in Seq(Byte) /\ Len(value) = n
    BY <2>1, <2>3, <2>4, SMT
  <2>6. value \in Carried(kind, long)
    <3>1. Carried(kind, long) = {bytes \in Seq(Byte) : Len(bytes) <= MaxLength(kind, long)}
      BY <1>2, ArraysCase, Zenon
    <3> QED
      BY <2>1, <2>5, <3>1, Zenon
  <2>7. Len(StoreField(kind, value, long)) <= Len(value) + 2
    BY <1>2, <2>6, ArrayLengths, Zenon
  <2>8. StoreField(kind, value, long) \in Seq(Byte)
    BY <2>6, StoredField, Zenon
  <2>9. Len(StoreField(kind, value, long)) \in Nat /\ Widest(kind) \in Nat
    BY <2>8, SMT DEF Widest
  <2> QED
    BY <2>1, <2>5, <2>6, <2>7, <2>9, SMT DEF value
<1> QED
  BY <1>1, <1>2, SMT DEF Kinds

(* Every value tried fits its field and the buffer.                        *)
LEMMA TriedFits ==
  ASSUME NEW format, GoodFormat(format), NEW long \in BOOLEAN, NEW values \in Tried(format, long)
  PROVE  FitsBuffer(format, values, long)
<1>1. PICK largest \in BOOLEAN : values = Values(format, largest, long)
  BY Zenon DEF Tried
<1>2. format \in Seq(Kinds) /\ Len(format) <= 20
  BY Zenon DEF GoodFormat
<1>3. \A i \in DOMAIN format : i \in 1..20 /\ format[i] \in Kinds
  BY <1>2, SMTT(60)
<1>4. ASSUME NEW i \in DOMAIN format
      PROVE  /\ values[i] \in Carried(format[i], long)
             /\ Len(StoreField(format[i], values[i], long)) <= Widest(format[i])
  <2>1. CASE format[i] \in {"l", "n"}
    <3>1. values[i] = Length(format[i + 1], largest, long)
      BY <1>1, <2>1, Zenon DEF Values
    <3>2. format[i + 1] \in ArrayKinds
      BY <2>1, Zenon DEF GoodFormat, LengthsPaired, ArrayNext, Overlaid
    <3>3. values[i] \in Nat
      BY <3>1, <3>2, TriedLength, Zenon
    <3>4. values[i] \in Carried(format[i], long)
      <4>1. Carried(format[i], long) = Nat
        BY <2>1, CarriedIs, Zenon
      <4> QED
        BY <3>3, <4>1, Zenon
    <3>5. format[i] \in Kinds /\ format[i] \notin ArrayKinds /\ Widest(format[i]) = 32
      BY <1>3, <2>1, ArrayKindsAre, SMT DEF Widest, LargeArrays
    <3>6. Len(StoreField(format[i], values[i], long)) <= 4
      BY <3>4, <3>5, NumberLengths, Zenon
    <3>7. StoreField(format[i], values[i], long) \in Seq(Byte)
      BY <3>4, <3>5, StoredField, Zenon
    <3>8. Len(StoreField(format[i], values[i], long)) \in Nat
      BY <3>7, SMT
    <3> QED
      BY <3>4, <3>5, <3>6, <3>8, SMT
  <2>2. CASE format[i] \notin {"l", "n"}
    <3>1. values[i] = Value(format[i], i, largest, long)
      BY <1>1, <2>2, Zenon DEF Values
    <3> QED
      BY <1>3, <2>2, <3>1, TriedValue, Zenon
  <2> QED
    BY <2>1, <2>2, Zenon
<1> QED
  BY <1>4, Zenon DEF FitsBuffer, Sendable

(* The short address of a union is the first two bytes of the long one.    *)
LEMMA ShortIsPart ==
  ASSUME NEW place \in Nat, NEW largest \in BOOLEAN, NEW long \in BOOLEAN
  PROVE  ShortAddress(Value("eui64", place, largest, long)) \in Int16
<1> DEFINE address == Value("eui64", place, largest, long)
<1>1. address = [j \in 1..8 |-> (place + 7 * j) % 256]
  <2>1. Length("eui64", largest, long) = 8
    BY SMT DEF Length, LeastLength, LargestLength
  <2> QED
    BY <2>1, SMT DEF Value
<1> HIDE DEF address
<1>2. ASSUME NEW j \in {1, 2} PROVE address[j] \in Byte
  <2> DEFINE m == place + 7 * j
  <2>1. m \in Nat /\ j \in 1..8
    OBVIOUS
  <2>2. address[j] = m % 256
    BY <1>1, <2>1, SMT
  <2> HIDE DEF m
  <2>3. m % 256 \in Byte
    BY <2>1, LowPart, SMT
  <2> QED
    BY <2>2, <2>3, Zenon
<1>3. address[1] \in Byte /\ address[2] \in Byte
  BY <1>2, SMT
<1>4. ASSUME NEW a \in Byte, NEW b \in Byte PROVE 256 * b + a \in Int16
  <2>1. a \in Nat /\ b \in Nat /\ a <= 255 /\ b <= 255
    <3>1. \A value \in Byte : value \in Nat /\ value <= 255
      BY SMT DEF Byte
    <3> QED
      BY <3>1, Zenon
  <2> DEFINE short == 256 * b + a
  <2>2. short \in Nat /\ short <= 65535
    BY <2>1
  <2> HIDE DEF short
  <2>3. short \in Int16
    BY <2>2, InRange, SMT
  <2> QED
    BY <2>3, Zenon DEF short
<1>5. ShortAddress(address) = 256 * address[2] + address[1]
  BY Zenon DEF ShortAddress, FetchLowHighInt16u
<1> QED
  BY <1>3, <1>4, <1>5, Zenon DEF address

(* So do the arguments that come out of unions.                            *)
LEMMA InUnionFits ==
  ASSUME NEW format, GoodFormat(format), NEW long \in BOOLEAN, NEW values \in Tried(format, long)
  PROVE  FitsBuffer(format, InUnion(format, values), long)
<1> DEFINE given == InUnion(format, values)
<1>1. PICK largest \in BOOLEAN : values = Values(format, largest, long)
  BY Zenon DEF Tried
<1>2. format \in Seq(Kinds) /\ FitsBuffer(format, values, long)
  BY TriedFits, Zenon DEF GoodFormat
<1>3. \A i \in DOMAIN format : i \in Nat /\ i + 1 \in Nat
  BY <1>2, FormatDomain, SMT
<1>4. ASSUME NEW i \in DOMAIN format
      PROVE  given[i] = IF format[i] = "a" THEN ShortAddress(values[i + 1]) ELSE values[i]
  BY Zenon DEF InUnion
<1> HIDE DEF given
<1>5. ASSUME NEW i \in DOMAIN format
      PROVE  /\ given[i] \in Carried(format[i], long)
             /\ Len(StoreField(format[i], given[i], long)) <= Widest(format[i])
  <2>1. CASE format[i] = "a"
    <3> DEFINE next == i + 1
    <3>1. next \in DOMAIN format /\ format[next] = "eui64"
      BY <2>1, Zenon DEF GoodFormat, LengthsPaired, ArrayNext, Overlaid
    <3>2. next \in Nat /\ given[i] = ShortAddress(values[next])
      BY <1>3, <1>4, <2>1, Zenon
    <3> HIDE DEF next
    <3>3. values[next] = Value("eui64", next, largest, long)
      BY <1>1, <3>1, Zenon DEF Values
    <3>4. given[i] \in Int16
      BY <3>2, <3>3, ShortIsPart, Zenon
    <3>5. Carried("a", long) = Int16 /\ "a" \in Kinds /\ "a" \notin ArrayKinds /\ Widest("a") = 32
      BY CarriedIs, ArrayKindsAre, SMT DEF Kinds, Widest, LargeArrays
    <3>6. Len(StoreField("a", given[i], long)) <= 4
      BY <3>4, <3>5, NumberLengths, Zenon
    <3>7. StoreField("a", given[i], long) \in Seq(Byte)
      BY <3>4, <3>5, StoredField, Zenon
    <3>8. Len(StoreField("a", given[i], long)) <= Widest("a")
      BY <3>5, <3>6, <3>7, SMT
    <3> QED
      BY <2>1, <3>4, <3>5, <3>8, Zenon
  <2>2. CASE format[i] # "a"
    <3>1. given[i] = values[i]
      BY <1>4, <2>2, Zenon
    <3> QED
      BY <1>2, <3>1, Zenon DEF FitsBuffer, Sendable
  <2> QED
    BY <2>1, <2>2, Zenon
<1> QED
  BY <1>5, Zenon DEF FitsBuffer, Sendable, given

-----------------------------------------------------------------------------
(* A frame is no longer than the command buffer: at most 20 fields, one of *)
(* them large.                                                             *)
Large(format, n) == \E j \in 1..n : format[j] \in LargeArrays

Longest(format, n) == 32 * n + (IF Large(format, n) THEN 260 ELSE 0)

LEMMA OneMore ==
  ASSUME NEW format, NEW k \in Nat, format[k + 1] \in LargeArrays => ~Large(format, k)
  PROVE  /\ Longest(format, k) + Widest(format[k + 1]) <= Longest(format, k + 1)
         /\ Longest(format, k) \in Nat /\ Longest(format, k + 1) \in Nat
         /\ Widest(format[k + 1]) \in Nat
<1>1. Large(format, k + 1) <=> Large(format, k) \/ format[k + 1] \in LargeArrays
  <2>1. \A j : j \in 1..(k + 1) <=> j \in 1..k \/ j = k + 1
    OBVIOUS
  <2> QED
    BY <2>1, Zenon DEF Large
<1> QED
  BY <1>1, SMT DEF Longest, Widest

LEMMA BoundsAdded ==
  ASSUME NEW a \in Nat, NEW b \in Nat, NEW c \in Nat, NEW d \in Nat, NEW e \in Nat,
         a <= c, b <= d, c + d <= e
  PROVE  a + b <= e
BY SMT

LEMMA JoinsFit ==
  ASSUME NEW format, GoodFormat(format), NEW parts, NEW C, Joins(parts, Len(format), C),
         \A i \in 1..Len(format) : parts[i] \in Seq(Byte) /\ Len(parts[i]) <= Widest(format[i])
  PROVE  /\ C[Len(format)] \in Seq(Byte)
         /\ Len(C[Len(format)]) <= Longest(format, Len(format))
<1> DEFINE n == Len(format)
<1> DEFINE S == {k \in Nat : k <= n => Len(C[k]) <= Longest(format, k)}
<1>1. n \in Nat /\ DOMAIN format = 1..n
  BY FormatDomain, Zenon DEF GoodFormat
<1>2. /\ \A i \in 0..n : C[i] \in Seq(Byte) /\ Len(C[i]) \in Nat
      /\ C[0] = <<>> /\ \A i \in 1..n : C[i] = C[i - 1] \o parts[i]
  <2>1. \A s \in Seq(Byte) : Len(s) \in Nat
    BY SMT
  <2>2. C \in [0..n -> Seq(Byte)] /\ C[0] = <<>> /\ \A i \in 1..n : C[i] = C[i - 1] \o parts[i]
    BY Zenon DEF Joins
  <2> QED
    BY <2>1, <2>2, Zenon
<1>3. \A i \in 1..n : parts[i] \in Seq(Byte) /\ Len(parts[i]) <= Widest(format[i])
  OBVIOUS
<1> HIDE DEF n
<1>4. 0 \in S
  <2>1. Len(C[0]) = 0
    BY <1>2, SMT
  <2>2. Longest(format, 0) \in Nat
    BY SMT DEF Longest
  <2> QED
    BY <2>1, <2>2, SMT
<1>5. ASSUME NEW k \in Nat, k \in S PROVE k + 1 \in S
  <2> SUFFICES ASSUME k + 1 <= n PROVE Len(C[k + 1]) <= Longest(format, k + 1)
    BY SMT
  <2>1. k + 1 \in 1..n /\ k \in 0..n /\ k + 1 - 1 = k /\ k + 1 \in DOMAIN format
    BY <1>1, SMT
  <2>2. C[k + 1] = C[k] \o parts[k + 1]
    <3> DEFINE i == k + 1
    <3>1. i \in 1..n /\ i - 1 = k
      BY <2>1, SMT
    <3> HIDE DEF i
    <3>2. C[i] = C[k] \o parts[i]
      BY <1>2, <3>1, Zenon
    <3> QED
      BY <3>2, Zenon DEF i
  <2>3. Len(C[k + 1]) = Len(C[k]) + Len(parts[k + 1])
    BY <1>2, <1>3, <2>1, <2>2, JoinedLength, ZenonT(60)
  <2>4. Len(C[k]) <= Longest(format, k)
    BY <1>5, <2>1, SMTT(60)
  <2>5. format[k + 1] \in LargeArrays => ~Large(format, k)
    <3>1. ASSUME NEW j \in 1..k PROVE j \in DOMAIN format /\ j # k + 1
      BY <1>1, <2>1, SMT
    <3> QED
      BY <2>1, <3>1, Zenon DEF GoodFormat, Large
  <2>6. /\ Longest(format, k) + Widest(format[k + 1]) <= Longest(format, k + 1)
        /\ Longest(format, k) \in Nat /\ Longest(format, k + 1) \in Nat
        /\ Widest(format[k + 1]) \in Nat
    BY <2>5, OneMore, Zenon
  <2>7. Len(C[k]) \in Nat /\ Len(parts[k + 1]) <= Widest(format[k + 1])
    BY <1>2, <1>3, <2>1, Zenon
  <2>8. Len(parts[k + 1]) \in Nat
    <3>1. parts[k + 1] \in Seq(Byte)
      BY <1>3, <2>1, Zenon
    <3> QED
      BY <3>1, SMT
  <2> DEFINE a == Len(C[k])
  <2> DEFINE b == Len(parts[k + 1])
  <2> DEFINE c == Longest(format, k)
  <2> DEFINE d == Widest(format[k + 1])
  <2> DEFINE e == Longest(format, k + 1)
  <2>9. a \in Nat /\ b \in Nat /\ c \in Nat /\ d \in Nat /\ e \in Nat
    BY <2>6, <2>7, <2>8, Zenon
  <2>10. a <= c /\ b <= d /\ c + d <= e
    BY <2>4, <2>6, <2>7, Zenon
  <2>11. Len(C[k + 1]) = a + b
    BY <2>3, Zenon
  <2> HIDE DEF a, b, c, d, e
  <2>12. a + b <= e
    BY <2>9, <2>10, BoundsAdded, ZenonT(60)
  <2> QED
    BY <2>11, <2>12, ZenonT(60) DEF e
<1>6. n \in S
  <2> HIDE DEF S
  <2> QED
    BY <1>1, <1>4, <1>5, AllNumbers, Zenon
<1>7. n <= n /\ n \in 0..n
  BY <1>1, SMT
<1> QED
  BY <1>2, <1>6, <1>7, Zenon DEF n

InBuffer(bytes) == Len(bytes) <= 2096

LEMMA FrameFits ==
  ASSUME NEW long \in BOOLEAN, NEW identifier \in Int16, NEW format, GoodFormat(format),
         NEW values, FitsBuffer(format, values, long)
  PROVE  InBuffer(FormatCommand(identifier, format, values, long))
<1> DEFINE n == Len(format)
<1> DEFINE parts == Fields(format, values, long)
<1> DEFINE head == StoreHighLowInt16u(identifier)
<1>1. format \in Seq(Kinds) /\ Sendable(format, values, long) /\ n <= 20
  BY Zenon DEF GoodFormat, FitsBuffer
<1>2. n \in Nat /\ DOMAIN format = 1..n
  BY <1>1, FormatDomain, Zenon
<1>3. /\ Len(parts) = n /\ (n = 0 => parts = <<>>)
      /\ \A i \in 1..n : parts[i] \in Seq(Byte) /\ parts[i] = StoreField(format[i], values[i], long)
  BY <1>1, FieldsAreBytes, ZenonT(60)
<1>4. \A i \in 1..n : Len(parts[i]) <= Widest(format[i])
  BY <1>2, <1>3, ZenonT(60) DEF FitsBuffer
<1>5. FormatCommand(identifier, format, values, long) = head \o FlattenSeq(parts)
  BY Zenon DEF FormatCommand, Fields
<1>6. head \in Seq(Byte) /\ Len(head) = 2
  <2>1. HighByte(identifier) \in Byte /\ LowByte(identifier) \in Byte
    BY RoundTrip16, Zenon
  <2> QED
    BY <2>1, BytesAreSequences, TupleLengths, Zenon DEF StoreHighLowInt16u
<1> HIDE DEF parts, head
<1>7. PICK C : Joins(parts, n, C)
  BY <1>2, <1>3, JoinsExist, Zenon
<1>8. FlattenSeq(parts) = C[n]
  BY <1>2, <1>3, <1>7, Flattened, ZenonT(60)
<1>9. C[n] \in Seq(Byte) /\ Len(C[n]) <= Longest(format, n)
  BY <1>3, <1>4, <1>7, JoinsFit, ZenonT(60)
<1>10. Len(head \o C[n]) = Len(head) + Len(C[n])
  BY <1>6, <1>9, JoinedLength, Zenon
<1>11. Longest(format, n) <= 900 /\ Longest(format, n) \in Nat
  BY <1>1, <1>2, SMT DEF Longest
<1>12. Len(C[n]) \in Nat
  BY <1>9, SMT
<1>13. InBuffer(head \o C[n])
  BY <1>6, <1>9, <1>10, <1>11, <1>12, SMT DEF InBuffer
<1> QED
  BY <1>5, <1>8, <1>13, Zenon

-----------------------------------------------------------------------------
(* The session.                                                            *)

(* The frame of a message of the catalogues, as its sender formatted it.   *)
Wire(frame, id, format, given) ==
  /\ frame.long \in BOOLEAN
  /\ frame.bytes = FormatCommand(id, format, given, frame.long)
  /\ FitsBuffer(format, given, frame.long)

FrameOK(frame) ==
  /\ InBuffer(frame.bytes)
  /\ \A i \in DOMAIN frame.bytes : frame.bytes[i] \in Byte

LEMMA Sent ==
  ASSUME NEW id, NEW format, NEW given, NEW long \in BOOLEAN, FitsBuffer(format, given, long)
  PROVE  /\ Wire(Frame(id, format, given, long), id, format, given)
         /\ Frame(id, format, given, long).long = long
<1> DEFINE frame == Frame(id, format, given, long)
<1>1. frame.long = long /\ frame.bytes = FormatCommand(id, format, given, long)
  BY Zenon DEF Frame
<1> HIDE DEF frame
<1>2. Wire(frame, id, format, given)
  BY <1>1, Zenon DEF Wire
<1> QED
  BY <1>1, <1>2, Zenon DEF frame

(* Its identifier is found again and it fits the buffer.                   *)
LEMMA WireFits ==
  ASSUME NEW id \in Int16, NEW format, GoodFormat(format), NEW given, NEW frame,
         Wire(frame, id, format, given)
  PROVE  FrameOK(frame) /\ Identifier(frame) = id
<1>1. /\ frame.long \in BOOLEAN /\ frame.bytes = FormatCommand(id, format, given, frame.long)
      /\ FitsBuffer(format, given, frame.long)
  BY Zenon DEF Wire
<1>2. format \in Seq(Kinds) /\ Sendable(format, given, frame.long)
  BY <1>1, Zenon DEF GoodFormat, FitsBuffer
<1> DEFINE bytes == frame.bytes
<1>0. Formatted(bytes, id, format, given, frame.long)
  BY <1>1, Zenon DEF Formatted
<1>6. InBuffer(bytes)
  BY <1>1, FrameFits, Zenon
<1> HIDE DEF bytes
<1>7. Framed(bytes, id, format, given, frame.long)
  BY <1>0, <1>1, <1>2, FrameParts, Zenon
<1>3. bytes \in Seq(Byte) /\ FetchHighLowInt16u(SubSeq(bytes, 1, 2)) = id
  BY <1>7, Zenon DEF Framed
<1>5. \A i \in DOMAIN bytes : bytes[i] \in Byte
  BY <1>3, SMT
<1> QED
  BY <1>3, <1>5, <1>6, Zenon DEF FrameOK, Identifier, bytes

LEMMA ReadWays ==
  ASSUME NEW frame, NEW format, NEW reader
  PROVE  /\ frame.long = reader \/ ModeFree(format)
              => Read(frame, format, reader)
                   = [garbled |-> FALSE,
                      values  |-> Handed(format, FetchParams(frame.bytes, format, reader))]
         /\ ~(frame.long = reader \/ ModeFree(format)) => Read(frame, format, reader) = Garbled
BY Zenon DEF Read

(* It is read as it was meant, or garbled by a reader in the other mode.   *)
LEMMA WireRead ==
  ASSUME NEW id \in Int16, NEW format, GoodFormat(format), NEW given, NEW frame,
         Wire(frame, id, format, given), NEW reader \in BOOLEAN
  PROVE  /\ ~Read(frame, format, reader).garbled => Intact(Read(frame, format, reader), format, given)
         /\ frame.long = reader \/ ModeFree(format)
              => Intact(Read(frame, format, reader), format, given)
<1>1. /\ frame.long \in BOOLEAN /\ frame.bytes = FormatCommand(id, format, given, frame.long)
      /\ FitsBuffer(format, given, frame.long)
  BY Zenon DEF Wire
<1>2. format \in Seq(Kinds) /\ LengthsPaired(format) /\ Sendable(format, given, frame.long)
  BY <1>1, Zenon DEF GoodFormat, FitsBuffer
<1> DEFINE read == Read(frame, format, reader)
<1>3. CASE frame.long = reader \/ ModeFree(format)
  <2> DEFINE values == Handed(format, FetchParams(frame.bytes, format, reader))
  <2>1. Understands(reader, frame.long, format)
    BY <1>3, Zenon DEF Understands
  <2>2. values = Expected(format, given)
    <3> DEFINE bytes == frame.bytes
    <3>1. Formatted(bytes, id, format, given, frame.long)
      BY <1>1, Zenon DEF Formatted
    <3> HIDE DEF bytes
    <3>2. Received(bytes, id, format, given, reader)
      BY <1>1, <1>2, <2>1, <3>1, FrameReadBack, Zenon
    <3> QED
      BY <3>2, Zenon DEF Received, bytes
  <2>3. read = [garbled |-> FALSE, values |-> values]
    BY <1>3, ReadWays, Zenon
  <2> HIDE DEF values, read
  <2>4. ~read.garbled /\ read.values = values
    BY <2>3, Zenon
  <2> QED
    BY <2>2, <2>4, Zenon DEF Intact, read
<1>4. CASE ~(frame.long = reader \/ ModeFree(format))
  <2>1. read = Garbled
    BY <1>4, ReadWays, Zenon
  <2> HIDE DEF read
  <2>2. read.garbled
    BY <2>1, Zenon DEF Garbled
  <2> QED
    BY <1>4, <2>2, Zenon DEF read
<1> QED
  BY <1>3, <1>4, Zenon

(* The call: a record of six fields, whose frame is that of its command    *)
(* and its arguments, or of the response and the answer.                   *)
IsCall(c) ==
  c = [stage |-> c.stage, name |-> c.name, given |-> c.given, frame |-> c.frame,
       read |-> c.read, toLong |-> c.toLong]

(* The values of the one-byte format are read as they are.                 *)
Same(given) == Expected(<<"u">>, given) = given

SentOK(c, host) ==
  /\ Wire(c.frame, Commands[c.name].id, Commands[c.name].request, c.given)
  /\ c.frame.long = host
  /\ c.name = SetLongMessagesUse => Same(c.given) /\ (c.toLong <=> c.given = <<1>>)

ReadOK(c, inStep) ==
  /\ inStep \/ ModeFree(Commands[c.name].request)
       => Intact(c.read, Commands[c.name].request, c.given)
  /\ c.name = SetLongMessagesUse => (c.toLong <=> c.read.values = <<1>>)

(* Between the NCP's accepting a switch and the host's reading that it did *)
(* the NCP is already in the mode that the host is to be in.               *)
AnsweredOK(c, host, ncp, inStep) ==
  /\ Wire(c.frame, Commands[c.name].id, Commands[c.name].response, c.given)
  /\ inStep => c.frame.long = host
  /\ c.name = SetLongMessagesUse => Same(c.given)
  /\ IF c.name = SetLongMessagesUse /\ c.given = <<0>>
     THEN ncp = c.toLong ELSE inStep => host = ncp

ReturnedOK(c, inStep) ==
  inStep \/ ModeFree(Commands[c.name].response)
    => Intact(c.read, Commands[c.name].response, c.given)

CallOK(c, host, ncp, inStep) ==
  /\ IsCall(c) /\ FrameOK(c.frame) /\ c.toLong \in BOOLEAN
  /\ c.stage \in {"idle", "sent", "read", "answered", "returned"}
  /\ c.name \in {"none"} \cup DOMAIN Commands
  /\ c.stage # "idle" => c.name \in DOMAIN Commands
  /\ c.stage = "sent" => SentOK(c, host)
  /\ c.stage = "read" => ReadOK(c, inStep)
  /\ c.stage = "answered" => AnsweredOK(c, host, ncp, inStep)
  /\ c.stage = "returned" => ReturnedOK(c, inStep)
  /\ inStep /\ c.stage # "answered" => host = ncp

LEMMA OneByteFormat ==
  /\ GoodFormat(<<"u">>) /\ ModeFree(<<"u">>)
  /\ \A a : Same(<<a>>)
  /\ \A a \in {0, 1}, long \in BOOLEAN : FitsBuffer(<<"u">>, <<a>>, long)
  /\ \A long \in BOOLEAN : \A values \in Tried(<<"u">>, long) : Same(values)
<1>1. GoodFormat(<<"u">>)
  BY ShortFormats, Zenon
<1>2. DOMAIN <<"u">> = {1} /\ <<"u">>[1] = "u" /\ 1 \in {1}
  BY SMT
<1>3. "u" \notin {"l", "n"} /\ "u" \notin Overlaid /\ "u" \notin ArrayKinds /\ "u" \in Kinds /\ "u" \notin LargeArrays
  BY ArrayKindsAre, SMT DEF Kinds, LargeArrays, Overlaid
<1>4. ModeFree(<<"u">>)
  BY <1>2, <1>3, SMT DEF ModeFree
<1>5. \A values : Expected(<<"u">>, values) = [i \in {1} |-> values[i]]
  BY <1>2, <1>3, SMT DEF Expected
<1>6. \A a : <<a>> = [i \in {1} |-> <<a>>[i]]
  BY SMT
<1>7. \A a : Same(<<a>>)
  BY <1>5, <1>6, Zenon DEF Same
<1>8. ASSUME NEW a \in {0, 1}, NEW long \in BOOLEAN PROVE FitsBuffer(<<"u">>, <<a>>, long)
  <2>1. a \in Byte /\ <<a>>[1] = a
    BY InRange, SMT
  <2>2. a \in Carried("u", long)
    BY <2>1, CarriedIs, SMT
  <2>3. StoreField("u", a, long) = <<a>> /\ Len(<<a>>) = 1
    <3>1. "u" \in {"u", "s"}
      BY Zenon
    <3> QED
      BY <2>2, <3>1, Bytes, TupleLengths, Zenon
  <2>4. Len(StoreField("u", a, long)) <= Widest("u")
    <3>1. Widest("u") = 32
      BY <1>3, Zenon DEF Widest
    <3>2. Len(StoreField("u", a, long)) = 1
      BY <2>3, Zenon
    <3>3. 1 <= 32
      OBVIOUS
    <3> QED
      BY <3>1, <3>2, <3>3, Zenon
  <2>5. \A i \in DOMAIN <<"u">> : i = 1
    BY <1>2, Zenon
  <2>6. \A i \in DOMAIN <<"u">> : <<"u">>[i] = "u" /\ <<a>>[i] = a
    BY <1>2, <2>1, <2>5, Zenon
  <2> QED
    BY <2>2, <2>4, <2>6, Zenon DEF FitsBuffer, Sendable
<1>9. ASSUME NEW long \in BOOLEAN, NEW values \in Tried(<<"u">>, long) PROVE Same(values)
  <2>1. PICK largest \in BOOLEAN : values = Values(<<"u">>, largest, long)
    BY Zenon DEF Tried
  <2>2. values = [i \in {1} |-> Value("u", i, largest, long)]
    <3>1. \A i \in {1} : (IF <<"u">>[i] \in {"l", "n"} THEN Length(<<"u">>[i + 1], largest, long)
                         ELSE Value(<<"u">>[i], i, largest, long)) = Value("u", i, largest, long)
      BY <1>2, <1>3, Zenon
    <3> QED
      BY <1>2, <2>1, <3>1, Zenon DEF Values
  <2> DEFINE v == Value("u", 1, largest, long)
  <2>3. values = [i \in {1} |-> v]
    BY <2>2, SMT
  <2> HIDE DEF v
  <2>4. values = <<v>>
    BY <2>3, SMT
  <2> QED
    BY <1>7, <2>4, Zenon
<1> QED
  BY <1>1, <1>4, <1>7, <1>8, <1>9, Zenon

LEMMA SwitchFormats ==
  ASSUME NEW name \in DOMAIN Commands, name = SetLongMessagesUse
  PROVE  Commands[name].request = <<"u">> /\ Commands[name].response = <<"u">>
<1>1. OneByte(Commands[name])
  BY SwitchCommand, Zenon
<1> QED
  BY <1>1, Zenon DEF OneByte

(* The fields of a call, new or changed.                                   *)
CallOf(stage, name, given, frame, read, toLong) ==
  [stage |-> stage, name |-> name, given |-> given, frame |-> frame,
   read |-> read, toLong |-> toLong]

Made(c, stage, name, given, frame, read, toLong) ==
  /\ c.stage = stage /\ c.name = name /\ c.given = given
  /\ c.frame = frame /\ c.read = read /\ c.toLong = toLong
  /\ IsCall(c)

LEMMA NewCall ==
  ASSUME NEW stage, NEW name, NEW given, NEW frame, NEW read, NEW toLong
  PROVE  Made(CallOf(stage, name, given, frame, read, toLong),
              stage, name, given, frame, read, toLong)
BY SMT DEF IsCall, CallOf, Made

ReadBy(c, name, read) == [c EXCEPT !.stage = "read", !.name = name, !.read = read]

Answered(c, given, read, frame) ==
  [c EXCEPT !.stage = "answered", !.given = given, !.read = read, !.frame = frame]

Returned(c, read) == [c EXCEPT !.stage = "returned", !.read = read]

(* What the steps make of a call with these fields.                        *)
Changes(c, n, g, f, l) ==
  /\ \A name, read : ReadBy(c, name, read) = CallOf("read", name, g, f, read, l)
  /\ \A given, read, frame :
       Answered(c, given, read, frame) = CallOf("answered", n, given, frame, read, l)
  /\ \A read : Returned(c, read) = CallOf("returned", n, g, f, read, l)

LEMMA ChangedCall ==
  ASSUME NEW s, NEW n, NEW g, NEW f, NEW r, NEW l, NEW c, c = CallOf(s, n, g, f, r, l)
  PROVE  Changes(c, n, g, f, l)
<1>1. ASSUME NEW name, NEW read
      PROVE  ReadBy(c, name, read) = CallOf("read", name, g, f, read, l)
  <2>1. [c EXCEPT !.stage = "read"] = CallOf("read", n, g, f, r, l)
    BY SMTT(60) DEF CallOf
  <2>2. [CallOf("read", n, g, f, r, l) EXCEPT !.name = name] = CallOf("read", name, g, f, r, l)
    BY SMTT(60) DEF CallOf
  <2>3. [CallOf("read", name, g, f, r, l) EXCEPT !.read = read]
          = CallOf("read", name, g, f, read, l)
    BY SMTT(60) DEF CallOf
  <2> QED
    BY <2>1, <2>2, <2>3, Zenon DEF ReadBy
<1>2. ASSUME NEW given, NEW read, NEW frame
      PROVE  Answered(c, given, read, frame) = CallOf("answered", n, given, frame, read, l)
  <2>1. [c EXCEPT !.stage = "answered"] = CallOf("answered", n, g, f, r, l)
    BY SMTT(60) DEF CallOf
  <2>2. [CallOf("answered", n, g, f, r, l) EXCEPT !.given = given]
          = CallOf("answered", n, given, f, r, l)
    BY SMTT(60) DEF CallOf
  <2>3. [CallOf("answered", n, given, f, r, l) EXCEPT !.read = read]
          = CallOf("answered", n, given, f, read, l)
    BY SMTT(60) DEF CallOf
  <2>4. [CallOf("answered", n, given, f, read, l) EXCEPT !.frame = frame]
          = CallOf("answered", n, given, frame, read, l)
    BY SMTT(60) DEF CallOf
  <2> QED
    BY <2>1, <2>2, <2>3, <2>4, Zenon DEF Answered
<1>3. ASSUME NEW read
      PROVE  Returned(c, read) = CallOf("returned", n, g, f, read, l)
  <2>1. [c EXCEPT !.stage = "returned"] = CallOf("returned", n, g, f, r, l)
    BY SMTT(60) DEF CallOf
  <2>2. [CallOf("returned", n, g, f, r, l) EXCEPT !.read = read]
          = CallOf("returned", n, g, f, read, l)
    BY SMTT(60) DEF CallOf
  <2> QED
    BY <2>1, <2>2, ZenonT(60) DEF Returned
<1> QED
  BY <1>1, <1>2, <1>3, Zenon DEF Changes

LEMMA CallChanged ==
  ASSUME NEW c, IsCall(c)
  PROVE  Changes(c, c.name, c.given, c.frame, c.toLong)
<1>1. c = CallOf(c.stage, c.name, c.given, c.frame, c.read, c.toLong)
  BY Zenon DEF IsCall, CallOf
<1> DEFINE s == c.stage
<1> DEFINE n == c.name
<1> DEFINE g == c.given
<1> DEFINE f == c.frame
<1> DEFINE r == c.read
<1> DEFINE l == c.toLong
<1>2. c = CallOf(s, n, g, f, r, l)
  BY <1>1, Zenon
<1> HIDE DEF s, n, g, f, r, l
<1>3. Changes(c, n, g, f, l)
  BY <1>2, ChangedCall, Zenon
<1> QED
  BY <1>3, Zenon DEF n, g, f, l

(* At each stage one part of the invariant counts.                         *)
InExchange(c, host, ncp, inStep) ==
  /\ c.toLong \in BOOLEAN /\ c.name \in DOMAIN Commands
  /\ \/ c.stage = "sent" /\ SentOK(c, host) /\ (inStep => host = ncp)
     \/ c.stage = "read" /\ ReadOK(c, inStep) /\ (inStep => host = ncp)
     \/ c.stage = "answered" /\ AnsweredOK(c, host, ncp, inStep)
     \/ c.stage = "returned" /\ ReturnedOK(c, inStep) /\ (inStep => host = ncp)

LEMMA AtStage ==
  ASSUME NEW c, NEW host, NEW ncp, NEW inStep, IsCall(c), FrameOK(c.frame),
         InExchange(c, host, ncp, inStep)
  PROVE  CallOK(c, host, ncp, inStep)
BY SMT DEF CallOK, InExchange

LEMMA NoCallOK ==
  ASSUME NEW host, NEW ncp, NEW inStep, inStep => host = ncp
  PROVE  CallOK(NoCall, host, ncp, inStep)
<1>1. Made(NoCall, "idle", "none", <<>>, Nothing, Unread, FALSE)
  BY NewCall, Zenon DEF NoCall, CallOf
<1>2. FrameOK(Nothing)
  <2>1. Nothing.bytes = <<>>
    BY SMT DEF Nothing
  <2>2. InBuffer(<<>>) /\ \A i \in DOMAIN <<>> : <<>>[i] \in Byte
    BY SMT DEF InBuffer
  <2> QED
    BY <2>1, <2>2, Zenon DEF FrameOK
<1> DEFINE c == NoCall
<1>3. /\ c.stage = "idle" /\ c.name = "none" /\ FrameOK(c.frame) /\ c.toLong \in BOOLEAN
      /\ IsCall(c)
  BY <1>1, <1>2, Zenon DEF Made
<1> HIDE DEF c
<1>4. CallOK(c, host, ncp, inStep)
  BY <1>3, SMT DEF CallOK
<1> QED
  BY <1>4, Zenon DEF c

(* CallCommand: what a command may be given by a host in a mode.           *)
ArgumentsIn(name, host) ==
  LET format == Commands[name].request
  IN  IF name = SetLongMessagesUse THEN {<<0>>, <<1>>}
      ELSE {InUnion(format, values) : values \in Tried(format, host)}

LEMMA CallFormatted ==
  ASSUME NEW host \in BOOLEAN, NEW ncp, NEW inStep, inStep => host = ncp,
         NEW name \in DOMAIN Commands, NEW values \in ArgumentsIn(name, host)
  PROVE  CallOK([ stage |-> "sent", name |-> name, given |-> values,
                  frame |-> Frame(Commands[name].id, Commands[name].request, values, host),
                  read  |-> Unread,
                  toLong |-> name = SetLongMessagesUse /\ values = <<1>> ], host, ncp, inStep)
<1> DEFINE format == Commands[name].request
<1> DEFINE id == Commands[name].id
<1> DEFINE frame == Frame(id, format, values, host)
<1> DEFINE toLong == name = SetLongMessagesUse /\ values = <<1>>
<1> DEFINE c == CallOf("sent", name, values, frame, Unread, toLong)
<1>1. GoodFormat(format) /\ id \in Int16
  BY CommandsGood, Zenon
<1>2. FitsBuffer(format, values, host) /\ (name = SetLongMessagesUse => Same(values))
  <2>1. CASE name = SetLongMessagesUse
    <3>1. format = <<"u">>
      BY <2>1, SwitchFormats, Zenon
    <3>2. PICK a \in {0, 1} : values = <<a>>
      BY <2>1, Zenon DEF ArgumentsIn
    <3> QED
      BY <3>1, <3>2, OneByteFormat, Zenon
  <2>2. CASE name # SetLongMessagesUse
    <3>1. PICK tried \in Tried(format, host) : values = InUnion(format, tried)
      BY <2>2, Zenon DEF ArgumentsIn
    <3> HIDE DEF format
    <3> QED
      BY <1>1, <2>2, <3>1, InUnionFits, Zenon
  <2> QED
    BY <2>1, <2>2, Zenon
<1>3. Wire(frame, id, format, values) /\ frame.long = host
  BY <1>2, Sent, Zenon
<1>4. FrameOK(frame)
  <2> HIDE DEF frame, format, id
  <2> QED
    BY <1>1, <1>3, WireFits, Zenon
<1>5. toLong \in BOOLEAN /\ (name = SetLongMessagesUse => (toLong <=> values = <<1>>))
  BY Zenon
<1> HIDE DEF frame, toLong
<1>6. Made(c, "sent", name, values, frame, Unread, toLong)
  BY NewCall, Zenon
<1> HIDE DEF c
<1>7. SentOK(c, host)
  BY <1>2, <1>3, <1>5, <1>6, Zenon DEF SentOK, Made
<1>8. InExchange(c, host, ncp, inStep)
  BY <1>5, <1>6, <1>7, Zenon DEF InExchange, Made
<1>9. CallOK(c, host, ncp, inStep)
  BY <1>4, <1>6, <1>8, AtStage, Zenon DEF Made
<1> QED
  BY <1>9, Zenon DEF c, CallOf, frame, toLong

(* NcpReads: the identifier is that of the command, and of no other.       *)
LEMMA CommandFound ==
  ASSUME NEW name \in DOMAIN Commands, NEW format, GoodFormat(format), NEW given, NEW frame,
         Wire(frame, Commands[name].id, format, given),
         NEW other \in Dispatch(Commands, Identifier(frame))
  PROVE  other = name
<1>1. Commands[name].id \in Int16
  BY CommandsGood, Zenon
<1>2. Identifier(frame) = Commands[name].id
  BY <1>1, WireFits, Zenon
<1>3. other \in DOMAIN Commands /\ Commands[other].id = Commands[name].id
  BY <1>2, Zenon DEF Dispatch
<1> QED
  BY <1>3, CommandsGood, Zenon

LEMMA CommandRead ==
  ASSUME NEW host \in BOOLEAN, NEW ncp \in BOOLEAN, NEW inStep, NEW c,
         CallOK(c, host, ncp, inStep), c.stage = "sent",
         NEW name \in Dispatch(Commands, Identifier(c.frame))
  PROVE  CallOK(ReadBy(c, name, Read(c.frame, Commands[name].request, ncp)), host, ncp, inStep)
<1>1. /\ IsCall(c) /\ FrameOK(c.frame) /\ c.toLong \in BOOLEAN /\ c.name \in DOMAIN Commands
      /\ SentOK(c, host) /\ (inStep => host = ncp)
  BY SMT DEF CallOK
<1> DEFINE format == Commands[c.name].request
<1> DEFINE id == Commands[c.name].id
<1>2. GoodFormat(format) /\ id \in Int16
  BY <1>1, CommandsGood, Zenon
<1>3. Wire(c.frame, id, format, c.given) /\ c.frame.long = host
  BY <1>1, Zenon DEF SentOK
<1>4. name = c.name
  <2> HIDE DEF format
  <2> QED
    BY <1>1, <1>2, <1>3, CommandFound, Zenon
<1> DEFINE read == Read(c.frame, format, ncp)
<1>5. c.frame.long = ncp \/ ModeFree(format) => Intact(read, format, c.given)
  <2> HIDE DEF format, id
  <2> QED
    BY <1>2, <1>3, WireRead, Zenon
<1>6. inStep \/ ModeFree(format) => Intact(read, format, c.given)
  <2> HIDE DEF read, format
  <2> QED
    BY <1>1, <1>3, <1>5, Zenon
<1>7. c.name = SetLongMessagesUse => (c.toLong <=> read.values = <<1>>)
  <2> SUFFICES ASSUME c.name = SetLongMessagesUse PROVE c.toLong <=> read.values = <<1>>
    OBVIOUS
  <2>1. format = <<"u">>
    BY <1>1, SwitchFormats, Zenon
  <2>2. ModeFree(format)
    BY <2>1, OneByteFormat, Zenon
  <2>3. Same(c.given) /\ (c.toLong <=> c.given = <<1>>)
    BY <1>1, Zenon DEF SentOK
  <2>4. read.values = Expected(format, c.given)
    <3> HIDE DEF read, format
    <3> QED
      BY <1>5, <2>2, Zenon DEF Intact
  <2>5. read.values = c.given
    <3> HIDE DEF read, format
    <3> QED
      BY <2>1, <2>3, <2>4, Zenon DEF Same
  <2> HIDE DEF read
  <2> QED
    BY <2>3, <2>5, Zenon
<1> HIDE DEF read
<1> DEFINE d == CallOf("read", c.name, c.given, c.frame, read, c.toLong)
<1>8. Made(d, "read", c.name, c.given, c.frame, read, c.toLong)
  BY NewCall, Zenon
<1>9. ReadBy(c, c.name, read) = d
  BY <1>1, CallChanged, Zenon DEF Changes
<1> HIDE DEF d
<1>10. ReadOK(d, inStep)
  BY <1>6, <1>7, <1>8, Zenon DEF ReadOK, Made
<1>11. InExchange(d, host, ncp, inStep)
  BY <1>1, <1>8, <1>10, Zenon DEF InExchange, Made
<1>12. CallOK(d, host, ncp, inStep)
  BY <1>1, <1>8, <1>11, AtStage, Zenon DEF Made
<1> QED
  BY <1>4, <1>9, <1>12, ZenonT(60) DEF read

LEMMA SameTruth ==
  ASSUME NEW a \in BOOLEAN, NEW b \in BOOLEAN, a <=> b
  PROVE  a = b
BY SMT

(* NcpAnswers.                                                             *)
LEMMA ResponseFormatted ==
  ASSUME NEW host \in BOOLEAN, NEW ncp \in BOOLEAN, NEW inStep, NEW c,
         CallOK(c, host, ncp, inStep), c.stage = "read",
         NEW values \in Tried(Commands[c.name].response, ncp)
  PROVE  CallOK(Answered(c, values, Unread, Frame(Commands[c.name].id,
                                                  Commands[c.name].response, values, ncp)),
                host,
                IF c.name = SetLongMessagesUse /\ values = <<0>> THEN c.read.values = <<1>> ELSE ncp,
                inStep)
<1>1. /\ IsCall(c) /\ c.toLong \in BOOLEAN /\ c.name \in DOMAIN Commands
      /\ ReadOK(c, inStep) /\ (inStep => host = ncp)
  BY SMT DEF CallOK
<1> DEFINE name == c.name
<1> DEFINE format == Commands[name].response
<1> DEFINE id == Commands[name].id
<1> DEFINE frame == Frame(id, format, values, ncp)
<1> DEFINE next == IF name = SetLongMessagesUse /\ values = <<0>>
                   THEN c.read.values = <<1>> ELSE ncp
<1>2. GoodFormat(format) /\ id \in Int16
  BY <1>1, CommandsGood, Zenon
<1>3. Wire(frame, id, format, values) /\ frame.long = ncp
  <2>1. FitsBuffer(format, values, ncp)
    BY <1>2, TriedFits, Zenon
  <2> QED
    BY <2>1, Sent, ZenonT(60)
<1>4. FrameOK(frame)
  <2> HIDE DEF frame, format, id
  <2> QED
    BY <1>2, <1>3, WireFits, Zenon
<1>5. name = SetLongMessagesUse => Same(values)
  <2> SUFFICES ASSUME name = SetLongMessagesUse PROVE Same(values)
    OBVIOUS
  <2>1. format = <<"u">>
    BY <1>1, SwitchFormats, Zenon
  <2> QED
    BY <2>1, OneByteFormat, Zenon
<1>6. IF name = SetLongMessagesUse /\ values = <<0>>
      THEN next = c.toLong ELSE inStep => host = next
  <2>1. CASE name = SetLongMessagesUse /\ values = <<0>>
    <3>1. next = (c.read.values = <<1>>)
      BY <2>1, Zenon
    <3>2. c.toLong <=> (c.read.values = <<1>>)
      BY <1>1, <2>1, Zenon DEF ReadOK
    <3> DEFINE accepted == c.read.values = <<1>>
    <3>3. accepted \in BOOLEAN
      BY Zenon
    <3> HIDE DEF accepted
    <3>4. accepted = c.toLong
      BY <1>1, <3>2, <3>3, SameTruth, Zenon DEF accepted
    <3> QED
      BY <2>1, <3>1, <3>4, Zenon DEF accepted
  <2>2. CASE ~(name = SetLongMessagesUse /\ values = <<0>>)
    BY <1>1, <2>2, Zenon
  <2> QED
    BY <2>1, <2>2, Zenon
<1> HIDE DEF frame, next
<1> DEFINE d == CallOf("answered", name, values, frame, Unread, c.toLong)
<1>7. Made(d, "answered", name, values, frame, Unread, c.toLong)
  BY NewCall, Zenon
<1>8. Answered(c, values, Unread, frame) = d
  BY <1>1, CallChanged, Zenon DEF Changes
<1>9. inStep => frame.long = host
  BY <1>1, <1>3, Zenon
<1> HIDE DEF d
<1>10. AnsweredOK(d, host, next, inStep)
  <2> HIDE DEF name
  <2> QED
    BY <1>3, <1>5, <1>6, <1>7, <1>9, Zenon DEF AnsweredOK, Made
<1>11. InExchange(d, host, next, inStep)
  BY <1>1, <1>7, <1>10, Zenon DEF InExchange, Made
<1>12. CallOK(d, host, next, inStep)
  BY <1>4, <1>7, <1>11, AtStage, Zenon DEF Made
<1> QED
  BY <1>8, <1>12, ZenonT(60) DEF frame, next

(* Return: the host switches when the response says EMBER_SUCCESS.         *)
Accepted(name, read) == name = SetLongMessagesUse /\ read.values = <<0>>

LEMMA ResponseRead ==
  ASSUME NEW host \in BOOLEAN, NEW ncp \in BOOLEAN, NEW inStep \in BOOLEAN, NEW c,
         CallOK(c, host, ncp, inStep), c.stage = "answered",
         NEW read, read = Read(c.frame, Commands[c.name].response, host),
         NEW newHost, NEW newStep,
         IF Accepted(c.name, read) THEN newHost = c.toLong /\ newStep = TRUE
                                   ELSE newHost = host /\ newStep = inStep
  PROVE  CallOK(Returned(c, read), newHost, ncp, newStep)
<1>1. /\ IsCall(c) /\ FrameOK(c.frame) /\ c.toLong \in BOOLEAN /\ c.name \in DOMAIN Commands
      /\ AnsweredOK(c, host, ncp, inStep)
  BY SMT DEF CallOK
<1> DEFINE name == c.name
<1> DEFINE format == Commands[name].response
<1> DEFINE id == Commands[name].id
<1>2. GoodFormat(format) /\ id \in Int16
  BY <1>1, CommandsGood, Zenon
<1>3. Wire(c.frame, id, format, c.given)
  BY <1>1, Zenon DEF AnsweredOK
<1>4. c.frame.long = host \/ ModeFree(format) => Intact(read, format, c.given)
  <2> HIDE DEF format, id
  <2>1. read = Read(c.frame, format, host)
    BY Zenon DEF format
  <2> HIDE DEF format
  <2> QED
    BY <1>2, <1>3, <2>1, WireRead, Zenon
<1>5. name = SetLongMessagesUse => ModeFree(format) /\ read.values = c.given
  <2> SUFFICES ASSUME name = SetLongMessagesUse PROVE ModeFree(format) /\ read.values = c.given
    OBVIOUS
  <2>1. format = <<"u">>
    BY <1>1, SwitchFormats, Zenon
  <2>2. ModeFree(format) /\ Same(c.given)
    BY <1>1, <2>1, OneByteFormat, Zenon DEF AnsweredOK
  <2> HIDE DEF format
  <2>3. read.values = Expected(format, c.given)
    BY <1>4, <2>2, Zenon DEF Intact
  <2> QED
    BY <2>1, <2>2, <2>3, Zenon DEF Same
<1> DEFINE switched == name = SetLongMessagesUse /\ read.values = <<0>>
<1>s. IF switched THEN newHost = c.toLong /\ newStep = TRUE
                  ELSE newHost = host /\ newStep = inStep
  BY Zenon DEF Accepted
<1>6. newStep \/ ModeFree(format) => Intact(read, format, c.given)
  <2>1. CASE switched
    BY <1>4, <1>5, <1>s, <2>1, Zenon
  <2>2. CASE ~switched
    <3>1. newStep => c.frame.long = host
      BY <1>1, <1>s, <2>2, Zenon DEF AnsweredOK
    <3> HIDE DEF format
    <3> QED
      BY <1>4, <3>1, Zenon
  <2> QED
    BY <2>1, <2>2, Zenon
<1>7. newStep => newHost = ncp
  <2>1. CASE switched
    <3>1. c.given = <<0>> /\ name = SetLongMessagesUse /\ newHost = c.toLong
      BY <1>5, <1>s, <2>1, Zenon
    <3> QED
      BY <1>1, <3>1, Zenon DEF AnsweredOK
  <2>2. CASE ~switched
    <3>1. newHost = host /\ newStep = inStep
      BY <1>s, <2>2, Zenon
    <3>2. ~(name = SetLongMessagesUse /\ c.given = <<0>>)
      BY <1>5, <2>2, Zenon
    <3> QED
      BY <1>1, <3>1, <3>2, Zenon DEF AnsweredOK
  <2> QED
    BY <2>1, <2>2, Zenon
<1> DEFINE d == CallOf("returned", name, c.given, c.frame, read, c.toLong)
<1>8. Made(d, "returned", name, c.given, c.frame, read, c.toLong)
  BY NewCall, Zenon
<1>9. Returned(c, read) = d
  BY <1>1, CallChanged, Zenon DEF Changes
<1> HIDE DEF d
<1>10. ReturnedOK(d, newStep)
  BY <1>6, <1>8, Zenon DEF ReturnedOK, Made
<1>11. InExchange(d, newHost, ncp, newStep)
  BY <1>1, <1>7, <1>8, <1>10, Zenon DEF InExchange, Made
<1>12. CallOK(d, newHost, ncp, newStep)
  BY <1>1, <1>8, <1>11, AtStage, Zenon DEF Made
<1> QED
  BY <1>9, <1>12, ZenonT(60)

-----------------------------------------------------------------------------
(* The indications on their way.                                           *)
Sending(name, values, long) ==
  [ given |-> values,
    frame |-> Frame(Indications[name].id, Indications[name].format, values, long) ]

SendingOf(name, long) ==
  {Sending(name, values, long) : values \in Tried(Indications[name].format, long)}

Queued == UNION {SendingOf(name, long) : name \in DOMAIN Indications, long \in BOOLEAN}

HandlingOK(h) ==
  /\ h.name \in {"none"} \cup DOMAIN Indications
  /\ h.name # "none" /\ ~h.read.garbled
       => Intact(h.read, Indications[h.name].format, h.given)

LEMMA QueuedWire ==
  ASSUME NEW q \in Queued
  PROVE  \E name \in DOMAIN Indications :
           Wire(q.frame, Indications[name].id, Indications[name].format, q.given)
<1>0. PICK name \in DOMAIN Indications, long \in BOOLEAN : q \in SendingOf(name, long)
  BY SMT DEF Queued
<1>1. PICK values \in Tried(Indications[name].format, long) : q = Sending(name, values, long)
  BY <1>0, Zenon DEF SendingOf
<1> DEFINE id == Indications[name].id
<1> DEFINE format == Indications[name].format
<1> DEFINE frame == Frame(id, format, values, long)
<1>2. GoodFormat(format)
  BY IndicationsGood, Zenon
<1>3. FitsBuffer(format, values, long)
  BY <1>2, TriedFits, Zenon
<1>4. Wire(frame, id, format, values)
  BY <1>3, Sent, Zenon
<1>5. q = [given |-> values, frame |-> frame]
  BY <1>1, Zenon DEF Sending
<1> HIDE DEF frame
<1>6. q.given = values /\ q.frame = frame
  BY <1>5, Zenon
<1> QED
  BY <1>4, <1>6, Zenon

LEMMA QueuedFrame ==
  ASSUME NEW q \in Queued
  PROVE  FrameOK(q.frame)
<1>1. PICK name \in DOMAIN Indications :
        Wire(q.frame, Indications[name].id, Indications[name].format, q.given)
  BY QueuedWire, Zenon
<1>2. GoodFormat(Indications[name].format) /\ Indications[name].id \in Int16
  BY IndicationsGood, Zenon
<1> QED
  BY <1>1, <1>2, WireFits, Zenon

HandlingOf(name, given, read) == [name |-> name, given |-> given, read |-> read]

HandlingIs(h, name, given, read) == h.name = name /\ h.given = given /\ h.read = read

LEMMA HandlingFields ==
  ASSUME NEW name, NEW given, NEW read
  PROVE  HandlingIs(HandlingOf(name, given, read), name, given, read)
BY Zenon DEF HandlingOf, HandlingIs

(* HandleIndication: the identifier is that of the indication, and of no   *)
(* other.                                                                  *)
LEMMA IndicationRead ==
  ASSUME NEW host \in BOOLEAN, NEW q \in Queued,
         NEW name \in Dispatch(Indications, Identifier(q.frame)), NEW h,
         h = HandlingOf(name, q.given, Read(q.frame, Indications[name].format, host))
  PROVE  HandlingOK(h) /\ h.name = name
<1>1. PICK sent \in DOMAIN Indications :
        Wire(q.frame, Indications[sent].id, Indications[sent].format, q.given)
  BY QueuedWire, Zenon
<1>2. GoodFormat(Indications[sent].format) /\ Indications[sent].id \in Int16
  BY IndicationsGood, Zenon
<1>3. name = sent
  <2>1. Identifier(q.frame) = Indications[sent].id
    BY <1>1, <1>2, WireFits, Zenon
  <2>2. name \in DOMAIN Indications /\ Indications[name].id = Indications[sent].id
    BY <2>1, Zenon DEF Dispatch
  <2> QED
    BY <2>2, IndicationsGood, Zenon
<1> DEFINE format == Indications[sent].format
<1> DEFINE read == Read(q.frame, format, host)
<1>4. ~read.garbled => Intact(read, format, q.given)
  BY <1>1, <1>2, WireRead, Zenon
<1>5. h.name = name /\ h.given = q.given /\ h.read = read
  <2>1. HandlingIs(h, name, q.given, Read(q.frame, Indications[name].format, host))
    BY HandlingFields, Zenon
  <2> QED
    BY <1>3, <2>1, Zenon DEF HandlingIs
<1> HIDE DEF read
<1>6. HandlingOK(h)
  BY <1>3, <1>4, <1>5, Zenon DEF HandlingOK
<1> QED
  BY <1>5, <1>6, Zenon

LEMMA NoIndicationOK == HandlingOK(NoIndication) /\ NoIndication.name = "none"
<1>1. NoIndication.name = "none"
  BY Zenon DEF NoIndication
<1> QED
  BY <1>1, Zenon DEF HandlingOK

(* The queue.                                                              *)
LEMMA QueueSteps ==
  ASSUME NEW S, NEW s \in Seq(S)
  PROVE  /\ Len(s) \in Nat
         /\ \A e \in S : Append(s, e) \in Seq(S) /\ Len(Append(s, e)) = Len(s) + 1
         /\ s # <<>> => /\ Head(s) \in S /\ Tail(s) \in Seq(S) /\ Len(Tail(s)) = Len(s) - 1
         /\ \A i \in DOMAIN s : s[i] \in S
BY SMT

LEMMA EmptyQueue ==
  ASSUME NEW S
  PROVE  <<>> \in Seq(S) /\ Len(<<>>) = 0
BY SMT

-----------------------------------------------------------------------------
(* The inductive invariant.                                                *)
SessionInv ==
  /\ useLong \in BOOLEAN /\ ncpLong \in BOOLEAN /\ synced \in BOOLEAN
  /\ restarts \in 0..MaxRestarts
  /\ CallOK(call, useLong, ncpLong, synced)
  /\ queue \in Seq(Queued)
  /\ HandlingOK(handling)
  /\ Pending <= MaxPending

LEMMA SessionInit == Init => SessionInv
<1> SUFFICES ASSUME Init PROVE SessionInv
  OBVIOUS
<1>1. useLong \in BOOLEAN /\ ncpLong \in BOOLEAN /\ synced \in BOOLEAN
  BY Zenon DEF Init
<1>2. restarts \in 0..MaxRestarts
  BY SessionConstants, SMT DEF Init
<1>3. CallOK(call, useLong, ncpLong, synced)
  BY NoCallOK, Zenon DEF Init
<1>4. queue \in Seq(Queued) /\ Len(queue) = 0
  BY EmptyQueue, Zenon DEF Init
<1>5. HandlingOK(handling) /\ handling.name = "none"
  BY NoIndicationOK, Zenon DEF Init
<1>6. Pending <= MaxPending
  BY <1>4, <1>5, SessionConstants, SMT DEF Pending
<1> QED
  BY <1>1, <1>2, <1>3, <1>4, <1>5, <1>6, Zenon DEF SessionInv

(* The steps of the call leave the indications alone.                      *)
Apart == queue' = queue /\ handling' = handling /\ restarts' = restarts

LEMMA CallStep ==
  ASSUME SessionInv, Apart, useLong' \in BOOLEAN, ncpLong' \in BOOLEAN, synced' \in BOOLEAN,
         CallOK(call', useLong', ncpLong', synced')
  PROVE  SessionInv'
<1>1. queue' \in Seq(Queued) /\ HandlingOK(handling') /\ restarts' \in 0..MaxRestarts
  BY Zenon DEF SessionInv, Apart
<1>2. Pending' <= MaxPending
  <2>1. Pending' = Pending
    BY Zenon DEF Pending, Apart
  <2> QED
    BY <2>1, Zenon DEF SessionInv
<1> QED
  BY <1>1, <1>2, Zenon DEF SessionInv

LEMMA CallCommandStep == SessionInv /\ CallCommand => SessionInv'
<1> SUFFICES ASSUME SessionInv, CallCommand PROVE SessionInv'
  OBVIOUS
<1>1. Apart /\ useLong' = useLong /\ ncpLong' = ncpLong /\ synced' = synced
  BY Zenon DEF CallCommand, Apart
<1>2. /\ useLong \in BOOLEAN /\ ncpLong \in BOOLEAN /\ synced \in BOOLEAN
      /\ CallOK(call, useLong, ncpLong, synced)
  BY Zenon DEF SessionInv
<1>3. synced => useLong = ncpLong
  <2>1. call.stage = "idle"
    BY Zenon DEF CallCommand
  <2>2. synced /\ call.stage # "answered" => useLong = ncpLong
    BY <1>2, Zenon DEF CallOK
  <2>3. call.stage # "answered"
    BY <2>1
  <2> QED
    BY <2>2, <2>3, Zenon
<1>4. CallOK(call', useLong, ncpLong, synced)
  <2>1. PICK name \in DOMAIN Commands : \E values \in Arguments(name) :
          call' = [ stage |-> "sent", name |-> name, given |-> values,
                    frame |-> Frame(Commands[name].id, Commands[name].request, values, useLong),
                    read  |-> Unread,
                    toLong |-> name = SetLongMessagesUse /\ values = <<1>> ]
    BY Zenon DEF CallCommand
  <2>2. PICK values \in Arguments(name) :
          call' = [ stage |-> "sent", name |-> name, given |-> values,
                    frame |-> Frame(Commands[name].id, Commands[name].request, values, useLong),
                    read  |-> Unread,
                    toLong |-> name = SetLongMessagesUse /\ values = <<1>> ]
    BY <2>1, Zenon
  <2>3. values \in ArgumentsIn(name, useLong)
    BY Zenon DEF Arguments, ArgumentsIn
  <2>4. CallOK([ stage |-> "sent", name |-> name, given |-> values,
                 frame |-> Frame(Commands[name].id, Commands[name].request, values, useLong),
                 read  |-> Unread,
                 toLong |-> name = SetLongMessagesUse /\ values = <<1>> ],
               useLong, ncpLong, synced)
    BY <1>2, <1>3, <2>3, CallFormatted, Zenon
  <2> QED
    BY <2>2, <2>4, Zenon
<1> QED
  BY <1>1, <1>2, <1>4, CallStep, Zenon

LEMMA NcpReadsStep == SessionInv /\ NcpReads => SessionInv'
<1> SUFFICES ASSUME SessionInv, NcpReads PROVE SessionInv'
  OBVIOUS
<1>1. Apart /\ useLong' = useLong /\ ncpLong' = ncpLong /\ synced' = synced
  BY Zenon DEF NcpReads, Apart
<1>2. /\ useLong \in BOOLEAN /\ ncpLong \in BOOLEAN /\ synced \in BOOLEAN
      /\ CallOK(call, useLong, ncpLong, synced)
  BY Zenon DEF SessionInv
<1>3. CallOK(call', useLong, ncpLong, synced)
  <2>1. /\ call.stage = "sent"
        /\ \E name \in Dispatch(Commands, Identifier(call.frame)) :
             call' = ReadBy(call, name, Read(call.frame, Commands[name].request, ncpLong))
    BY Zenon DEF NcpReads, ReadBy
  <2> QED
    BY <1>2, <2>1, CommandRead, Zenon
<1> QED
  BY <1>1, <1>2, <1>3, CallStep, Zenon

LEMMA NcpAnswersStep == SessionInv /\ NcpAnswers => SessionInv'
<1> SUFFICES ASSUME SessionInv, NcpAnswers PROVE SessionInv'
  OBVIOUS
<1>1. Apart /\ useLong' = useLong /\ synced' = synced
  BY Zenon DEF NcpAnswers, Apart
<1>2. /\ useLong \in BOOLEAN /\ ncpLong \in BOOLEAN /\ synced \in BOOLEAN
      /\ CallOK(call, useLong, ncpLong, synced)
  BY Zenon DEF SessionInv
<1>3. PICK values \in Tried(Commands[call.name].response, ncpLong) :
        /\ call' = Answered(call, values, Unread, Frame(Commands[call.name].id,
                                                        Commands[call.name].response,
                                                        values, ncpLong))
        /\ ncpLong' = IF call.name = SetLongMessagesUse /\ values = <<0>>
                      THEN call.read.values = <<1>> ELSE ncpLong
  BY Zenon DEF NcpAnswers, Answered
<1>4. call.stage = "read"
  BY Zenon DEF NcpAnswers
<1>5. ncpLong' \in BOOLEAN
  BY <1>2, <1>3, Zenon
<1>6. CallOK(call', useLong, ncpLong', synced)
  BY <1>2, <1>3, <1>4, ResponseFormatted, Zenon
<1> QED
  BY <1>1, <1>2, <1>5, <1>6, CallStep, Zenon

LEMMA ReturnStep == SessionInv /\ Return => SessionInv'
<1> SUFFICES ASSUME SessionInv, Return PROVE SessionInv'
  OBVIOUS
<1>1. Apart /\ ncpLong' = ncpLong
  BY Zenon DEF Return, Apart
<1>2. /\ useLong \in BOOLEAN /\ ncpLong \in BOOLEAN /\ synced \in BOOLEAN
      /\ CallOK(call, useLong, ncpLong, synced)
  BY Zenon DEF SessionInv
<1> DEFINE read == Read(call.frame, Commands[call.name].response, useLong)
<1>3. call.stage = "answered" /\ call' = Returned(call, read) /\ SetCspFormatLongMessageUse(read)
  BY Zenon DEF Return, Returned
<1>4. IF Accepted(call.name, read) THEN useLong' = call.toLong /\ synced' = TRUE
                                   ELSE useLong' = useLong /\ synced' = synced
  <2> HIDE DEF read
  <2> QED
    BY <1>3, Zenon DEF SetCspFormatLongMessageUse, Switched, Accepted
<1>5. useLong' \in BOOLEAN /\ synced' \in BOOLEAN
  <2>1. call.toLong \in BOOLEAN
    BY <1>2, Zenon DEF CallOK
  <2> QED
    BY <1>2, <1>4, <2>1, Zenon
<1>6. CallOK(call', useLong', ncpLong, synced')
  <2>1. read = Read(call.frame, Commands[call.name].response, useLong)
    BY Zenon
  <2> HIDE DEF read
  <2> QED
    BY <1>2, <1>3, <1>4, <2>1, ResponseRead, ZenonT(60)
<1> QED
  BY <1>1, <1>2, <1>5, <1>6, CallStep, ZenonT(60)

LEMMA ReleaseStep == SessionInv /\ ReleaseCommandMutex => SessionInv'
<1> SUFFICES ASSUME SessionInv, ReleaseCommandMutex PROVE SessionInv'
  OBVIOUS
<1>1. Apart /\ useLong' = useLong /\ ncpLong' = ncpLong /\ synced' = synced
  BY Zenon DEF ReleaseCommandMutex, Apart
<1>2. /\ useLong \in BOOLEAN /\ ncpLong \in BOOLEAN /\ synced \in BOOLEAN
      /\ CallOK(call, useLong, ncpLong, synced)
  BY Zenon DEF SessionInv
<1>3. call.stage # "answered" /\ call' = NoCall
  <2>1. call.stage = "returned" /\ call' = NoCall
    BY Zenon DEF ReleaseCommandMutex
  <2> QED
    BY <2>1
<1>4. synced => useLong = ncpLong
  BY <1>2, <1>3, Zenon DEF CallOK
<1>5. CallOK(call', useLong, ncpLong, synced)
  BY <1>3, <1>4, NoCallOK, Zenon
<1> QED
  BY <1>1, <1>2, <1>5, CallStep, Zenon

LEMMA HostRestartStep == SessionInv /\ HostRestart => SessionInv'
<1> SUFFICES ASSUME SessionInv, HostRestart PROVE SessionInv'
  OBVIOUS
<1>1. /\ useLong' = FALSE /\ call' = NoCall /\ queue' = <<>> /\ handling' = NoIndication
      /\ (ncpLong' = ncpLong /\ synced' = FALSE) \/ (ncpLong' = FALSE /\ synced' = TRUE)
  BY Zenon DEF HostRestart
<1>2. useLong' \in BOOLEAN /\ ncpLong' \in BOOLEAN /\ synced' \in BOOLEAN
  BY <1>1, Zenon DEF SessionInv
<1>3. synced' => useLong' = ncpLong'
  BY <1>1, Zenon
<1>4. CallOK(call', useLong', ncpLong', synced')
  BY <1>1, <1>3, NoCallOK, Zenon
<1>5. queue' \in Seq(Queued) /\ Len(queue') = 0
  BY <1>1, EmptyQueue, Zenon
<1>6. HandlingOK(handling') /\ handling'.name = "none"
  BY <1>1, NoIndicationOK, Zenon
<1>7. Pending' <= MaxPending
  BY <1>5, <1>6, SessionConstants, SMT DEF Pending
<1>8. restarts' \in 0..MaxRestarts
  <2>1. restarts \in 0..MaxRestarts /\ restarts < MaxRestarts /\ restarts' = restarts + 1
    BY Zenon DEF HostRestart, SessionInv
  <2> QED
    BY <2>1, SessionConstants, SMT
<1> QED
  BY <1>2, <1>4, <1>5, <1>6, <1>7, <1>8, Zenon DEF SessionInv

(* The steps of the indications leave the call and the modes alone.        *)
CallApart ==
  /\ useLong' = useLong /\ ncpLong' = ncpLong /\ synced' = synced
  /\ restarts' = restarts /\ call' = call

LEMMA IndicationStep ==
  ASSUME SessionInv, CallApart, queue' \in Seq(Queued), HandlingOK(handling'),
         Pending' <= MaxPending
  PROVE  SessionInv'
<1>1. /\ useLong' \in BOOLEAN /\ ncpLong' \in BOOLEAN /\ synced' \in BOOLEAN
      /\ restarts' \in 0..MaxRestarts
      /\ CallOK(call', useLong', ncpLong', synced')
  BY Zenon DEF SessionInv, CallApart
<1> QED
  BY <1>1, Zenon DEF SessionInv

LEMMA NcpIndicatesStep == SessionInv /\ NcpIndicates => SessionInv'
<1> SUFFICES ASSUME SessionInv, NcpIndicates PROVE SessionInv'
  OBVIOUS
<1>1. CallApart /\ handling' = handling /\ Pending < MaxPending
  BY Zenon DEF NcpIndicates, CallApart
<1>2. ncpLong \in BOOLEAN /\ queue \in Seq(Queued) /\ HandlingOK(handling)
  BY Zenon DEF SessionInv
<1>3. PICK name \in DOMAIN Indications : \E values \in Tried(Indications[name].format, ncpLong) :
        queue' = Append(queue, Sending(name, values, ncpLong))
  BY Zenon DEF NcpIndicates, Sending
<1>4. PICK values \in Tried(Indications[name].format, ncpLong) :
        queue' = Append(queue, Sending(name, values, ncpLong))
  BY <1>3, Zenon
<1>5. Sending(name, values, ncpLong) \in Queued
  <2>1. Sending(name, values, ncpLong) \in SendingOf(name, ncpLong)
    BY Zenon DEF SendingOf
  <2> QED
    BY <1>2, <2>1, SMT DEF Queued
<1>6. queue' \in Seq(Queued) /\ Len(queue') = Len(queue) + 1 /\ Len(queue) \in Nat
  BY <1>2, <1>4, <1>5, QueueSteps, ZenonT(60)
<1>7. Pending' <= MaxPending
  BY <1>1, <1>6, SessionConstants, SMTT(60) DEF Pending
<1>8. HandlingOK(handling')
  BY <1>1, <1>2, Zenon
<1> QED
  BY <1>1, <1>6, <1>7, <1>8, IndicationStep, Zenon

LEMMA HandleIndicationStep == SessionInv /\ HandleIndication => SessionInv'
<1> SUFFICES ASSUME SessionInv, HandleIndication PROVE SessionInv'
  OBVIOUS
<1>1. CallApart /\ handling.name = "none" /\ queue # <<>> /\ queue' = Tail(queue)
  BY Zenon DEF HandleIndication, CallApart
<1>2. useLong \in BOOLEAN /\ queue \in Seq(Queued) /\ Pending <= MaxPending
  BY Zenon DEF SessionInv
<1>3. /\ Head(queue) \in Queued /\ queue' \in Seq(Queued)
      /\ Len(queue') = Len(queue) - 1 /\ Len(queue) \in Nat
  BY <1>1, <1>2, QueueSteps, Zenon
<1>4. HandlingOK(handling')
  <2> DEFINE q == Head(queue)
  <2>1. \E name \in Dispatch(Indications, Identifier(q.frame)) :
          handling' = HandlingOf(name, q.given, Read(q.frame, Indications[name].format, useLong))
    BY Zenon DEF HandleIndication, HandlingOf
  <2>2. q \in Queued
    BY <1>3, Zenon
  <2> HIDE DEF q
  <2> QED
    BY <1>2, <2>1, <2>2, IndicationRead, Zenon
<1>5. Pending' <= MaxPending
  BY <1>1, <1>2, <1>3, SessionConstants, SMT DEF Pending
<1> QED
  BY <1>1, <1>3, <1>4, <1>5, IndicationStep, Zenon

LEMMA CallbackReturnsStep == SessionInv /\ CallbackReturns => SessionInv'
<1> SUFFICES ASSUME SessionInv, CallbackReturns PROVE SessionInv'
  OBVIOUS
<1>1. CallApart /\ handling' = NoIndication /\ queue' = queue
  BY Zenon DEF CallbackReturns, CallApart
<1>2. queue \in Seq(Queued) /\ Pending <= MaxPending
  BY Zenon DEF SessionInv
<1>3. HandlingOK(handling') /\ handling'.name = "none"
  BY <1>1, NoIndicationOK, Zenon
<1>4. Len(queue) \in Nat
  BY <1>2, QueueSteps, Zenon
<1>5. Pending' <= MaxPending
  BY <1>1, <1>2, <1>3, <1>4, SessionConstants, SMT DEF Pending
<1>6. queue' \in Seq(Queued)
  BY <1>1, <1>2, Zenon
<1> QED
  BY <1>1, <1>3, <1>5, <1>6, IndicationStep, Zenon

LEMMA SessionStutter == SessionInv /\ UNCHANGED vars => SessionInv'
<1> SUFFICES ASSUME SessionInv, UNCHANGED vars PROVE SessionInv'
  OBVIOUS
<1>1. CallApart /\ queue' = queue /\ handling' = handling
  BY Zenon DEF vars, CallApart
<1>2. queue' \in Seq(Queued) /\ HandlingOK(handling')
  BY <1>1, Zenon DEF SessionInv
<1>3. Pending' <= MaxPending
  <2>1. Pending' = Pending
    BY <1>1, Zenon DEF Pending
  <2> QED
    BY <2>1, Zenon DEF SessionInv
<1> QED
  BY <1>1, <1>2, <1>3, IndicationStep, Zenon

LEMMA SessionNext == SessionInv /\ [Next]_vars => SessionInv'
BY CallCommandStep, NcpReadsStep, NcpAnswersStep, ReturnStep, ReleaseStep, HostRestartStep,
   NcpIndicatesStep, HandleIndicationStep, CallbackReturnsStep, SessionStutter, Zenon DEF Next

(* The invariant of the session: the call's frame is that of its command   *)
(* and arguments, or of its answer, in the mode of the side that formatted *)
(* it, and between the NCP's accepting a switch and the host's reading     *)
(* that it did the NCP's mode is the one the host is going to; what has    *)
(* been read is what was sent, but for the short address of a MAC address, *)
(* over which its long one is read (EmberMacAddress is a union).           *)
THEOREM SessionInvHolds == Spec => []SessionInv
BY SessionInit, SessionNext, PTL DEF Spec

-----------------------------------------------------------------------------
LEMMA TypeOKFollows == SessionInv => TypeOK
<1> SUFFICES ASSUME SessionInv PROVE TypeOK
  OBVIOUS
<1>1. /\ call.stage \in {"idle", "sent", "read", "answered", "returned"}
      /\ call.name \in {"none"} \cup DOMAIN Commands /\ FrameOK(call.frame)
  BY Zenon DEF SessionInv, CallOK
<1>2. \A i \in DOMAIN queue : FrameOK(queue[i].frame)
  <2>1. queue \in Seq(Queued)
    BY Zenon DEF SessionInv
  <2>2. \A i \in DOMAIN queue : queue[i] \in Queued
    BY <2>1, QueueSteps, Zenon
  <2> QED
    BY <2>2, QueuedFrame, Zenon
<1>3. handling.name \in {"none"} \cup DOMAIN Indications
  BY Zenon DEF SessionInv, HandlingOK
<1>4. \A frame \in {call.frame} \cup {queue[i].frame : i \in DOMAIN queue} : FrameOK(frame)
  BY <1>1, <1>2, Zenon
<1>5. \A frame \in {call.frame} \cup {queue[i].frame : i \in DOMAIN queue} :
        /\ Len(frame.bytes) <= 2096
        /\ \A i \in DOMAIN frame.bytes : frame.bytes[i] \in Byte
  BY <1>4, Zenon DEF FrameOK, InBuffer
<1> QED
  BY <1>1, <1>3, <1>5, Zenon DEF SessionInv, TypeOK

(* Stages, modes and bounds are what they are declared to be, and whatever *)
(* is on its way are bytes that fit the command buffer: for any number of  *)
(* pending indications and of restarts (formatCommandFromVaList of         *)
(* csp-format.c into MAX_STACK_API_COMMAND_SIZE bytes).                    *)
THEOREM TypeOKHolds == Spec => []TypeOK
BY SessionInvHolds, TypeOKFollows, PTL

(* Host and NCP use the same width of lengths, but between the NCP's       *)
(* accepting a switch and the host's reading of it                         *)
(* (emberNcpSetLongMessagesUse).                                           *)
THEOREM ModesAgreeHolds == Spec => []ModesAgree
<1>1. SessionInv => ModesAgree
  BY Zenon DEF SessionInv, CallOK, ModesAgree
<1> QED
  BY <1>1, SessionInvHolds, PTL

(* The NCP reads the command and the arguments it was sent, of every       *)
(* command, also of the one that switches the mode of a side that is not   *)
(* in step (the API functions of csp-command-app.c).                       *)
THEOREM CommandReadBackHolds == Spec => []CommandReadBack
<1>1. SessionInv => CommandReadBack
  BY Zenon DEF SessionInv, CallOK, ReadOK, CommandReadBack
<1> QED
  BY <1>1, SessionInvHolds, PTL

(* The call returns what the NCP answered, and in an EmberMacAddress the   *)
(* long address whatever the short one was: the long one is fetched over   *)
(* it (emberMacGetParentAddress and emberGetChildInfo of                   *)
(* csp-command-app.c).                                                     *)
THEOREM ResponseReadBackHolds == Spec => []ResponseReadBack
<1>1. SessionInv => ResponseReadBack
  BY Zenon DEF SessionInv, CallOK, ReturnedOK, ResponseReadBack
<1> QED
  BY <1>1, SessionInvHolds, PTL

(* The callback is handed what the NCP indicated, unless it was garbled by *)
(* a change of the mode on its way, and in an EmberMacAddress the long     *)
(* address whatever the short one was (incomingMacMessage, macMessageSent  *)
(* and incomingBeacon of csp-command-callbacks.c).                         *)
THEOREM IndicationReadBackHolds == Spec => []IndicationReadBack
<1>1. SessionInv => IndicationReadBack
  BY Zenon DEF SessionInv, HandlingOK, IndicationReadBack
<1> QED
  BY <1>1, SessionInvHolds, PTL
=============================================================================
