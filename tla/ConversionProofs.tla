-------------------------- MODULE ConversionProofs --------------------------
(***************************************************************************)
(* What the conversions of the host do for every value: the bytes of an    *)
(* integer, the messages of the OTA server, the readings of the sensor     *)
(* sink, the texts of the log.                                             *)
(***************************************************************************)
EXTENDS ByteUtilities, BitUtilities, OtaMessages, SensorReading, TraceLog, TLAPS

-----------------------------------------------------------------------------
(* Bytes and bits (ByteUtilities, BitUtilities): storing an integer and    *)
(* fetching it gives it back, for every value its width has, in both byte  *)
(* orders.                                                                 *)

(* A 16-bit value survives the store and the fetch (emberStore...Int16u,   *)
(* emberFetch...Int16u), and what is stored are bytes.                     *)
THEOREM RoundTrip16 ==
  ASSUME NEW value \in Int16
  PROVE  /\ HighByte(value) \in Byte /\ LowByte(value) \in Byte
         /\ FetchHighLowInt16u(StoreHighLowInt16u(value)) = value
         /\ FetchLowHighInt16u(StoreLowHighInt16u(value)) = value
BY SMTT(60) DEF Int16, Byte, HighByte, LowByte, StoreHighLowInt16u, StoreLowHighInt16u,
           FetchHighLowInt16u, FetchLowHighInt16u

(* The uint32_t values; TLC's integers do not reach that far.              *)
Int32 == {value \in Nat : value < 4294967296}

(* Shifting by eight bits and keeping what was dropped loses nothing.      *)
LEMMA Shift ==
  ASSUME NEW value \in Nat
  PROVE  /\ value \div 256 \in Nat
         /\ value % 256 \in Byte
         /\ value = 256 * (value \div 256) + (value % 256)
BY SMT DEF Byte

(* A 32-bit value survives the store and the fetch in either byte order    *)
(* (emStoreInt32u, emFetchInt32u), and what is stored are bytes.           *)
THEOREM RoundTrip32 ==
  ASSUME NEW value \in Int32, NEW lowHigh \in BOOLEAN
  PROVE  /\ StoreInt32u(lowHigh, value) \in Byte \X Byte \X Byte \X Byte
         /\ FetchInt32u(lowHigh, StoreInt32u(lowHigh, value)) = value
<1> DEFINE low == value % 256
<1> DEFINE b == value \div 256
<1> DEFINE low1 == b % 256
<1> DEFINE c == b \div 256
<1> DEFINE low2 == c % 256
<1> DEFINE d == c \div 256
<1>1. value \in Nat
  BY DEF Int32
<1>2. StoreInt32u(lowHigh, value) = IF lowHigh THEN <<low, low1, low2, d % 256>>
                                               ELSE <<d % 256, low2, low1, low>>
  BY DEF StoreInt32u
<1>3. b \in Nat /\ low \in Byte /\ value = 256 * b + low
  BY <1>1, Shift
<1> HIDE DEF b, low
<1>4. c \in Nat /\ low1 \in Byte /\ b = 256 * c + low1
  BY <1>3, Shift
<1> HIDE DEF c, low1
<1>5. d \in Nat /\ low2 \in Byte /\ c = 256 * d + low2
  BY <1>4, Shift
<1> HIDE DEF d, low2
<1>6. d \in Byte
  BY <1>3, <1>4, <1>5, SMT DEF Int32, Byte
<1>7. d % 256 = d
  BY <1>6, SMT DEF Byte
<1>8. StoreInt32u(lowHigh, value) \in Byte \X Byte \X Byte \X Byte
  BY <1>2, <1>3, <1>4, <1>5, <1>6, <1>7
<1>9. 65536 * (256 * d + low2) + (256 * low1 + low) = value
  BY <1>1, <1>3, <1>4, <1>5, SMT DEF Byte
<1>10. FetchInt32u(lowHigh, StoreInt32u(lowHigh, value)) = value
  BY <1>2, <1>7, <1>9 DEF FetchInt32u
<1> QED
  BY <1>8, <1>10

-----------------------------------------------------------------------------
(* emMatchingPrefixBitLength returns the length of the longest common      *)
(* prefix: counting whole bytes first neither jumps over a difference nor  *)
(* stops early, also when a length is no multiple of eight                 *)
(* (byte-utilities.c:145-163).                                             *)
THEOREM PrefixMatched ==
  ASSUME NEW x, NEW y, NEW xLength \in Nat, NEW yLength \in Nat, NEW prefix \in Nat,
         prefix <= xLength, prefix <= yLength,
         \A i \in 0..(prefix - 1) : x[i] = y[i],
         prefix = xLength \/ prefix = yLength \/ x[prefix] # y[prefix]
  PROVE  MatchingPrefixBitLength(x, xLength, y, yLength) = prefix
<1> DEFINE length == Shorter(xLength, yLength)
<1> DEFINE k == prefix \div 8
<1> DEFINE Stops(m) == /\ m = length \div 8 \/ ~SameByte(x, y, m)
                       /\ \A j \in 0..(m - 1) : SameByte(x, y, j)
<1>1. /\ length \in Nat /\ prefix <= length
      /\ prefix = length \/ x[prefix] # y[prefix]
  BY SMT DEF Shorter
<1>2. k \in Nat /\ 8 * k <= prefix /\ prefix < 8 * k + 8
  BY SMT
<1>3. length \div 8 \in Nat /\ 8 * (length \div 8) <= length /\ length < 8 * (length \div 8) + 8
  BY <1>1, SMT
<1> HIDE DEF length, k
<1>4. k \in 0..(length \div 8)
  BY <1>1, <1>2, <1>3, SMT
<1>5. ASSUME NEW j \in 0..(k - 1) PROVE SameByte(x, y, j)
  BY <1>2, SMT DEF SameByte
<1>6. k = length \div 8 \/ ~SameByte(x, y, k)
  <2> SUFFICES ASSUME k # length \div 8 PROVE ~SameByte(x, y, k)
    OBVIOUS
  <2>1. prefix \in (8 * k)..(8 * k + 7) /\ prefix < length
    BY <1>1, <1>2, <1>3, <1>4, SMT
  <2> QED
    BY <1>1, <2>1 DEF SameByte
<1>7. ASSUME NEW m \in 0..(length \div 8), Stops(m) PROVE m = k
  <2>1. ~(k < m)
    <3> SUFFICES ASSUME k < m PROVE FALSE
      OBVIOUS
    <3>1. k \in 0..(m - 1) /\ k # length \div 8
      BY <1>2, <1>3, SMT
    <3> QED
      BY <1>6, <1>7, <3>1
  <2>2. ~(m < k)
    <3> SUFFICES ASSUME m < k PROVE FALSE
      OBVIOUS
    <3>1. m \in 0..(k - 1) /\ m # length \div 8
      BY <1>2, <1>3, <1>4, SMT
    <3> QED
      BY <1>5, <1>7, <3>1
  <2> QED
    BY <1>2, <1>3, <2>1, <2>2, SMT
<1>8. MatchingBytes(x, y, length) = k
  <2>1. Stops(k)
    BY <1>5, <1>6
  <2>2. MatchingBytes(x, y, length) = CHOOSE m \in 0..(length \div 8) : Stops(m)
    BY DEF MatchingBytes
  <2> HIDE DEF Stops
  <2> QED
    BY <1>4, <1>7, <2>1, <2>2
<1> DEFINE end == Shorter(length, 8 * k + 8)
<1> DEFINE Ends(c) == /\ c = end \/ x[c] # y[c]
                      /\ \A i \in (8 * k)..(c - 1) : x[i] = y[i]
<1>9. /\ end \in Nat /\ prefix <= end /\ prefix \in (8 * k)..end
      /\ prefix = end \/ x[prefix] # y[prefix]
  BY <1>1, <1>2, SMT DEF Shorter
<1> HIDE DEF end
<1>10. Ends(prefix)
  <2>1. ASSUME NEW i \in (8 * k)..(prefix - 1) PROVE x[i] = y[i]
    <3>1. i \in 0..(prefix - 1)
      BY <1>2, SMT
    <3> QED
      BY <3>1
  <2> QED
    BY <1>9, <2>1
<1>11. ASSUME NEW c \in (8 * k)..end, Ends(c) PROVE c = prefix
  <2>1. ~(c < prefix)
    <3> SUFFICES ASSUME c < prefix PROVE FALSE
      OBVIOUS
    <3>1. c \in 0..(prefix - 1) /\ c # end
      BY <1>2, <1>9, SMT
    <3> QED
      BY <1>11, <3>1
  <2>2. ~(prefix < c)
    <3> SUFFICES ASSUME prefix < c PROVE FALSE
      OBVIOUS
    <3>1. prefix \in (8 * k)..(c - 1) /\ prefix # end
      BY <1>2, <1>9, SMT
    <3> QED
      BY <1>9, <1>11, <3>1
  <2> QED
    BY <1>2, <1>9, <2>1, <2>2, SMT
<1>12. MatchingPrefixBitLength(x, xLength, y, yLength) = CHOOSE c \in (8 * k)..end : Ends(c)
  BY <1>8 DEF MatchingPrefixBitLength, length, end
<1> HIDE DEF Ends
<1> QED
  BY <1>9, <1>10, <1>11, <1>12

(* emBitCopy copies the first bits and keeps the rest, to the bit, for     *)
(* counts below 2048; from there on it copies none of 2048 bits it is      *)
(* asked for, although its count is 16 bits wide (byte-utilities.c:169).   *)
THEOREM BitsCopied ==
  ASSUME NEW size \in Nat, NEW to \in [0..(8 * size - 1) -> {0, 1}], NEW from,
         NEW count \in Int16
  PROVE  /\ count < 2048 =>
              BitCopy(to, from, count)
                = [i \in 0..(8 * size - 1) |-> IF i < count THEN from[i] ELSE to[i]]
         /\ count = 2048 => BitCopy(to, from, count) = to
<1> DEFINE copied == 8 * ((count \div 8) % 256) + (count % 8)
<1> DEFINE bits == 0..(8 * size - 1)
<1>1. (count < 2048 => copied = count) /\ (count = 2048 => copied = 0)
  BY SMTT(40) DEF Int16
<1>2. BitCopy(to, from, count)
        = [i \in bits |-> IF i < copied THEN from[i] ELSE to[i]]
  BY DEF BitCopy
<1>3. \A i \in bits : ~(i < 0)
  BY SMT
<1> HIDE DEF copied, bits
<1>4. ASSUME count < 2048
      PROVE  BitCopy(to, from, count) = [i \in bits |-> IF i < count THEN from[i] ELSE to[i]]
  BY <1>1, <1>2, <1>4
<1>5. ASSUME count = 2048 PROVE BitCopy(to, from, count) = to
  <2>1. BitCopy(to, from, count) = [i \in bits |-> to[i]]
    BY <1>1, <1>2, <1>3, <1>5
  <2>2. to = [i \in bits |-> to[i]]
    BY DEF bits
  <2> QED
    BY <2>1, <2>2
<1> QED
  BY <1>4, <1>5 DEF bits

(* emStrcmp tells equal strings from different ones, and orders strings of *)
(* 7-bit characters by the first that differs.  A difference beyond 127    *)
(* comes out with the wrong sign: its result is an int8_t                  *)
(* (byte-utilities.c:128-140).                                             *)
THEOREM StringsCompared ==
  ASSUME NEW s1 \in [Nat -> Byte], NEW s2 \in [Nat -> Byte], NEW n \in Nat,
         StopsAt(s1, s2, n)
  PROVE  /\ Strcmp(s1, s2) = 0 <=> s1[n] = s2[n]
         /\ s1[n] < 128 /\ s2[n] < 128 => (Strcmp(s1, s2) < 0 <=> s1[n] < s2[n])
         /\ s1[n] > s2[n] + 127 => Strcmp(s1, s2) < 0
<1>1. ASSUME NEW m \in Nat, StopsAt(s1, s2, m) PROVE m = n
  <2>1. ~(m < n)
    BY <1>1, SMT DEF StopsAt
  <2>2. ~(n < m)
    BY <1>1, SMT DEF StopsAt
  <2> QED
    BY <2>1, <2>2, SMT
<1>2. (CHOOSE m \in Nat : StopsAt(s1, s2, m)) = n
  BY <1>1
<1>3. Strcmp(s1, s2) = Int8(s1[n] - s2[n])
  BY <1>2 DEF Strcmp
<1>4. s1[n] \in Byte /\ s2[n] \in Byte
  OBVIOUS
<1> DEFINE a == s1[n]
<1> DEFINE b == s2[n]
<1> HIDE DEF a, b
<1>5. a \in 0..255 /\ b \in 0..255
  BY <1>4 DEF a, b, Byte
<1>6. /\ Int8(a - b) = 0 <=> a = b
      /\ a < 128 /\ b < 128 => (Int8(a - b) < 0 <=> a < b)
      /\ a > b + 127 => Int8(a - b) < 0
  <2> DEFINE d == a - b
  <2>1. d \in Int /\ -256 < d /\ d < 256
    BY <1>5, SMT
  <2>2. d % 256 = IF d < 0 THEN d + 256 ELSE d
    <3> HIDE DEF d
    <3> QED
      BY <2>1, SMT
  <2>3. Int8(d) = IF d % 256 < 128 THEN d % 256 ELSE (d % 256) - 256
    BY DEF Int8
  <2> QED
    BY <1>5, <2>2, <2>3, SMT
<1> QED
  BY <1>3, <1>6 DEF a, b

-----------------------------------------------------------------------------
(* The messages of the OTA server (OtaMessages).                           *)

LEMMA HalfTheRange ==
  /\ HALF_MAX_INT32U_VALUE \in Nat \ {0} /\ Wrap \in Nat \ {0}
  /\ Wrap = HALF_MAX_INT32U_VALUE + HALF_MAX_INT32U_VALUE
BY SMT DEF Wrap, HALF_MAX_INT32U_VALUE

(* Quotient and remainder, and that they are the only ones.                *)
LEMMA DivMod ==
  ASSUME NEW a \in Nat, NEW b \in Nat \ {0}
  PROVE  /\ a \div b \in Nat /\ a % b \in 0..(b - 1)
         /\ a = b * (a \div b) + (a % b)
BY SMT

LEMMA Remainder ==
  ASSUME NEW a \in Int, NEW b \in Nat \ {0}, NEW q \in Int, NEW r \in 0..(b - 1),
         a = b * q + r
  PROVE  a % b = r
BY SMT

(* The difference of two clock values is that of the times they stand for. *)
LEMMA Elapsed ==
  ASSUME NEW a \in Nat, NEW b \in Nat, NEW x \in Int32u, NEW k \in Int,
         b - a = Wrap * k + x
  PROVE  elapsedTimeInt32u(a % Wrap, b % Wrap) = x
<1>1. Wrap \in Nat \ {0}
  BY HalfTheRange
<1>2. PICK p \in Nat, m \in 0..(Wrap - 1) : m = a % Wrap /\ a = Wrap * p + m
  <2>1. /\ a \div Wrap \in Nat /\ a % Wrap \in 0..(Wrap - 1)
        /\ a = Wrap * (a \div Wrap) + (a % Wrap)
    BY <1>1, DivMod, Zenon
  <2> QED BY <2>1, Zenon
<1>3. PICK q \in Nat, n \in 0..(Wrap - 1) : n = b % Wrap /\ b = Wrap * q + n
  <2>1. /\ b \div Wrap \in Nat /\ b % Wrap \in 0..(Wrap - 1)
        /\ b = Wrap * (b \div Wrap) + (b % Wrap)
    BY <1>1, DivMod, Zenon
  <2> QED BY <2>1, Zenon
<1> DEFINE wk == Wrap * k
<1> DEFINE wp == Wrap * p
<1> DEFINE wq == Wrap * q
<1>4. /\ k + p - q \in Int /\ wk \in Int /\ wp \in Int /\ wq \in Int
      /\ Wrap * (k + p - q) = wk + wp - wq
  BY <1>1, SMT
<1>5. n - m = Wrap * (k + p - q) + x /\ n - m \in Int
  <2>1. a = wp + m /\ b = wq + n /\ b - a = wk + x
    BY <1>2, <1>3
  <2>2. x \in Int /\ m \in Int /\ n \in Int
    BY <1>1, SMT DEF Int32u
  <2> HIDE DEF wk, wp, wq
  <2> QED
    BY <1>4, <2>1, <2>2, SMT
<1>6. (n - m) % Wrap = x
  BY <1>1, <1>4, <1>5, Remainder DEF Int32u
<1> QED
  BY <1>2, <1>3, <1>6 DEF elapsedTimeInt32u

(* Every message of a bootload request, the first and the retries, asks    *)
(* for the moment the application named, or for "now" once that is past,   *)
(* also when the clock wraps on the way: for delays below 2^31 ms (24      *)
(* days) and retries not later than 2^31 ms after the deadline             *)
(* (ota-unicast-bootloader-server.c:587-595).                              *)
THEOREM DelayKeepsDeadline ==
  ASSUME NEW start \in Nat, NEW now \in Nat, NEW delay \in Nat,
         start <= now,
         delay < HALF_MAX_INT32U_VALUE,
         now - (start + delay) <= HALF_MAX_INT32U_VALUE
  PROVE  DelayMs(now, BootloadTimeMs(start, delay))
           = IF now >= start + delay THEN 0 ELSE (start + delay) - now
<1> DEFINE due == start + delay
<1>1. due \in Nat
  OBVIOUS
<1> DEFINE past == elapsedTimeInt32u(due % Wrap, now % Wrap)
<1> DEFINE left == elapsedTimeInt32u(now % Wrap, due % Wrap)
<1>2. DelayMs(now, BootloadTimeMs(start, delay))
        = IF past <= HALF_MAX_INT32U_VALUE THEN 0 ELSE left
  BY DEF DelayMs, BootloadTimeMs, timeGTorEqualInt32u
<1>3. CASE now >= due
  <2>1. now - due \in Int32u /\ now - due = Wrap * 0 + (now - due)
    BY <1>3, HalfTheRange, SMT DEF Int32u
  <2>2. past = now - due
    BY <1>1, <2>1, Elapsed
  <2> QED
    BY <1>2, <1>3, <2>2
<1>4. CASE now < due
  <2>1. /\ Wrap - (due - now) \in Int32u /\ Wrap - (due - now) > HALF_MAX_INT32U_VALUE
        /\ now - due = Wrap * (-1) + (Wrap - (due - now))
        /\ due - now \in Int32u /\ due - now = Wrap * 0 + (due - now)
    BY <1>4, HalfTheRange, SMT DEF Int32u
  <2>2. past = Wrap - (due - now)
    BY <1>1, <2>1, Elapsed, -1 \in Int
  <2>3. left = due - now
    BY <1>1, <2>1, Elapsed
  <2>4. ~(past <= HALF_MAX_INT32U_VALUE)
    BY <2>1, <2>2, HalfTheRange, SMT
  <2>5. DelayMs(now, BootloadTimeMs(start, delay)) = left
    BY <1>2, <2>4
  <2> QED
    BY <1>4, <2>3, <2>5, SMT
<1> QED
  BY <1>3, <1>4, SMT

(* A delay of 2^31 ms or more, which the API takes, is lost: the first     *)
(* message already asks the target to bootload at once                     *)
(* (ota-unicast-bootloader-server.c:48-50).                                *)
THEOREM LongDelayIsLost ==
  ASSUME NEW start \in Nat, NEW delay \in Int32u, delay >= HALF_MAX_INT32U_VALUE
  PROVE  DelayMs(start, BootloadTimeMs(start, delay)) = 0
<1>1. /\ start + delay \in Nat
      /\ Wrap - delay \in Int32u /\ Wrap - delay <= HALF_MAX_INT32U_VALUE
      /\ start - (start + delay) = Wrap * (-1) + (Wrap - delay)
  BY HalfTheRange, SMT DEF Int32u
<1>2. elapsedTimeInt32u((start + delay) % Wrap, start % Wrap) = Wrap - delay
  BY <1>1, Elapsed, -1 \in Int
<1> QED
  BY <1>1, <1>2 DEF DelayMs, BootloadTimeMs, timeGTorEqualInt32u

-----------------------------------------------------------------------------
(* What a response says is told apart whatever its reserved bit: the       *)
(* command by its low half, the status by three bits of its high half      *)
(* (ota-unicast-bootloader-protocol.h:38-65, 123-131).                     *)
THEOREM OtaResponseReadBack ==
  ASSUME NEW commandId \in Responses, NEW status \in Statuses, NEW reserved \in 0..1
  PROVE  /\ ResponseControl(commandId, status, reserved) \in Byte
         /\ CommandId(ResponseControl(commandId, status, reserved)) = commandId
         /\ ResponseStatus(ResponseControl(commandId, status, reserved)) = status
BY SMT DEF Responses, Statuses, Byte, ResponseControl, CommandId, ResponseStatus

(* A request is six bytes from which the layout gives back its command,    *)
(* the flag that announces resumed downloads, its tag and all 32 bits of   *)
(* its number (ota-unicast-bootloader-server.c:421-432, 471-481, 597-607). *)
THEOREM OtaRequestReadBack ==
  ASSUME NEW commandId \in Requests, NEW tag \in Byte, NEW number \in Int32
  PROVE  /\ Header(commandId, tag, number) \in Byte \X Byte \X Byte \X Byte \X Byte \X Byte
         /\ CommandId(Header(commandId, tag, number)[1]) = commandId
         /\ RequestFlags(Header(commandId, tag, number)[1]) = RESUME_SUPPORT
         /\ Header(commandId, tag, number)[2] = tag
         /\ Number(Header(commandId, tag, number)) = number
<1> DEFINE bytes == StoreInt32u(TRUE, number)
<1> DEFINE message == Header(commandId, tag, number)
<1>1. /\ bytes \in Byte \X Byte \X Byte \X Byte
      /\ FetchInt32u(TRUE, bytes) = number
  BY RoundTrip32
<1>2. /\ RequestControl(commandId) \in Byte
      /\ CommandId(RequestControl(commandId)) = commandId
      /\ RequestFlags(RequestControl(commandId)) = RESUME_SUPPORT
  BY SMT DEF Requests, Byte, RequestControl, RESUME_SUPPORT, CommandId, RequestFlags
<1>3. message = <<RequestControl(commandId), tag, bytes[1], bytes[2], bytes[3], bytes[4]>>
  BY DEF Header
<1> HIDE DEF bytes, message
<1>4. bytes = <<bytes[1], bytes[2], bytes[3], bytes[4]>>
  BY <1>1, SMT
<1>5. Number(message) = number
  BY <1>1, <1>3, <1>4 DEF Number
<1>6. message \in Byte \X Byte \X Byte \X Byte \X Byte \X Byte
  BY <1>1, <1>2, <1>3, SMT
<1> QED
  BY <1>2, <1>3, <1>5, <1>6 DEF message

(* For every image the server takes and every segment of it, the 32-bit    *)
(* products and sums do not wrap, the message fits the buffer it is built  *)
(* in with a segment of one byte at least, all segments but the last have  *)
(* the length that flash writes need, and no segment has the number that   *)
(* stands for none (ota-unicast-bootloader-server.c:110-114, 454-461).     *)
THEOREM SegmentMessageFits ==
  ASSUME NEW secured \in BOOLEAN, NEW imageSize \in Nat \ {0}, NEW n \in Nat,
         imageSize <= MAXIMUM_IMAGE_SIZE(secured),
         n * MAX_SEGMENT_PAYLOAD_LENGTH(secured) < imageSize
  PROVE  /\ StartIndex(secured, n) = n * MAX_SEGMENT_PAYLOAD_LENGTH(secured)
         /\ EndIndex(secured, n, imageSize) \in StartIndex(secured, n)..(imageSize - 1)
         /\ MessageLength(secured, n, imageSize) \in
              (HEADER_LENGTH + 1)..MAX_APPLICATION_PAYLOAD_LENGTH(secured)
         /\ EndIndex(secured, n, imageSize) < imageSize - 1 =>
              MessageLength(secured, n, imageSize)
                = HEADER_LENGTH + MAX_SEGMENT_PAYLOAD_LENGTH(secured)
         /\ n < INVALID_SEGMENT_INDEX
<1>1. CASE secured
  <2>1. /\ MAX_APPLICATION_PAYLOAD_LENGTH(secured) = 102
        /\ MAX_SEGMENT_PAYLOAD_LENGTH(secured) = 96
    BY <1>1, SMT DEF MAX_APPLICATION_PAYLOAD_LENGTH, MAX_SEGMENT_PAYLOAD_LENGTH, HEADER_LENGTH
  <2> QED
    BY <2>1, SMT DEF MAXIMUM_IMAGE_SIZE, StartIndex, EndIndex, MessageLength,
                     HEADER_LENGTH, INVALID_SEGMENT_INDEX, Wrap
<1>2. CASE ~secured
  <2>1. /\ MAX_APPLICATION_PAYLOAD_LENGTH(secured) = 111
        /\ MAX_SEGMENT_PAYLOAD_LENGTH(secured) = 104
    BY <1>2, SMT DEF MAX_APPLICATION_PAYLOAD_LENGTH, MAX_SEGMENT_PAYLOAD_LENGTH, HEADER_LENGTH
  <2> QED
    BY <2>1, SMT DEF MAXIMUM_IMAGE_SIZE, StartIndex, EndIndex, MessageLength,
                     HEADER_LENGTH, INVALID_SEGMENT_INDEX, Wrap
<1> QED
  BY <1>1, <1>2

-----------------------------------------------------------------------------
(* The readings of the sensor sink (SensorReading).                        *)

LEMMA CastBack ==
  ASSUME NEW t \in Int, 0 - INT32_MAX <= t, t <= INT32_MAX
  PROVE  /\ Unsigned(t) \in Nat /\ Unsigned(t) < 4294967296
         /\ Signed(Unsigned(t)) = t
BY SMT DEF Unsigned, Signed, INT32_MAX

(* Whole and decimals of a number of thousandths.                          *)
LEMMA Thousandths ==
  ASSUME NEW a \in Nat
  PROVE  /\ a \div 1000 \in Nat
         /\ a - (a \div 1000) * 1000 \in 0..999
         /\ 1000 * (a \div 1000) + (a - (a \div 1000) * 1000) = a
BY SMT

(* The sink prints the temperature and the humidity a sensor sent: sign,   *)
(* whole and decimals make up the number, negative ones between -1 and 0   *)
(* included, for every temperature but the least int32_t, whose abs() is   *)
(* undefined (app_process.c:95-107).                                       *)
THEOREM ReadingShown ==
  ASSUME NEW t \in Int, 0 - INT32_MAX <= t, t <= INT32_MAX,
         NEW h \in Int32,
         NEW payload,
         FourBytes(payload, 0) = StoreInt32u(TRUE, Unsigned(t)),
         FourBytes(payload, 4) = StoreInt32u(TRUE, h)
  PROVE  /\ Temperature(payload).negative = (t < 0)
         /\ Temperature(payload).decimal \in 0..999
         /\ 1000 * Temperature(payload).whole + Temperature(payload).decimal = Abs(t)
         /\ Humidity(payload).decimal \in 0..999
         /\ 1000 * Humidity(payload).whole + Humidity(payload).decimal = h
<1>1. Unsigned(t) \in Int32 /\ Signed(Unsigned(t)) = t
  BY CastBack, SMT DEF Int32
<1>2. Signed(FetchLowHighInt32u(FourBytes(payload, 0))) = t
  <2>1. TRUE \in BOOLEAN
    OBVIOUS
  <2>2. FetchInt32u(TRUE, StoreInt32u(TRUE, Unsigned(t))) = Unsigned(t)
    BY <1>1, <2>1, RoundTrip32, Zenon
  <2> QED
    BY <1>1, <2>2, Zenon DEF FetchLowHighInt32u
<1>3. FetchLowHighInt32u(FourBytes(payload, 4)) = h
  <2>1. TRUE \in BOOLEAN
    OBVIOUS
  <2>2. FetchInt32u(TRUE, StoreInt32u(TRUE, h)) = h
    BY <2>1, RoundTrip32, Zenon
  <2> QED
    BY <2>2, Zenon DEF FetchLowHighInt32u
<1>4. Abs(t) \in Nat /\ h \in Nat
  BY SMT DEF Abs, Int32
<1>5. Abs(Divide(t, 1000)) = Abs(t) \div 1000
  <2>1. CASE t < 0
    <3>1. 0 - t \in Nat /\ Abs(t) = 0 - t
      BY <2>1, SMT DEF Abs
    <3>2. (0 - t) \div 1000 \in Nat
      BY <3>1, Thousandths
    <3>3. Divide(t, 1000) = 0 - ((0 - t) \div 1000)
      BY <2>1 DEF Divide
    <3> QED
      BY <3>1, <3>2, <3>3, SMT DEF Abs
  <2>2. CASE ~(t < 0)
    <3>1. t \in Nat /\ Abs(t) = t /\ Divide(t, 1000) = t \div 1000
      BY <2>2, SMT DEF Abs, Divide
    <3>2. t \div 1000 \in Nat
      BY <3>1, Thousandths
    <3> QED
      BY <3>1, <3>2, SMT DEF Abs
  <2> QED
    BY <2>1, <2>2
<1>6. Temperature(payload) = [negative |-> t < 0,
                              decimal  |-> Abs(t) - (Abs(t) \div 1000) * 1000,
                              whole    |-> Abs(t) \div 1000]
  BY <1>2, <1>5 DEF Temperature
<1>7. Humidity(payload) = [decimal |-> h - (h \div 1000) * 1000, whole |-> h \div 1000]
  BY <1>3 DEF Humidity
<1>8. Temperature(payload).negative = (t < 0)
  BY <1>6
<1>9. /\ Temperature(payload).decimal = Abs(t) - (Abs(t) \div 1000) * 1000
      /\ Temperature(payload).whole = Abs(t) \div 1000
  BY <1>6
<1>10. /\ Humidity(payload).decimal = h - (h \div 1000) * 1000
       /\ Humidity(payload).whole = h \div 1000
  BY <1>7
<1>11. /\ Temperature(payload).decimal \in 0..999
       /\ 1000 * Temperature(payload).whole + Temperature(payload).decimal = Abs(t)
  BY <1>4, <1>9, Thousandths, SMTT(40)
<1>12. /\ Humidity(payload).decimal \in 0..999
       /\ 1000 * Humidity(payload).whole + Humidity(payload).decimal = h
  BY <1>4, <1>10, Thousandths, SMTT(40)
<1> QED
  BY <1>8, <1>11, <1>12

-----------------------------------------------------------------------------
(* The texts of the trace log (TraceLog).                                  *)

(* The loop ends after as many bytes as there is room for.                 *)
LEMMA BytesShown ==
  ASSUME NEW inLen \in Nat \ {0}, NEW outLen \in Nat, NEW delim \in BOOLEAN,
         NEW ellipsis \in Ellipses, outLen > ellipsis + 3
  PROVE  ShownBytes(inLen, outLen, delim, ellipsis)
           = Least(inLen, IF delim THEN (outLen - ellipsis) \div 3
                                   ELSE (outLen - ellipsis - 1) \div 2)
<1> DEFINE room == outLen - ellipsis - 1
<1> DEFINE k == IF delim THEN (room + 1) \div 3 ELSE room \div 2
<1> DEFINE n == Least(inLen, k)
<1> DEFINE Ends(m) == LoopEnds(m, inLen, room, delim)
<1>1. /\ room \in Nat /\ room >= 3 /\ k \in Nat /\ k >= 1
      /\ delim => 3 * k <= room + 1 /\ room + 1 < 3 * k + 3
      /\ ~delim => 2 * k <= room /\ room < 2 * k + 2
  BY SMT DEF Ellipses
<1>2. n \in 1..inLen /\ n <= k /\ (n = inLen \/ n = k)
  BY <1>1, SMT DEF Least
<1>3. Ends(n)
  BY <1>1, <1>2, SMT DEF LoopEnds, BytesText
<1>4. ASSUME NEW m \in 1..(n - 1) PROVE ~Ends(m)
  <2>1. m \in Nat /\ m < inLen /\ m < k
    BY <1>1, <1>2, SMT
  <2> QED
    BY <1>1, <2>1, SMT DEF LoopEnds, BytesText
<1>5. ASSUME NEW m \in 1..inLen, Ends(m), \A j \in 1..(m - 1) : ~Ends(j) PROVE m = n
  <2>1. ~(m < n)
    <3> SUFFICES ASSUME m < n PROVE FALSE
      OBVIOUS
    <3>1. m \in 1..(n - 1)
      BY <1>2, SMT
    <3> QED
      BY <1>4, <1>5, <3>1
  <2>2. ~(n < m)
    <3> SUFFICES ASSUME n < m PROVE FALSE
      OBVIOUS
    <3>1. n \in 1..(m - 1)
      BY <1>2, SMT
    <3> QED
      BY <1>3, <1>5, <3>1
  <2> QED
    BY <1>2, <2>1, <2>2, SMT
<1> HIDE DEF n, k, Ends
<1>6. ShownBytes(inLen, outLen, delim, ellipsis)
        = CHOOSE m \in 1..inLen : Ends(m) /\ \A j \in 1..(m - 1) : ~Ends(j)
  BY DEF ShownBytes, Ends
<1>7. ShownBytes(inLen, outLen, delim, ellipsis) = n
  BY <1>2, <1>3, <1>4, <1>5, <1>6
<1>8. n = Least(inLen, IF delim THEN (outLen - ellipsis) \div 3
                               ELSE (outLen - ellipsis - 1) \div 2)
  <2>1. room + 1 = outLen - ellipsis
    BY SMT DEF Ellipses
  <2> QED
    BY <2>1 DEF n, k
<1> QED
  BY <1>7, <1>8

(* Whatever the frame and the options, the text and its NUL stay within    *)
(* the buffer the caller gave, and no byte beyond the frame is read        *)
(* (log.c:76-111: strcpy after a loop that bounds the bytes by hand).      *)
THEOREM TextFits ==
  ASSUME NEW inLen \in Nat, NEW outLen \in Nat \ {0}, NEW delim \in BOOLEAN,
         NEW tail \in Ellipses
  PROVE  /\ str_bytes(inLen, outLen, delim, tail).bytes \in 0..inLen
         /\ str_bytes(inLen, outLen, delim, tail).length \in 0..(outLen - 1)
<1> DEFINE ellipsis == IF Fit(inLen, outLen, delim) THEN 0 ELSE tail
<1>1. ellipsis \in Ellipses
  BY DEF Ellipses
<1>2. CASE inLen = 0
  <2>1. str_bytes(inLen, outLen, delim, tail) = [bytes |-> 0, length |-> 0]
    BY <1>2 DEF str_bytes
  <2> QED
    BY <1>2, <2>1, SMT
<1>3. CASE inLen # 0 /\ outLen <= ellipsis + 3
  <2>1. str_bytes(inLen, outLen, delim, tail)
          = [bytes |-> 0, length |-> Least(ellipsis, outLen - 1)]
    BY <1>3 DEF str_bytes
  <2>2. Least(ellipsis, outLen - 1) \in 0..(outLen - 1)
    BY <1>1, SMT DEF Least, Ellipses
  <2> QED
    BY <2>1, <2>2, SMT
<1>4. CASE inLen # 0 /\ outLen > ellipsis + 3
  <2> DEFINE n == ShownBytes(inLen, outLen, delim, ellipsis)
  <2>1. str_bytes(inLen, outLen, delim, tail)
          = [bytes |-> n, length |-> BytesText(n, delim) + ellipsis]
    <3>1. ~(outLen <= ellipsis + 3) /\ ~(inLen = 0)
      BY <1>1, <1>4, SMT DEF Ellipses
    <3> QED
      BY <3>1, Zenon DEF str_bytes
  <2>2. n = Least(inLen, IF delim THEN (outLen - ellipsis) \div 3
                                  ELSE (outLen - ellipsis - 1) \div 2)
    BY <1>1, <1>4, BytesShown
  <2> HIDE DEF ellipsis, n
  <2>3. /\ n \in 1..inLen
        /\ delim => 3 * n <= outLen - ellipsis
        /\ ~delim => 2 * n <= outLen - ellipsis - 1
    BY <1>1, <1>4, <2>2, SMT DEF Least, Ellipses
  <2>4. BytesText(n, delim) + ellipsis \in 0..(outLen - 1)
    BY <1>1, <2>3, SMT DEF BytesText, Ellipses
  <2> QED
    BY <2>1, <2>3, <2>4, SMT
<1> QED
  BY <1>1, <1>2, <1>3, <1>4, SMT DEF Ellipses

(* A frame of two bytes or more is shown whole whenever the room is enough *)
(* for it.  A frame of one byte is not: it is shown as an empty text in    *)
(* three characters, which "We can't write at least one byte" takes as too *)
(* few (log.c:86).                                                         *)
THEOREM FrameShownWhole ==
  ASSUME NEW inLen \in Nat \ {0}, NEW outLen \in Nat, NEW delim \in BOOLEAN,
         NEW tail \in Ellipses, Fit(inLen, outLen, delim)
  PROVE  str_bytes(inLen, outLen, delim, tail).bytes = IF outLen > 3 THEN inLen ELSE 0
<1>1. CASE outLen > 3
  <2>1. str_bytes(inLen, outLen, delim, tail).bytes = ShownBytes(inLen, outLen, delim, 0)
    BY <1>1, SMT DEF str_bytes
  <2>2. ShownBytes(inLen, outLen, delim, 0)
          = Least(inLen, IF delim THEN outLen \div 3 ELSE (outLen - 1) \div 2)
    <3>1. 0 \in Ellipses /\ outLen > 0 + 3 /\ outLen - 0 = outLen
      BY <1>1, SMT DEF Ellipses
    <3> QED
      BY <3>1, BytesShown
  <2>3. Least(inLen, IF delim THEN outLen \div 3 ELSE (outLen - 1) \div 2) = inLen
    BY SMT DEF Fit, Least
  <2> QED
    BY <1>1, <2>1, <2>2, <2>3
<1>2. CASE outLen <= 3
  BY <1>2, SMT DEF str_bytes
<1> QED
  BY <1>1, <1>2, SMT

(* However many texts a log line has, they stay inside the buffer of the   *)
(* thread and the BUG_ON of tr_csp_id and tr_csp_full never fires, for     *)
(* frames of one byte or more.  A frame of two bytes or more that is not   *)
(* replaced by "[OVERFLOW]" takes three characters per byte                *)
(* (log.c:158-181).                                                        *)
THEOREM TraceStaysInBuffer ==
  ASSUME NEW idx \in 0..TraceBuffer, NEW inLen \in Nat \ {0}
  PROVE  /\ tr_csp_id(idx).idx \in idx..TraceBuffer
         /\ tr_csp_full(inLen, idx).idx \in idx..TraceBuffer
         /\ inLen >= 2 /\ tr_csp_full(inLen, idx).text # Overflow =>
              tr_csp_full(inLen, idx).idx = idx + 3 * inLen
<1>1. tr_csp_id(idx).idx \in idx..TraceBuffer
  BY SMT DEF tr_csp_id, TraceBuffer, STR_MAX_LEN_CSP_ID
<1> DEFINE text == str_csp_full(inLen, inLen * 3)
<1>2. text.length \in 0..(inLen * 3 - 1)
  <2>1. inLen * 3 \in Nat \ {0} /\ 0 \in Ellipses
    BY SMT DEF Ellipses
  <2> QED
    BY <2>1, TextFits DEF str_csp_full
<1>3. ASSUME inLen >= 2 PROVE text.length = 3 * inLen - 1
  <2>1. /\ inLen * 3 \in Nat /\ inLen * 3 > 0 + 3 /\ 0 \in Ellipses /\ TRUE \in BOOLEAN
        /\ ~(inLen * 3 <= 0 + 3) /\ ~(inLen = 0)
    BY <1>3, SMT DEF Ellipses
  <2>2. ShownBytes(inLen, inLen * 3, TRUE, 0) = Least(inLen, (inLen * 3 - 0) \div 3)
    BY <2>1, BytesShown
  <2>3. Least(inLen, (inLen * 3 - 0) \div 3) = inLen
    BY SMT DEF Least
  <2>4. text.length = BytesText(ShownBytes(inLen, inLen * 3, TRUE, 0), TRUE) + 0
    <3> DEFINE shown == ShownBytes(inLen, inLen * 3, TRUE, 0)
    <3> DEFINE length == BytesText(shown, TRUE) + 0
    <3>1. (IF Fit(inLen, inLen * 3, TRUE) THEN 0 ELSE 0) = 0
      OBVIOUS
    <3>2. text = [bytes |-> shown, length |-> length]
      BY <2>1, <3>1, Zenon DEF str_csp_full, str_bytes
    <3> HIDE DEF text, shown, length
    <3>3. text.length = length
      BY <3>2
    <3> QED
      BY <3>3 DEF shown, length
  <2>5. text.length = BytesText(inLen, TRUE) + 0
    BY <2>2, <2>3, <2>4
  <2> HIDE DEF text
  <2> QED
    BY <2>5, SMT DEF BytesText
<1> HIDE DEF text
<1>4. tr_csp_full(inLen, idx)
        = IF idx + inLen * 3 > TraceBuffer
          THEN [text |-> Overflow, idx |-> idx]
          ELSE [text |-> "bytes", idx |-> idx + text.length + 1]
  BY DEF tr_csp_full, text
<1>5. TraceBuffer \in Nat
  BY DEF TraceBuffer
<1>6. tr_csp_full(inLen, idx).idx \in idx..TraceBuffer
  BY <1>2, <1>4, <1>5, SMT
<1>7. ASSUME inLen >= 2, tr_csp_full(inLen, idx).text # Overflow
      PROVE  tr_csp_full(inLen, idx).idx = idx + 3 * inLen
  BY <1>3, <1>4, <1>5, <1>7, SMT
<1> QED
  BY <1>1, <1>6, <1>7
=============================================================================
