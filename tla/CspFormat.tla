------------------------------- MODULE CspFormat -------------------------------
(***************************************************************************)
(* Serialization of the commands, responses and indications that travel    *)
(* between the host and the NCP (src/csp/csp-format.c).                    *)
(*                                                                         *)
(* A format is a sequence of kinds, the letters of the C format string:    *)
(*   "u", "s"  one byte            "v"  two bytes      "w"  four bytes     *)
(*   "l"       the length of the message that follows: as many bytes as a  *)
(*             length has in the current mode                              *)
(*   "n"       a 'u' whose variable is then overwritten by the length of   *)
(*             the array that follows it                                   *)
(*   "a"       a 'v' whose variable shares its storage (a C union) with    *)
(*             the long address that follows it                            *)
(* and the letter 'b', an array after its own length, named here for the   *)
(* buffer that receives it.  A value is a natural number, or the sequence  *)
(* of the bytes of an array; signed integers stand for their bit patterns. *)
(* An array is read as [length, data]: what the caller's length variable   *)
(* holds and what was copied into its buffer.                              *)
(***************************************************************************)
EXTENDS ByteUtilities, Sequences, SequencesExt

(* The bytes the buffer of each kind of array has: the last argument of a 'b'. *)
Capacity == [ eui64         |-> 8,
              key           |-> 16,
              bytes         |-> 255,
              payload       |-> 2048,
              beaconFields  |-> 84,
              beaconPayload |-> 30 ]

ArrayKinds == DOMAIN Capacity
Kinds      == {"u", "s", "v", "a", "l", "n", "w"} \cup ArrayKinds

(* The kinds whose variable is written again when the field after them is  *)
(* fetched.                                                                *)
Overlaid == {"a", "l", "n"}

(* The length variable of a payload is a uint16_t, of the others a uint8_t. *)
WideLength(kind) == kind = "payload"

(* Does a field look the same whatever the message length mode?            *)
ModeFree(format) == \A i \in DOMAIN format : format[i] \notin {"l"} \cup ArrayKinds

-----------------------------------------------------------------------------
(* Storing.                                                                *)

(* In the short mode the length must fit into a byte, and is cut to one.   *)
StoreLength(long, length) ==
  IF long THEN StoreHighLowInt16u(length % 65536) ELSE <<length % 256>>

(* Mutant: a 16-bit integer is stored low byte first.                      *)
StoreLowHigh(kind, value, long) ==
  CASE kind \in {"u", "s", "n"} -> <<value % 256>>
    [] kind \in {"v", "a"}      -> StoreLowHighInt16u(value % 65536)
    [] kind = "l"               -> StoreLength(long, value)
    [] kind = "w"               -> StoreHighLowInt32u(value)
    [] kind \in ArrayKinds      -> StoreLength(long, Len(value)) \o value

StoreField(kind, value, long) ==
  CASE kind \in {"u", "s", "n"} -> <<value % 256>>
    [] kind \in {"v", "a"}      -> StoreHighLowInt16u(value % 65536)
    [] kind = "l"               -> StoreLength(long, value)
    [] kind = "w"               -> StoreHighLowInt32u(value)
    [] kind \in ArrayKinds      -> StoreLength(long, Len(value)) \o value

(* The identifier, then every argument in the order of the format.         *)
FormatCommand(identifier, format, values, long) ==
  StoreHighLowInt16u(identifier)
    \o FlattenSeq([i \in DOMAIN format |-> StoreField(format[i], values[i], long)])

-----------------------------------------------------------------------------
(* Fetching.                                                               *)

LengthSize(long) == IF long THEN 2 ELSE 1

FetchLength(frame, at, long) ==
  IF long THEN FetchHighLowInt16u(SubSeq(frame, at, at + 1)) ELSE frame[at]

(* The length the caller sees: as wide as its variable, and no more than   *)
(* its buffer holds.                                                       *)
Clamp(kind, length) ==
  LET seen == IF WideLength(kind) THEN length ELSE length % 256
  IN  IF seen > Capacity[kind] THEN Capacity[kind] ELSE seen

Fits(kind, length) == IF length > Capacity[kind] THEN Capacity[kind] ELSE length

(* Mutant: the read pointer moves past what was copied only.               *)
FetchArrayCut(kind, frame, at, long) ==
  LET length == FetchLength(frame, at, long)
      start  == at + LengthSize(long)
  IN  [ value |-> [ length |-> Clamp(kind, length),
                    data   |-> SubSeq(frame, start, start + Fits(kind, length) - 1) ],
        size  |-> LengthSize(long) + Fits(kind, length) ]

(* Mutant: the data is copied from where the length is.                    *)
FetchArrayWithLength(kind, frame, at, long) ==
  LET length == FetchLength(frame, at, long)
  IN  [ value |-> [ length |-> Clamp(kind, length),
                    data   |-> SubSeq(frame, at, at + Fits(kind, length) - 1) ],
        size  |-> LengthSize(long) + length ]

(* The data is cut to the buffer, the read pointer moves past all of it.   *)
FetchArray(kind, frame, at, long) ==
  LET length == FetchLength(frame, at, long)
      start  == at + LengthSize(long)
  IN  [ value |-> [ length |-> Clamp(kind, length),
                    data   |-> SubSeq(frame, start, start + Fits(kind, length) - 1) ],
        size  |-> LengthSize(long) + length ]

(* The value of the field at a place of the frame, and the bytes it takes. *)
FetchField(kind, frame, at, long) ==
  CASE kind \in {"u", "s", "n"} -> [value |-> frame[at], size |-> 1]
    [] kind \in {"v", "a"} ->
         [value |-> FetchHighLowInt16u(SubSeq(frame, at, at + 1)), size |-> 2]
    [] kind = "l" -> [value |-> FetchLength(frame, at, long), size |-> LengthSize(long)]
    [] kind = "w" -> [value |-> FetchHighLowInt32u(SubSeq(frame, at, at + 3)), size |-> 4]
    [] kind \in ArrayKinds -> FetchArray(kind, frame, at, long)

(* Every field in the order of the format, from right after the identifier. *)
FetchParams(frame, format, long) ==
  FoldLeft(LAMBDA done, kind :
             LET field == FetchField(kind, frame, done.at, long)
             IN  [ at     |-> done.at + field.size,
                   values |-> Append(done.values, field.value) ],
           [at |-> 3, values |-> <<>>], format).values

(* The short address in the storage of a long one: on a little-endian host *)
(* its first byte is the low one.                                          *)
ShortAddress(long) == FetchLowHighInt16u(long)

(* What fetching the array that follows leaves in an overlaid variable.    *)
LeftBy(kind, array) == IF kind = "a" THEN ShortAddress(array.data) ELSE array.length

(* What the variables of the caller hold in the end: those of "l" and "n"  *)
(* are the length variable of the array that follows, and that of "a" is   *)
(* the beginning of it.                                                    *)
Handed(format, values) ==
  [ i \in DOMAIN format |->
      IF format[i] \in Overlaid THEN LeftBy(format[i], values[i + 1]) ELSE values[i] ]

(* The same, without the trip: what the receiver is handed.  A short       *)
(* address before a long one is lost, unless the sender took both from one *)
(* union too: then the beginning of the long one is what was sent.         *)
Expected(format, values) ==
  LET array(i) == [ length |-> Fits(format[i], Len(values[i])),
                    data   |-> SubSeq(values[i], 1, Fits(format[i], Len(values[i]))) ]
  IN  [ i \in DOMAIN format |->
          CASE format[i] \in Overlaid   -> LeftBy(format[i], array(i + 1))
            [] format[i] \in ArrayKinds -> array(i)
            [] OTHER                    -> values[i] ]
=============================================================================
