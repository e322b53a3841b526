------------------------------ MODULE CspSession -------------------------------
(***************************************************************************)
(* The serialization protocol as a session: commands and their responses,  *)
(* indications, and the switch between one-byte and two-byte lengths that  *)
(* both sides must make together.                                          *)
(*                                                                         *)
(* Three parties: the application thread inside an API call, the callback  *)
(* thread that reads indications from the queue, and the NCP.  The         *)
(* application threads exclude one another (NcpTransport), so there is one *)
(* call at a time; the callback thread does not take the command mutex,    *)
(* and reads use_long_message_length while a call may be writing it.       *)
(*                                                                         *)
(* A frame is [bytes, long]: long is the mode of the side that formatted   *)
(* it.  It is not transmitted.                                             *)
(***************************************************************************)
EXTENDS CspCommands

CONSTANTS MaxPending,     \* indications queued or being handed over
          MaxRestarts     \* times the host program is started again

ASSUME SessionConstants == MaxPending \in Nat \ {0} /\ MaxRestarts \in Nat

VARIABLES
  useLong,    \* use_long_message_length of the host
  ncpLong,    \* the mode of the NCP
  call,       \* the call in progress and what each side read of it
  queue,      \* indications received and not yet read by the callback thread
  handling,   \* the indication the callback thread is handing over
  restarts,   \* how often the host has been started again
  synced      \* no restart since both sides last started or switched together

vars == <<useLong, ncpLong, call, queue, handling, restarts, synced>>

(* What comes out of a frame that is read with the wrong width of lengths: *)
(* fields from the wrong places and the leftovers of the buffer, anything. *)
Garbled == [garbled |-> TRUE, values |-> <<>>]

Read(frame, format, long) ==
  IF frame.long = long \/ ModeFree(format)
  THEN [garbled |-> FALSE, values |-> Handed(format, FetchParams(frame.bytes, format, long))]
  ELSE Garbled

Identifier(frame) == FetchHighLowInt16u(SubSeq(frame.bytes, 1, 2))

Frame(identifier, format, values, long) ==
  [bytes |-> FormatCommand(identifier, format, values, long), long |-> long]

Unread  == [garbled |-> FALSE, values |-> <<>>]
Nothing == [bytes |-> <<>>, long |-> FALSE]
NoCall  == [stage |-> "idle", name |-> "none", given |-> <<>>, frame |-> Nothing,
            read |-> Unread, toLong |-> FALSE]
NoIndication == [name |-> "none", given |-> <<>>, read |-> Unread]

-----------------------------------------------------------------------------
(* The values tried: the least and the largest of each kind, different at  *)
(* every place of the format so that two fields cannot be swapped unseen;  *)
(* the NCP's short address is not part of its long one.                    *)
(* An array's data tells its place too.  A "bytes" array has a uint8_t     *)
(* length; a payload over 255 bytes is sent in the long mode only ("must   *)
(* fit into a byte").  A beacon of a foreign network may carry more fields *)
(* than the buffer of the handler.                                         *)
LeastLength   == [eui64 |-> 8, key |-> 16, bytes |-> 0, payload |-> 0,
                  beaconFields |-> 0, beaconPayload |-> 0]
LargestLength == [eui64 |-> 8, key |-> 16, bytes |-> 255, payload |-> 255,
                  beaconFields |-> 85, beaconPayload |-> 30]
LongPayload   == 258

Length(kind, largest, long) ==
  IF ~largest THEN LeastLength[kind]
  ELSE IF kind = "payload" /\ long THEN LongPayload ELSE LargestLength[kind]

Value(kind, place, largest, long) ==
  CASE kind \in {"u", "s"} -> IF largest THEN 255 - place ELSE 0
    [] kind \in {"v", "a"} -> IF largest THEN 65535 - 256 * place ELSE place
    [] kind = "w"          -> IF largest THEN 2147483647 - 65536 * place ELSE 0
    [] OTHER               -> [j \in 1..Length(kind, largest, long) |-> (place + 7 * j) % 256]

Values(format, largest, long) ==
  [ i \in DOMAIN format |->
      IF format[i] \in {"l", "n"} THEN Length(format[i + 1], largest, long)
      ELSE Value(format[i], i, largest, long) ]

Tried(format, long) == {Values(format, largest, long) : largest \in BOOLEAN}

(* The caller's EmberMacAddress is the union too: its short address is     *)
(* part of its long one.                                                   *)
InUnion(format, values) ==
  [ i \in DOMAIN format |->
      IF format[i] = "a" THEN ShortAddress(values[i + 1]) ELSE values[i] ]

(* A bool is 0 or 1.                                                       *)
Arguments(name) ==
  LET format == Commands[name].request
  IN  IF name = SetLongMessagesUse THEN {<<0>>, <<1>>}
      ELSE {InUnion(format, values) : values \in Tried(format, useLong)}

-----------------------------------------------------------------------------
Init ==
  /\ useLong = FALSE
  /\ ncpLong = FALSE
  /\ call = NoCall
  /\ queue = <<>>
  /\ handling = NoIndication
  /\ restarts = 0
  /\ synced = TRUE

(* An API call formats its command and sends it.                           *)
CallCommand ==
  /\ call.stage = "idle"
  /\ \E name \in DOMAIN Commands : \E values \in Arguments(name) :
       call' = [ stage |-> "sent", name |-> name, given |-> values,
                 frame |-> Frame(Commands[name].id, Commands[name].request, values, useLong),
                 read  |-> Unread,
                 toLong |-> name = SetLongMessagesUse /\ values = <<1>> ]
  /\ UNCHANGED <<useLong, ncpLong, queue, handling, restarts, synced>>

(* The NCP finds the command by its identifier and reads its parameters.   *)
NcpReads ==
  /\ call.stage = "sent"
  /\ \E name \in Dispatch(Commands, Identifier(call.frame)) :
       call' = [call EXCEPT !.stage = "read", !.name = name,
                            !.read = Read(call.frame, Commands[name].request, ncpLong)]
  /\ UNCHANGED <<useLong, ncpLong, queue, handling, restarts, synced>>

(* It answers, with the status EMBER_SUCCESS (0) or another; when it       *)
(* accepts the switch its mode is the new one from here on.                *)
NcpAnswers ==
  /\ call.stage = "read"
  /\ \E values \in Tried(Commands[call.name].response, ncpLong) :
       /\ call' = [call EXCEPT !.stage = "answered", !.given = values, !.read = Unread,
                     !.frame = Frame(Commands[call.name].id,
                                     Commands[call.name].response, values, ncpLong)]
       /\ ncpLong' = IF call.name = SetLongMessagesUse /\ values = <<0>>
                     THEN call.read.values = <<1>> ELSE ncpLong
  /\ UNCHANGED <<useLong, queue, handling, restarts, synced>>

(* Mutant: the host switches whatever the status is.                       *)
SwitchAnyway(read) == call.name = SetLongMessagesUse

(* The call fetches the parameters of the response and returns them;       *)
(* emberNcpSetLongMessagesUse switches the host when the status is         *)
(* EMBER_SUCCESS.                                                          *)
Switched(read) == call.name = SetLongMessagesUse /\ read.values = <<0>>

SetCspFormatLongMessageUse(read) ==
  IF Switched(read)
  THEN useLong' = call.toLong /\ synced' = TRUE
  ELSE UNCHANGED <<useLong, synced>>

Return ==
  /\ call.stage = "answered"
  /\ LET read == Read(call.frame, Commands[call.name].response, useLong)
     IN  /\ call' = [call EXCEPT !.stage = "returned", !.read = read]
         /\ SetCspFormatLongMessageUse(read)
  /\ UNCHANGED <<ncpLong, queue, handling, restarts>>

(* The caller has its result.                                              *)
ReleaseCommandMutex ==
  /\ call.stage = "returned"
  /\ call' = NoCall
  /\ UNCHANGED <<useLong, ncpLong, queue, handling, restarts, synced>>

(* The NCP sends an indication; the host's poll thread queues it.          *)
Pending == Len(queue) + (IF handling.name = "none" THEN 0 ELSE 1)

NcpIndicates ==
  /\ Pending < MaxPending
  /\ \E name \in DOMAIN Indications :
     \E values \in Tried(Indications[name].format, ncpLong) :
       queue' = Append(queue, [ given |-> values,
                                frame |-> Frame(Indications[name].id,
                                                Indications[name].format, values, ncpLong) ])
  /\ UNCHANGED <<useLong, ncpLong, call, handling, restarts, synced>>

(* The callback thread takes the next indication from the queue and        *)
(* fetches its parameters, in the mode of the moment.                      *)
HandleIndication ==
  /\ handling.name = "none"
  /\ queue # <<>>
  /\ \E name \in Dispatch(Indications, Identifier(Head(queue).frame)) :
       handling' = [ name |-> name, given |-> Head(queue).given,
                     read |-> Read(Head(queue).frame, Indications[name].format, useLong) ]
  /\ queue' = Tail(queue)
  /\ UNCHANGED <<useLong, ncpLong, call, restarts, synced>>

(* The application's callback returns.                                     *)
CallbackReturns ==
  /\ handling.name # "none"
  /\ handling' = NoIndication
  /\ UNCHANGED <<useLong, ncpLong, call, queue, restarts, synced>>

(* The host program ends and is started again in the short mode: the NCP   *)
(* keeps its mode, unless it was a reset of the NCP that ended the host.   *)
HostRestart ==
  /\ restarts < MaxRestarts
  /\ restarts' = restarts + 1
  /\ useLong' = FALSE
  /\ \/ UNCHANGED ncpLong /\ synced' = FALSE
     \/ ncpLong' = FALSE  /\ synced' = TRUE
  /\ call' = NoCall
  /\ queue' = <<>>
  /\ handling' = NoIndication

Next ==
  \/ CallCommand
  \/ NcpReads
  \/ NcpAnswers
  \/ Return
  \/ ReleaseCommandMutex
  \/ NcpIndicates
  \/ HandleIndication
  \/ CallbackReturns
  \/ HostRestart

Spec == Init /\ [][Next]_vars

-----------------------------------------------------------------------------
(* The mode flags are booleans, the stages those of an exchange, and what  *)
(* is on its way are bytes, no more than a command buffer holds            *)
(* (MAX_STACK_API_COMMAND_SIZE).                                           *)
TypeOK ==
  /\ useLong \in BOOLEAN /\ ncpLong \in BOOLEAN /\ synced \in BOOLEAN
  /\ restarts \in 0..MaxRestarts
  /\ call.stage \in {"idle", "sent", "read", "answered", "returned"}
  /\ call.name \in {"none"} \cup DOMAIN Commands
  /\ Pending <= MaxPending
  /\ handling.name \in {"none"} \cup DOMAIN Indications
  /\ \A frame \in {call.frame} \cup {queue[i].frame : i \in DOMAIN queue} :
       /\ Len(frame.bytes) <= 2096
       /\ \A i \in DOMAIN frame.bytes : frame.bytes[i] \in Byte

(* Host and NCP use the same width of lengths except between the NCP's     *)
(* accepting a switch and the host's reading that it did: a switch that is *)
(* refused leaves both where they were (emberNcpSetLongMessagesUse).       *)
ModesAgree == synced /\ call.stage # "answered" => useLong = ncpLong

Intact(read, format, given) == ~read.garbled /\ read.values = Expected(format, given)

(* The NCP runs the command that was called, with the arguments it was     *)
(* called with.  The command that switches the mode, like every other      *)
(* without a length, is understood even when the two sides disagree.       *)
CommandReadBack ==
  call.stage = "read" =>
    LET format == Commands[call.name].request
    IN  synced \/ ModeFree(format) => Intact(call.read, format, call.given)

(* The call returns what the NCP answered, every array cut to the buffer   *)
(* of the caller and its length with it.  Of an EmberMacAddress, a union,  *)
(* the caller gets the long address, and as the short one the first two    *)
(* bytes of it, whatever short address the NCP sent.                       *)
ResponseReadBack ==
  call.stage = "returned" =>
    LET format == Commands[call.name].response
    IN  synced \/ ModeFree(format) => Intact(call.read, format, call.given)

(* The callback is handed what the NCP indicated, also when an array is    *)
(* longer than the buffer of its handler: the array is cut, and the fields *)
(* after it are still found, and of a MAC address the long one overwrites  *)
(* the short one.  Only a switch or a restart between the two can garble   *)
(* it.                                                                     *)
IndicationReadBack ==
  handling.name # "none" /\ ~handling.read.garbled =>
    Intact(handling.read, Indications[handling.name].format, handling.given)
=============================================================================
