--------------------------- MODULE OtaServerInvariant ---------------------------
(***************************************************************************)
(* The inductive invariant of the OTA server: what relates its globals,    *)
(* its event threads, the messages under way and the history of the        *)
(* process, so that no late message, timer or callback moves it wrongly.   *)
(***************************************************************************)
EXTENDS OtaServerRefinement

-----------------------------------------------------------------------------
(* What the messages, callbacks and completions are made of.               *)

Commands == {"HANDSHAKE", "SEGMENT", "BOOTLOAD"}
ProcessStatuses == {"SUCCESS", "FAILED", "STACK_ERROR", "DATA_UNDERFLOW", "UNREACHABLE",
                    "ABORTED", "REFUSED"}

Outgoing == [command : Commands, segment : Nat, tag : Nat, got : BOOLEAN]
SentReport == [type : {"sent"}, command : Commands, status : {"SUCCESS", "NO_ACK", "FAILED"}]
Response == [type : {"response"}, command : Commands, status : Statuses,
             segment : Nat, tag : Nat]
Completion == [kind : ProcessKinds, status : ProcessStatuses]

TypeInv ==
  /\ TypeOK
  /\ outbox \in Seq(Outgoing) /\ targetBox \in Seq(Outgoing)
  /\ mail \in Seq(SentReport \cup Response)
  /\ completions \in Seq(Completion)
  /\ received \subseteq Nat /\ asked \subseteq Nat

-----------------------------------------------------------------------------
(* The control of the server: the error counters, the completions and      *)
(* where the event threads stand.                                          *)

Bounded(s) == s.stackErrors <= MaxStackErrors /\ s.targetErrors <= MaxUnicastErrors

(* A process that reaches a limit is over: while one runs, both counters   *)
(* are below.  An idle server has no event due.                            *)
ErrorsInv(s) ==
  /\ Bounded(s)
  /\ s.state # "IDLE" => s.stackErrors < MaxStackErrors /\ s.targetErrors < MaxUnicastErrors
  /\ s.state = "IDLE" => ~s.active

Counters == ErrorsInv(server) /\ ~server.asserted /\ CompletedOnce

(* Where an event thread stands that is creating its timer or handling an  *)
(* event ...                                                               *)
Engaged == Labels \ {"none", "check", "poll", "read", "loop", "done"}

(* ... and the states the server is in while it stands there.              *)
StatesAt(label) ==
  CASE label = "create" -> {"HANDSHAKE_INTERVAL", "BOOTLOAD_INTERVAL"}
    [] label \in {"sendHandshake", "handshakeSent"} -> {"HANDSHAKE_INTERVAL"}
    [] label \in {"sendSegment", "segmentSent"} -> {"SEGMENT_INTERVAL"}
    [] label \in {"sendBootload", "bootloadSent", "bootloadSendFailed"} -> {"BOOTLOAD_INTERVAL"}
    [] label = "imageSendFailed" -> {"HANDSHAKE_INTERVAL", "SEGMENT_INTERVAL"}
    [] label = "imageTimeout"    -> {"HANDSHAKE_WAITING", "SEGMENT_WAITING"}
    [] label = "bootloadTimeout" -> {"BOOTLOAD_WAITING"}
    [] label = "storeSegment"    -> {"SEGMENT_PENDING"}
    [] OTHER -> ServerStates

(* At most one event thread is engaged, of all the processes whose threads *)
(* have yet to end, with no further event due and the server where the     *)
(* thread's branch expects it.                                             *)
ThreadsInv ==
  /\ \A n \in EventThreads :
       pc[n] \in Engaged => ~server.active /\ server.state \in StatesAt(pc[n])
  /\ \A m, n \in EventThreads : pc[m] \in Engaged /\ pc[n] \in Engaged => m = n

ControlInv == Counters /\ ThreadsInv

-----------------------------------------------------------------------------
(* The messages under way and the place of the server in its process, for  *)
(* a server s in its k-th process, whose target got the segments `got` and *)
(* asked to start at one of `starting`.                                    *)

(* A message is of this process or of an earlier one; a segment message of *)
(* this one was sent when the server had come to its segment.              *)
SentBy(m, s, k) ==
  /\ m.tag <= k
  /\ m.command = "SEGMENT" =>
       /\ m.segment < TotalSegments
       /\ m.tag = k => /\ s.state \notin HandshakeStates
                       /\ s.state \in ImageDistributionStates => m.segment <= s.nextSegment

GotBy(m, s, k, got) ==
  SentBy(m, s, k) /\ (m.command = "SEGMENT" /\ m.tag = k => m.segment \in got)

(* A conforming target completes with the last segment and goes on after   *)
(* any other.                                                              *)
AnsweredBy(m, s, k, got, starting) ==
  /\ GotBy(m, s, k, got)
  /\ m.command = "SEGMENT" =>
       /\ m.status = "COMPLETED" => m.segment + 1 = TotalSegments
       /\ m.status = "ONGOING" => m.segment + 1 # TotalSegments
  /\ m.command = "HANDSHAKE" /\ m.status = "ONGOING" =>
       m.segment < TotalSegments /\ (m.tag = k => m.segment \in starting)

SentMessages(s, k) == {m \in Outgoing : SentBy(m, s, k)}
GotMessages(s, k, got) == {m \in Outgoing : GotBy(m, s, k, got)}
TrueAnswers(s, k, got, starting) == {m \in Response : AnsweredBy(m, s, k, got, starting)}

MessagesInv ==
  /\ outbox \in Seq(SentMessages(server, starts))
  /\ targetBox \in Seq(GotMessages(server, starts, received))
  /\ mail \in Seq(SentReport \cup TrueAnswers(server, starts, received, asked))

PositionInv ==
  /\ NoSegmentSkipped
  /\ server.state \in ImageDistributionStates => server.nextSegment < TotalSegments

SentStates == {"SEGMENT_PENDING", "SEGMENT_WAITING"}

(* The segment number is stored after the state is changed: in between, a  *)
(* thread is on its way to store it.                                       *)
StoredInv ==
  server.state \in SentStates =>
    \/ server.sentSegment = server.nextSegment
    \/ \E n \in EventThreads : pc[n] = "storeSegment"

PlaceInv == MessagesInv /\ PositionInv /\ StoredInv

(* All of it holds in every state, and each step needs all of it: at most  *)
(* one event thread acts on a state of the server, the counters are below  *)
(* their limits while a process runs, and a message that can still move    *)
(* the server is true of the current process                               *)
(* (ota-unicast-bootloader-server.c:182-415, 505-740).                    *)
IInv == TypeInv /\ ControlInv /\ PlaceInv

-----------------------------------------------------------------------------
(* What keeps a process going, besides IInv.  Its own event thread has yet *)
(* to end, and owns the timer from the start on;                           *)
OwnerInv ==
  /\ \A n \in EventThreads : pc[n] = "create" => n = starts
  /\ server.state # "IDLE" =>
       /\ starts \in EventThreads /\ pc[starts] \notin {"none", "done"}
       /\ pc[starts] # "create" => server.timerFd = starts

(* ... in a state that an event ends, the event is due, or a thread is     *)
(* handling it, or the target gave up too early;                           *)
EventStates == {"HANDSHAKE_INTERVAL", "SEGMENT_INTERVAL", "BOOTLOAD_INTERVAL",
                "HANDSHAKE_WAITING", "SEGMENT_WAITING", "BOOTLOAD_WAITING"}

DueInv ==
  server.state \in EventStates => EventDue \/ Stalled \/ \E n \in EventThreads : pc[n] \in Engaged

(* ... and in a state that a report ends, and already between the call that    *)
(* sends the message and the change of state, a message of that command    *)
(* has yet to be reported, or its report to be looked at.                  *)
Pending(command) ==
  CASE command = "HANDSHAKE" -> "HANDSHAKE_PENDING"
    [] command = "SEGMENT"   -> "SEGMENT_PENDING"
    [] command = "BOOTLOAD"  -> "BOOTLOAD_PENDING"

Called(command) ==
  CASE command = "HANDSHAKE" -> "handshakeSent"
    [] command = "SEGMENT"   -> "segmentSent"
    [] command = "BOOTLOAD"  -> "bootloadSent"

AwaitsReport(command) ==
  server.state = Pending(command) \/ \E n \in EventThreads : pc[n] = Called(command)

ToBeReported(command) ==
  \/ \E i \in DOMAIN outbox : outbox[i].command = command
  \/ \E i \in DOMAIN mail : mail[i].type = "sent" /\ mail[i].command = command

ReportsInv == \A command \in Commands : AwaitsReport(command) => ToBeReported(command)

GoesOnInv == OwnerInv /\ DueInv /\ ReportsInv
=============================================================================
