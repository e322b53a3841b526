---------------------------- MODULE NcpTransport ----------------------------
(***************************************************************************)
(* The transport core of the Connect NCP host library (src/host-common and *)
(* the shape every function of csp-command-app.c has):                     *)
(*                                                                         *)
(*   - application threads call the Connect API.  A call takes the command *)
(*     mutex, formats the command into the shared buffer apiCommandData,   *)
(*     writes it to the CPC endpoint, waits for one byte on the response   *)
(*     pipe, copies the shared responseBuffer into apiCommandData, fetches *)
(*     its results from there and releases the mutex;                      *)
(*   - one poll thread (sl_connect_poll_ncp_msg in a loop) reads every     *)
(*     frame that arrives into the SAME responseBuffer and either writes   *)
(*     the response byte or appends the frame to the callback pipe;        *)
(*   - callback threads (sl_connect_ncp_poll_callback_command in a loop)   *)
(*     take everything from the callback pipe in one read and run the      *)
(*     application's handler once per indication; a handler may itself     *)
(*     call the API.                                                       *)
(*                                                                         *)
(* The CPC daemon and the NCP are external: they deliver frames in order.  *)
(***************************************************************************)
EXTENDS Naturals, Sequences, FiniteSets

CONSTANTS
  Callers,          \* application threads that call the API
  CbThreads,        \* threads that poll the callback queue
  NoThread,         \* the value of `lock` when nobody holds the mutex
  NestingThreads,   \* callback threads whose handlers may call the API
  MaxCalls,         \* bound: API calls started in a behaviour
  MaxIndications,   \* bound: indications the NCP emits in a behaviour
  QueueCap,         \* indications that fit in the callback pipe
  Faults            \* what may go wrong: a subset of FaultKinds

FaultKinds == {"lost",    \* cpc_write_endpoint fails, its result is ignored
               "slow",    \* the answer takes longer than the 1000 ms poll
               "stray",   \* a frame of neither known origin arrives
               "reset"}   \* the CPC daemon goes away (SIGUSR1 handler)

Threads == Callers \cup CbThreads

ASSUME TransportAssumption ==
  /\ NoThread \notin Threads
  /\ Callers \cap CbThreads = {}
  /\ NestingThreads \subseteq CbThreads
  /\ MaxCalls \in Nat
  /\ MaxIndications \in Nat
  /\ QueueCap \in Nat \ {0}
  /\ Faults \subseteq FaultKinds

VARIABLES
  lock,            \* ncp-host-common.c: the command mutex
  pc,              \* where each thread stands
  apiCommandData,  \* ncp-host-common.c: the shared command buffer
  responseBuffer,  \* cpc-host.c: what the poll thread last read
  responsePipe,    \* cpc-host.c pipe: one entry per byte, tagged (history)
                   \* with the call whose response the byte announces
  poller,          \* where the poll thread stands
  callbackPipe,    \* callback-queue.c pipe: the indications in it
  batch,           \* pipe_buffer of each callback thread: what is left of it
  toNcp, fromNcp,  \* the CPC endpoint, one FIFO per direction
  myCall,          \* number of the last call each thread started
  fetched,         \* what fetchApiParams gave each thread's last call
  calls,           \* calls started so far
  indications,     \* indications emitted so far
  handled,         \* history: indications handed to the application
  halted           \* FATAL() was reached: the process has exited

threadVars == <<lock, pc, apiCommandData, myCall, fetched, calls>>
queueVars  == <<callbackPipe, batch, handled>>
linkVars   == <<toNcp, fromNcp, indications>>
pollerVars == <<responseBuffer, responsePipe, poller>>
vars == <<threadVars, queueVars, linkVars, pollerVars, halted>>

-----------------------------------------------------------------------------
(* Frames.  The bytes after the origin byte are abstracted to the number   *)
(* of the call or of the indication they carry.                            *)

Frame(kind, id) == [kind |-> kind, id |-> id]
Command(n)    == Frame("command", n)      \* 0x69.., host to NCP
Response(n)   == Frame("response", n)     \* 0x69.., NCP to host
Indication(n) == Frame("indication", n)   \* 0x63.., NCP to host
Stray         == Frame("stray", 0)        \* any other first byte
Blank         == Frame("blank", 0)        \* the zeroed buffers at startup
Torn          == Frame("torn", 0)         \* a buffer recv() is still filling

Init ==
  /\ lock = NoThread
  /\ pc = [t \in Threads |-> "idle"]
  /\ apiCommandData = Blank
  /\ responseBuffer = Blank
  /\ responsePipe = <<>>
  /\ poller = "poll"
  /\ callbackPipe = <<>>
  /\ batch = [t \in CbThreads |-> <<>>]
  /\ toNcp = <<>>
  /\ fromNcp = <<>>
  /\ myCall = [t \in Threads |-> 0]
  /\ fetched = [t \in Threads |-> Blank]
  /\ calls = 0
  /\ indications = 0
  /\ handled = <<>>
  /\ halted = FALSE

Goto(t, label) == pc' = [pc EXCEPT ![t] = label]
Step(t, from, to) == pc[t] = from /\ Goto(t, to)

-----------------------------------------------------------------------------
(* An API call (the common shape of csp-command-app.c).                    *)

EnterCall(t) ==
  /\ calls < MaxCalls
  /\ calls' = calls + 1
  /\ myCall' = [myCall EXCEPT ![t] = calls + 1]
  /\ Goto(t, "acquire")

StartCall(t) ==
  /\ t \in Callers
  /\ pc[t] = "idle"
  /\ EnterCall(t)
  /\ UNCHANGED <<lock, apiCommandData, fetched, queueVars, linkVars, pollerVars, halted>>

\* Mutant: the mutex may be held by another thread.
AcquireAnyway(t) ==
  /\ Step(t, "acquire", "format")
  /\ lock' = t
  /\ UNCHANGED <<apiCommandData, myCall, fetched, calls, queueVars, linkVars, pollerVars, halted>>

AcquireCommandMutex(t) ==
  /\ Step(t, "acquire", "format")
  /\ lock = NoThread
  /\ lock' = t
  /\ UNCHANGED <<apiCommandData, myCall, fetched, calls, queueVars, linkVars, pollerVars, halted>>

FormatCommand(t) ==
  /\ Step(t, "format", "transmit")
  /\ apiCommandData' = Command(myCall[t])
  /\ UNCHANGED <<lock, myCall, fetched, calls, queueVars, linkVars, pollerVars, halted>>

(* sendBlockingCommand ignores what cpc_tx returns: a write that failed is *)
(* followed by the wait all the same.                                      *)
CpcTx(t) ==
  /\ Step(t, "transmit", "wait")
  /\ \/ toNcp' = Append(toNcp, apiCommandData)
     \/ "lost" \in Faults /\ UNCHANGED toNcp
  /\ UNCHANGED <<lock, apiCommandData, myCall, fetched, calls, queueVars, fromNcp,
                 indications, pollerVars, halted>>

\* Mutant: the call does not wait for the byte on the pipe.
DoNotWait(t) ==
  /\ Step(t, "wait", "copy")
  /\ UNCHANGED <<lock, apiCommandData, myCall, fetched, calls, queueVars, linkVars,
                 responseBuffer, responsePipe, poller, halted>>

WaitForResponse(t) ==
  /\ Step(t, "wait", "copy")
  /\ responsePipe # <<>>
  /\ responsePipe' = Tail(responsePipe)
  /\ UNCHANGED <<lock, apiCommandData, myCall, fetched, calls, queueVars, linkVars,
                 responseBuffer, poller, halted>>

\* Mutant: a timeout makes the call return.
GiveUp(t) ==
  /\ Faults \cap {"lost", "slow"} # {}
  /\ Step(t, "wait", "release")
  /\ responsePipe = <<>>
  /\ UNCHANGED <<lock, apiCommandData, myCall, fetched, calls, queueVars, linkVars,
                 pollerVars, halted>>

(* poll() returned 0 after 1000 ms.                                        *)
WaitTimeout(t) ==
  /\ Faults \cap {"lost", "slow"} # {}
  /\ Step(t, "wait", "late")
  /\ responsePipe = <<>>
  /\ UNCHANGED <<lock, apiCommandData, myCall, fetched, calls, queueVars, linkVars,
                 pollerVars, halted>>

(* The read() in the timeout branch comes BEFORE the FATAL: it blocks      *)
(* until a response byte is written.                                       *)
LateRead(t) ==
  /\ pc[t] = "late"
  /\ responsePipe # <<>>
  /\ responsePipe' = Tail(responsePipe)
  /\ halted' = TRUE
  /\ UNCHANGED <<threadVars, queueVars, linkVars, responseBuffer, poller>>

\* Mutant: the response is not copied.
NoCopy(t) ==
  /\ Step(t, "copy", "fetch")
  /\ UNCHANGED <<lock, apiCommandData, myCall, fetched, calls, queueVars, linkVars,
                 pollerVars, halted>>

(* memcpy(apiCommandData, responseBuffer): the buffer is not protected     *)
(* against the poll thread, and may be half written (Torn).                *)
CopyResponse(t) ==
  /\ Step(t, "copy", "fetch")
  /\ apiCommandData' = responseBuffer
  /\ UNCHANGED <<lock, myCall, fetched, calls, queueVars, linkVars, pollerVars, halted>>

FetchApiParams(t) ==
  /\ Step(t, "fetch", "release")
  /\ fetched' = [fetched EXCEPT ![t] = apiCommandData]
  /\ UNCHANGED <<lock, apiCommandData, myCall, calls, queueVars, linkVars,
                 pollerVars, halted>>

\* Mutant: the function returns without a release.
ReturnLocked(t) ==
  /\ Step(t, "release", IF t \in CbThreads THEN "handle" ELSE "idle")
  /\ UNCHANGED <<lock, apiCommandData, myCall, fetched, calls, queueVars, linkVars, pollerVars,
                 halted>>

(* The function returns: to the application, or to the loop over a batch   *)
(* when the call was made by a callback handler.                           *)
ReleaseCommandMutex(t) ==
  /\ Step(t, "release", IF t \in CbThreads THEN "handle" ELSE "idle")
  /\ lock' = NoThread
  /\ UNCHANGED <<apiCommandData, myCall, fetched, calls, queueVars, linkVars, pollerVars, halted>>

-----------------------------------------------------------------------------
(* The poll thread.                                                        *)

(* poll() on the endpoint returned POLLIN; cpc_rx starts to fill           *)
(* responseBuffer.                                                         *)
PollNcpMsg ==
  /\ poller = "poll"
  /\ fromNcp # <<>>
  /\ poller' = "rx"
  /\ responseBuffer' = Torn
  /\ UNCHANGED <<threadVars, queueVars, linkVars, responsePipe, halted>>

CpcRx ==
  /\ poller = "rx"
  /\ fromNcp # <<>>
  /\ poller' = "dispatch"
  /\ responseBuffer' = Head(fromNcp)
  /\ fromNcp' = Tail(fromNcp)
  /\ UNCHANGED <<threadVars, queueVars, toNcp, indications, responsePipe, halted>>

Dispatching(kind) == poller = "dispatch" /\ responseBuffer.kind = kind

\* Mutant: the poll thread ends after a response.
PollOnce ==
  /\ Dispatching("response")
  /\ responsePipe' = Append(responsePipe, responseBuffer.id)
  /\ poller' = "ended"
  /\ UNCHANGED <<threadVars, queueVars, linkVars, responseBuffer, halted>>

HandleResponse ==
  /\ Dispatching("response")
  /\ responsePipe' = Append(responsePipe, responseBuffer.id)
  /\ poller' = "poll"
  /\ UNCHANGED <<threadVars, queueVars, linkVars, responseBuffer, halted>>

\* Mutant: an indication that finds the pipe full is dropped.
DropWhenFull ==
  /\ Dispatching("indication")
  /\ callbackPipe' = IF Len(callbackPipe) < QueueCap
                     THEN Append(callbackPipe, responseBuffer) ELSE callbackPipe
  /\ poller' = "poll"
  /\ UNCHANGED <<threadVars, batch, handled, linkVars, responseBuffer, responsePipe, halted>>

(* A blocking write(): it waits while the pipe has no room.                *)
AppendCallbackCommand ==
  /\ Dispatching("indication")
  /\ Len(callbackPipe) < QueueCap
  /\ callbackPipe' = Append(callbackPipe, responseBuffer)
  /\ poller' = "poll"
  /\ UNCHANGED <<threadVars, batch, handled, linkVars, responseBuffer,
                 responsePipe, halted>>

UnknownFrame ==
  /\ Dispatching("stray")
  /\ halted' = TRUE
  /\ UNCHANGED <<threadVars, queueVars, linkVars, pollerVars>>

-----------------------------------------------------------------------------
(* The callback threads.                                                   *)

PollCallbackCommand(t) ==
  /\ t \in CbThreads
  /\ Step(t, "idle", "read")
  /\ callbackPipe # <<>>
  /\ UNCHANGED <<lock, apiCommandData, myCall, fetched, calls, queueVars, linkVars,
                 pollerVars, halted>>

(* One read() takes everything the pipe holds; with several callback       *)
(* threads it blocks when another one was faster.                          *)
ReadPipe(t) ==
  /\ t \in CbThreads
  /\ Step(t, "read", "handle")
  /\ callbackPipe # <<>>
  /\ batch' = [batch EXCEPT ![t] = callbackPipe]
  /\ callbackPipe' = <<>>
  /\ UNCHANGED <<lock, apiCommandData, myCall, fetched, calls, handled, linkVars,
                 pollerVars, halted>>

\* Mutant: the newest indication of a batch is handled first.
NewestFirst(t) ==
  /\ t \in CbThreads
  /\ pc[t] = "handle"
  /\ batch[t] # <<>>
  /\ handled' = Append(handled, batch[t][Len(batch[t])])
  /\ batch' = [batch EXCEPT ![t] = SubSeq(@, 1, Len(@) - 1)]
  /\ UNCHANGED <<pc, myCall, calls, lock, apiCommandData, fetched, callbackPipe, linkVars,
                 pollerVars, halted>>

HandleIndication(t) ==
  /\ t \in CbThreads
  /\ pc[t] = "handle"
  /\ batch[t] # <<>>
  /\ handled' = Append(handled, Head(batch[t]))
  /\ batch' = [batch EXCEPT ![t] = Tail(@)]
  /\ \/ UNCHANGED <<pc, myCall, calls>>
     \/ t \in NestingThreads /\ EnterCall(t)
  /\ UNCHANGED <<lock, apiCommandData, fetched, callbackPipe, linkVars, pollerVars, halted>>

\* Mutant: what is left of a batch may be forgotten.
BatchCutShort(t) ==
  /\ t \in CbThreads
  /\ Step(t, "handle", "idle")
  /\ UNCHANGED <<lock, apiCommandData, myCall, fetched, calls, queueVars, linkVars,
                 pollerVars, halted>>

BatchDone(t) ==
  /\ t \in CbThreads
  /\ Step(t, "handle", "idle")
  /\ batch[t] = <<>>
  /\ UNCHANGED <<lock, apiCommandData, myCall, fetched, calls, queueVars, linkVars,
                 pollerVars, halted>>

-----------------------------------------------------------------------------
(* The outside: the NCP behind the CPC daemon.                             *)

NcpAnswer ==
  /\ toNcp # <<>>
  /\ toNcp' = Tail(toNcp)
  /\ fromNcp' = Append(fromNcp, Response(Head(toNcp).id))
  /\ UNCHANGED <<threadVars, queueVars, pollerVars, indications, halted>>

NcpIndicate ==
  /\ indications < MaxIndications
  /\ indications' = indications + 1
  /\ fromNcp' = Append(fromNcp, Indication(indications + 1))
  /\ UNCHANGED <<threadVars, queueVars, pollerVars, toNcp, halted>>

NcpStray ==
  /\ "stray" \in Faults
  /\ fromNcp = <<>>
  /\ fromNcp' = <<Stray>>
  /\ UNCHANGED <<threadVars, queueVars, pollerVars, toNcp, indications, halted>>

(* reset_crash_callback, or cpc_read_endpoint returning an error.          *)
ResetCrash ==
  /\ "reset" \in Faults
  /\ halted' = TRUE
  /\ UNCHANGED <<threadVars, queueVars, linkVars, pollerVars>>

-----------------------------------------------------------------------------
ThreadStep(t) ==
  \/ AcquireCommandMutex(t) \/ FormatCommand(t) \/ CpcTx(t)
  \/ WaitForResponse(t) \/ WaitTimeout(t) \/ LateRead(t)
  \/ CopyResponse(t) \/ FetchApiParams(t) \/ ReleaseCommandMutex(t)
  \/ PollCallbackCommand(t) \/ ReadPipe(t) \/ HandleIndication(t) \/ BatchDone(t)

PollerStep ==
  PollNcpMsg \/ CpcRx \/ HandleResponse \/ AppendCallbackCommand \/ UnknownFrame

Environment == NcpAnswer \/ NcpIndicate \/ NcpStray \/ ResetCrash

(* The process may stop: it has exited, or everyone waits for work.        *)
Stopped ==
  /\ \/ halted
     \/ /\ \A t \in Threads : pc[t] = "idle"
        /\ poller = "poll"
        /\ toNcp = <<>> /\ fromNcp = <<>> /\ callbackPipe = <<>>
  /\ UNCHANGED vars

Next ==
  \/ /\ ~halted
     /\ \/ \E t \in Threads : StartCall(t) \/ ThreadStep(t)
        \/ PollerStep
        \/ Environment
  \/ Stopped

Spec == Init /\ [][Next]_vars

(* The scheduler runs every thread that can run, and the NCP answers what  *)
(* it received.  Nothing is assumed about new calls, indications, faults.  *)
Fairness ==
  /\ \A t \in Threads : WF_vars(~halted /\ ThreadStep(t))
  /\ WF_vars(~halted /\ PollerStep)
  /\ WF_vars(~halted /\ NcpAnswer)

FairSpec == Spec /\ Fairness

-----------------------------------------------------------------------------
(* Properties.                                                             *)

Kinds  == {"command", "response", "indication", "stray", "blank", "torn"}
Frames == [kind : Kinds, id : Nat]
Labels == {"idle", "acquire", "format", "transmit", "wait", "late", "copy",
           "fetch", "release", "read", "handle"}

(* Every variable holds a value of its type.                               *)
TypeOK ==
  /\ lock \in Threads \cup {NoThread}
  /\ pc \in [Threads -> Labels]
  /\ apiCommandData \in Frames
  /\ responseBuffer \in Frames
  /\ responsePipe \in Seq(Nat)
  /\ poller \in {"poll", "rx", "dispatch"}
  /\ callbackPipe \in Seq(Frames)
  /\ batch \in [CbThreads -> Seq(Frames)]
  /\ toNcp \in Seq(Frames)
  /\ fromNcp \in Seq(Frames)
  /\ myCall \in [Threads -> Nat]
  /\ fetched \in [Threads -> Frames]
  /\ calls \in Nat
  /\ indications \in Nat
  /\ handled \in Seq(Frames)
  /\ halted \in BOOLEAN

InsideMutex == {"format", "transmit", "wait", "late", "copy", "fetch", "release"}

Awaited(n) ==
  /\ lock \in Threads
  /\ pc[lock] \in {"wait", "late"}
  /\ myCall[lock] = n

(* An exchange with the NCP is never left over: whatever is still on its   *)
(* way (a command, its response, or the byte announcing it) belongs to the *)
(* call the mutex holder is waiting for.  So the byte wait_for_response    *)
(* reads is never the late byte of an earlier call: the timeout branch     *)
(* exits the process instead of releasing the mutex with a response        *)
(* outstanding.                                                            *)
NoStaleExchange ==
  /\ \A i \in DOMAIN toNcp : Awaited(toNcp[i].id)
  /\ \A i \in DOMAIN fromNcp :
       fromNcp[i].kind = "response" => Awaited(fromNcp[i].id)
  /\ Dispatching("response") => Awaited(responseBuffer.id)
  /\ \A i \in DOMAIN responsePipe : Awaited(responsePipe[i])

(* No call ever fetches the response of another call, in whatever way      *)
(* calls, indications, timeouts and losses interleave.                     *)
NeverAnothersResponse ==
  \A t \in Threads :
    pc[t] = "release" /\ fetched[t].kind = "response"
      => fetched[t].id = myCall[t]

(* A call that returns has fetched the response to its own command: the    *)
(* thread safety README.md:54 promises.  It holds without indications and  *)
(* is false with them, because an indication is read into responseBuffer   *)
(* while the caller has yet to copy its response out of it.                *)
OwnResponse ==
  \A t \in Threads : pc[t] = "release" => fetched[t] = Response(myCall[t])

(* The strengthening that makes the three safety properties above          *)
(* inductive.                                                              *)
MutualExclusion == \A t \in Threads : pc[t] \in InsideMutex <=> lock = t

ResponseOnLink == \E i \in DOMAIN fromNcp : fromNcp[i].kind = "response"

SingleExchange ==
  /\ toNcp # <<>> => /\ Len(toNcp) = 1
                     /\ ~ResponseOnLink
                     /\ ~Dispatching("response")
                     /\ responsePipe = <<>>
  /\ ResponseOnLink => ~Dispatching("response") /\ responsePipe = <<>>
  /\ Dispatching("response") => responsePipe = <<>>
  /\ Len(responsePipe) <= 1
  /\ \A i, j \in DOMAIN fromNcp :
       fromNcp[i].kind = "response" /\ fromNcp[j].kind = "response" => i = j

OwnBuffers ==
  /\ \A t \in Threads : pc[t] = "transmit" => apiCommandData = Command(myCall[t])
  /\ responseBuffer.kind = "response" /\ responsePipe # <<>>
       => responseBuffer.id = responsePipe[1]
  /\ \A t \in Threads :
       /\ pc[t] = "copy" /\ responseBuffer.kind = "response"
            => responseBuffer.id = myCall[t]
       /\ pc[t] = "fetch" /\ apiCommandData.kind = "response"
            => apiCommandData.id = myCall[t]

TransportInv ==
  /\ TypeOK
  /\ MutualExclusion
  /\ NoStaleExchange
  /\ SingleExchange
  /\ OwnBuffers
  /\ NeverAnothersResponse

(* The strengthening of OwnResponse for an NCP that sends nothing but      *)
(* responses: every frame read into responseBuffer is then the response    *)
(* the mutex holder waits for, and it stays there until it is copied.      *)
QuietLink == MaxIndications = 0 /\ "stray" \notin Faults

QuietInv ==
  /\ TransportInv
  /\ indications = 0
  /\ \A i \in DOMAIN fromNcp : fromNcp[i].kind = "response"
  /\ poller = "rx" => fromNcp # <<>>
  /\ poller = "dispatch" => responseBuffer.kind = "response"
  /\ responsePipe # <<>> => /\ poller = "poll"
                            /\ responseBuffer.kind = "response"
  /\ \A t \in Threads :
       /\ pc[t] = "copy" => poller = "poll" /\ responseBuffer.kind = "response"
       /\ pc[t] = "fetch" => apiCommandData.kind = "response"
       /\ pc[t] = "release" => fetched[t].kind = "response"

(* Where an indication can be: on the link, in the hand of the poll thread,*)
(* in the pipe, in the batch of a callback thread, or with the application.*)
InHand == IF Dispatching("indication") THEN <<responseBuffer>> ELSE <<>>

Sites == {<<name, NoThread>> : name \in {"link", "hand", "pipe", "handled"}}
           \cup {<<"batch", t>> : t \in CbThreads}

Held == [s \in Sites |-> CASE s[1] = "link" -> fromNcp
                           [] s[1] = "hand" -> InHand
                           [] s[1] = "pipe" -> callbackPipe
                           [] s[1] = "handled" -> handled
                           [] OTHER -> batch[s[2]]]

Places(x) == UNION {{<<s, i>> : i \in {j \in DOMAIN Held[s] : Held[s][j] = x}} : s \in Sites}

(* Whatever the number of callback threads, no indication is lost or       *)
(* delivered twice (their order is not promised).                          *)
ExactlyOnce ==
  \A n \in 1..indications : Cardinality(Places(Indication(n))) = 1

(* With one callback thread, the application sees every indication the NCP *)
(* emitted exactly once and in the order of emission, through the frame    *)
(* FIFO, the shared buffer, the pipe and the batch read: those that have   *)
(* left the link are the first ones, those still on it are the others, all *)
(* in order.                                                               *)
Received(t) == handled \o batch[t] \o callbackPipe \o InHand

OnLink == {i \in DOMAIN fromNcp : fromNcp[i].kind = "indication"}

CallbackFifo ==
  \A t \in CbThreads : CbThreads = {t} =>
    /\ \A i \in DOMAIN Received(t) : Received(t)[i] = Indication(i)
    /\ {fromNcp[i].id : i \in OnLink} = (Len(Received(t)) + 1)..indications
    /\ \A i, j \in OnLink : i < j => fromNcp[i].id < fromNcp[j].id

(* Every API call returns.                                                 *)
CallReturns ==
  \A t \in Threads : pc[t] = "acquire" ~> pc[t] \in {"idle", "handle"}

(* Every indication the NCP emits reaches the application.                 *)
IndicationDelivered ==
  \A n \in 1..MaxIndications : indications >= n ~> Len(handled) >= n

(* ncp.h:63-64: once the callback queue is full, a callback is lost, so    *)
(* the poll thread gets rid of the frame it holds.  The blocking write     *)
(* makes it wait instead.                                                  *)
FullQueueDropsCallback == Dispatching("indication") ~> poller = "poll"

(* cpc-host.c:140: a response that does not arrive in time ends the        *)
(* process.                                                                *)
TimeoutIsFatal == \A t \in Threads : pc[t] = "late" ~> halted
=============================================================================
