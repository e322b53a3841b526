------------------------- MODULE NcpTransportProofs -------------------------
(***************************************************************************)
(* Theorems about NcpTransport, for any sets of threads, any bounds and    *)
(* any faults.                                                             *)
(***************************************************************************)
EXTENDS NcpTransportRefinement, SequenceTheorems, TLAPS

(* Every frame the components build is a frame, and a frame has a number.  *)
LEMMA FrameTypes ==
  /\ Blank \in Frames /\ Torn \in Frames /\ Stray \in Frames
  /\ \A n \in Nat : /\ Command(n) \in Frames
                    /\ Response(n) \in Frames
                    /\ Indication(n) \in Frames
  /\ \A f \in Frames : f.id \in Nat
BY DEF Frames, Kinds, Frame, Blank, Torn, Stray, Command, Response, Indication

(* Taking the first entry of a FIFO.                                       *)
LEMMA Pop ==
  ASSUME NEW S, NEW s \in Seq(S), s # <<>>
  PROVE  Head(s) \in S /\ Tail(s) \in Seq(S)
OBVIOUS

(* The initial state is well typed.                                        *)
LEMMA TypeInit == Init => TypeOK
<1> SUFFICES ASSUME Init PROVE TypeOK
  OBVIOUS
<1>1. <<>> \in Seq(Frames) /\ <<>> \in Seq(Nat)
  OBVIOUS
<1>2. /\ pc \in [Threads -> Labels] /\ myCall \in [Threads -> Nat]
      /\ fetched \in [Threads -> Frames]
  BY FrameTypes DEF Init, Labels
<1>3. batch \in [CbThreads -> Seq(Frames)]
  BY <1>1 DEF Init
<1> QED
  BY <1>1, <1>2, <1>3, FrameTypes DEF Init, TypeOK

(* Every step keeps every variable in its type.                            *)
LEMMA TypeStep == TypeOK /\ [Next]_vars => TypeOK'
<1> SUFFICES ASSUME TypeOK, [Next]_vars PROVE TypeOK'
  OBVIOUS
<1> USE FrameTypes
    DEF TypeOK, Labels, Goto, Step, EnterCall, threadVars, queueVars,
        linkVars, pollerVars
<1>1. ASSUME NEW t \in Threads, StartCall(t) PROVE TypeOK'
  BY <1>1 DEF StartCall
<1>2. ASSUME NEW t \in Threads, AcquireCommandMutex(t) PROVE TypeOK'
  BY <1>2 DEF AcquireCommandMutex
<1>3. ASSUME NEW t \in Threads, FormatCommand(t) PROVE TypeOK'
  BY <1>3 DEF FormatCommand
<1>4. ASSUME NEW t \in Threads, CpcTx(t) PROVE TypeOK'
  <2>1. Append(toNcp, apiCommandData) \in Seq(Frames)
    OBVIOUS
  <2>2. toNcp' = Append(toNcp, apiCommandData) \/ toNcp' = toNcp
    BY <1>4 DEF CpcTx
  <2>3. toNcp' \in Seq(Frames)
    BY <2>1, <2>2
  <2> QED BY <1>4, <2>3 DEF CpcTx
<1>5. ASSUME NEW t \in Threads, WaitForResponse(t) PROVE TypeOK'
  BY <1>5 DEF WaitForResponse
<1>6. ASSUME NEW t \in Threads, WaitTimeout(t) PROVE TypeOK'
  BY <1>6 DEF WaitTimeout
<1>7. ASSUME NEW t \in Threads, LateRead(t) PROVE TypeOK'
  BY <1>7 DEF LateRead
<1>8. ASSUME NEW t \in Threads, CopyResponse(t) PROVE TypeOK'
  BY <1>8 DEF CopyResponse
<1>9. ASSUME NEW t \in Threads, FetchApiParams(t) PROVE TypeOK'
  BY <1>9 DEF FetchApiParams
<1>10. ASSUME NEW t \in Threads, ReleaseCommandMutex(t) PROVE TypeOK'
  BY <1>10 DEF ReleaseCommandMutex
<1>11. ASSUME NEW t \in Threads, PollCallbackCommand(t) PROVE TypeOK'
  BY <1>11 DEF PollCallbackCommand
<1>12. ASSUME NEW t \in Threads, ReadPipe(t) PROVE TypeOK'
  BY <1>12 DEF ReadPipe
<1>13. ASSUME NEW t \in Threads, HandleIndication(t) PROVE TypeOK'
  <2>1. batch[t] \in Seq(Frames) /\ batch[t] # <<>>
    BY <1>13 DEF HandleIndication
  <2>2. Head(batch[t]) \in Frames /\ Tail(batch[t]) \in Seq(Frames)
    BY <2>1, Pop
  <2>3. handled' \in Seq(Frames)
    BY <1>13, <2>2 DEF HandleIndication
  <2>4. batch' \in [CbThreads -> Seq(Frames)]
    BY <1>13, <2>2 DEF HandleIndication
  <2>5. /\ pc' \in [Threads -> Labels] /\ myCall' \in [Threads -> Nat]
        /\ calls' \in Nat
    <3>1. CASE UNCHANGED <<pc, myCall, calls>>
      BY <3>1
    <3>2. CASE EnterCall(t)
      BY <3>2
    <3> QED BY <1>13, <3>1, <3>2 DEF HandleIndication
  <2> QED BY <1>13, <2>3, <2>4, <2>5 DEF HandleIndication
<1>14. ASSUME NEW t \in Threads, BatchDone(t) PROVE TypeOK'
  BY <1>14 DEF BatchDone
<1>15. CASE PollNcpMsg
  BY <1>15 DEF PollNcpMsg
<1>16. CASE CpcRx
  <2>1. Head(fromNcp) \in Frames /\ Tail(fromNcp) \in Seq(Frames)
    BY <1>16, Pop DEF CpcRx
  <2> QED BY <1>16, <2>1 DEF CpcRx
<1>17. CASE HandleResponse
  BY <1>17 DEF HandleResponse
<1>18. CASE AppendCallbackCommand
  BY <1>18 DEF AppendCallbackCommand
<1>19. CASE UnknownFrame
  BY <1>19 DEF UnknownFrame
<1>20. CASE NcpAnswer
  <2>1. toNcp \in Seq(Frames) /\ toNcp # <<>>
    BY <1>20 DEF NcpAnswer
  <2>2. Head(toNcp) \in Frames /\ Tail(toNcp) \in Seq(Frames)
    BY <2>1
  <2>3. Response(Head(toNcp).id) \in Frames
    BY <2>2
  <2>4. fromNcp' \in Seq(Frames)
    BY <1>20, <2>3 DEF NcpAnswer
  <2> QED BY <1>20, <2>2, <2>4 DEF NcpAnswer
<1>21. CASE NcpIndicate
  BY <1>21 DEF NcpIndicate
<1>22. CASE NcpStray
  BY <1>22 DEF NcpStray
<1>23. CASE ResetCrash
  BY <1>23 DEF ResetCrash
<1>24. CASE UNCHANGED vars
  BY <1>24 DEF vars
<1> HIDE DEF TypeOK, Labels, Goto, Step, EnterCall, threadVars, queueVars,
             linkVars, pollerVars
<1> QED
  BY <1>1, <1>2, <1>3, <1>4, <1>5, <1>6, <1>7, <1>8, <1>9, <1>10, <1>11, <1>12,
     <1>13, <1>14, <1>15, <1>16, <1>17, <1>18, <1>19, <1>20, <1>21, <1>22, <1>23,
     <1>24
  DEF Next, ThreadStep, PollerStep, Environment, Stopped

(* The type invariant of the transport core.                               *)
THEOREM TypeCorrect == Spec => []TypeOK
BY TypeInit, TypeStep, PTL DEF Spec

-----------------------------------------------------------------------------
(* A FIFO of one entry is empty once it is taken.                          *)
LEMMA TailOfOne ==
  ASSUME NEW S, NEW s \in Seq(S), Len(s) = 1
  PROVE  Tail(s) = <<>>
<1>1. Tail(s) \in Seq(S) /\ Len(Tail(s)) = 0
  BY HeadTailProperties, EmptySeq
<1> QED BY <1>1, EmptySeq

(* What is left of a FIFO when its first entry is taken has moved up.      *)
LEMMA Shifted ==
  ASSUME NEW S, NEW s \in Seq(S), s # <<>>
  PROVE  /\ Head(s) \in S /\ Head(s) = s[1] /\ 1 \in DOMAIN s
         /\ DOMAIN Tail(s) = 1..(Len(s) - 1)
         /\ \A i \in DOMAIN Tail(s) : i + 1 \in DOMAIN s /\ Tail(s)[i] = s[i + 1]
OBVIOUS

(* An entry of a FIFO after an append is an old one or the new one.        *)
LEMMA EntryOfAppend ==
  ASSUME NEW S, NEW s \in Seq(S), NEW x \in S, NEW i \in DOMAIN Append(s, x)
  PROVE  \/ i \in DOMAIN s /\ Append(s, x)[i] = s[i]
         \/ i = Len(s) + 1 /\ Append(s, x)[i] = x
OBVIOUS

(* The initial state satisfies the inductive invariant.                    *)
LEMMA InvInit == Init => TransportInv
BY TypeInit, TransportAssumption
   DEF Init, TransportInv, MutualExclusion, NoStaleExchange, SingleExchange, OwnBuffers,
       NeverAnothersResponse, InsideMutex, ResponseOnLink, Dispatching, Blank, Frame

(* Every step keeps the inductive invariant: the mutex serialises the      *)
(* exchanges, so only the holder's own command, response and response byte *)
(* are ever on their way.                                                  *)
LEMMA InvStep == TransportInv /\ [Next]_vars => TransportInv'
<1> SUFFICES ASSUME TransportInv, [Next]_vars PROVE TransportInv'
  OBVIOUS
<1>0. TypeOK /\ TypeOK'
  BY TypeStep DEF TransportInv
<1> DEFINE Rest == /\ MutualExclusion /\ NoStaleExchange /\ SingleExchange
                   /\ OwnBuffers /\ NeverAnothersResponse
<1> USE TransportAssumption
    DEF TransportInv, MutualExclusion, NoStaleExchange, SingleExchange, OwnBuffers,
        NeverAnothersResponse, InsideMutex, ResponseOnLink, Dispatching, Awaited,
        TypeOK, Goto, Step, EnterCall, threadVars, queueVars, linkVars, pollerVars
<1>1. ASSUME NEW t \in Threads, StartCall(t) PROVE Rest'
  BY <1>0, <1>1, SMTT(40) DEF StartCall
<1>2. ASSUME NEW t \in Threads, AcquireCommandMutex(t) PROVE Rest'
  BY <1>0, <1>2 DEF AcquireCommandMutex
<1>3. ASSUME NEW t \in Threads, FormatCommand(t) PROVE Rest'
  BY <1>0, <1>3 DEF FormatCommand
<1>4. ASSUME NEW t \in Threads, CpcTx(t) PROVE Rest'
  <2>1. lock = t /\ apiCommandData = Command(myCall[t])
    BY <1>0, <1>4 DEF CpcTx
  <2>2. apiCommandData.id = myCall[t]
    BY <2>1 DEF Command, Frame
  <2>3. toNcp = <<>> /\ ~ResponseOnLink /\ ~Dispatching("response") /\ responsePipe = <<>>
    BY <1>0, <1>4, <2>1 DEF CpcTx
  <2>4. toNcp' = <<apiCommandData>> \/ toNcp' = <<>>
    BY <1>0, <1>4, <2>3 DEF CpcTx
  <2>5. MutualExclusion' /\ OwnBuffers' /\ NeverAnothersResponse'
    BY <1>0, <1>4 DEF CpcTx
  <2>6. NoStaleExchange'
    BY <1>0, <1>4, <2>1, <2>2, <2>3, <2>4 DEF CpcTx
  <2>7. SingleExchange'
    BY <1>0, <1>4, <2>3, <2>4 DEF CpcTx
  <2> QED BY <2>5, <2>6, <2>7
<1>5. ASSUME NEW t \in Threads, WaitForResponse(t) PROVE Rest'
  BY <1>0, <1>5 DEF WaitForResponse
<1>6. ASSUME NEW t \in Threads, WaitTimeout(t) PROVE Rest'
  BY <1>0, <1>6 DEF WaitTimeout
<1>7. ASSUME NEW t \in Threads, LateRead(t) PROVE Rest'
  BY <1>0, <1>7 DEF LateRead
<1>8. ASSUME NEW t \in Threads, CopyResponse(t) PROVE Rest'
  BY <1>0, <1>8 DEF CopyResponse
<1>9. ASSUME NEW t \in Threads, FetchApiParams(t) PROVE Rest'
  BY <1>0, <1>9 DEF FetchApiParams
<1>10. ASSUME NEW t \in Threads, ReleaseCommandMutex(t) PROVE Rest'
  BY <1>0, <1>10 DEF ReleaseCommandMutex
<1>11. ASSUME NEW t \in Threads, PollCallbackCommand(t) PROVE Rest'
  BY <1>0, <1>11, SMTT(40) DEF PollCallbackCommand
<1>12. ASSUME NEW t \in Threads, ReadPipe(t) PROVE Rest'
  BY <1>0, <1>12, ZenonT(60) DEF ReadPipe
<1>13. ASSUME NEW t \in Threads, HandleIndication(t) PROVE Rest'
  <2>1. CASE UNCHANGED <<pc, myCall, calls>>
    BY <1>0, <1>13, <2>1, SMTT(40) DEF HandleIndication
  <2>2. CASE EnterCall(t)
    BY <1>0, <1>13, <2>2, ZenonT(60) DEF HandleIndication
  <2> QED BY <1>13, <2>1, <2>2 DEF HandleIndication
<1>14. ASSUME NEW t \in Threads, BatchDone(t) PROVE Rest'
  BY <1>0, <1>14 DEF BatchDone
<1>15. ASSUME PollNcpMsg PROVE Rest'
  BY <1>0, <1>15 DEF PollNcpMsg, Torn, Frame
<1>16. ASSUME CpcRx PROVE Rest'
  <2> DEFINE f == Head(fromNcp)
  <2>1. /\ f \in Frames /\ f = fromNcp[1] /\ 1 \in DOMAIN fromNcp
        /\ DOMAIN fromNcp' = 1..(Len(fromNcp) - 1)
        /\ \A i \in DOMAIN fromNcp' : i + 1 \in DOMAIN fromNcp /\ fromNcp'[i] = fromNcp[i + 1]
    <3>1. fromNcp \in Seq(Frames) /\ fromNcp # <<>> /\ fromNcp' = Tail(fromNcp)
      BY <1>0, <1>16 DEF CpcRx
    <3> QED BY <3>1, Shifted
  <2> HIDE DEF f
  <2>2. /\ poller = "rx" /\ poller' = "dispatch" /\ responseBuffer' = f
        /\ UNCHANGED <<threadVars, toNcp, responsePipe>>
    BY <1>16 DEF CpcRx, f
  <2>3. ResponseOnLink' => ResponseOnLink
    BY <2>1
  <2>4. f.kind = "response" => /\ ResponseOnLink /\ ~ResponseOnLink' /\ Awaited(f.id)
    <3>1. ASSUME f.kind = "response" PROVE ResponseOnLink /\ Awaited(f.id)
      BY <2>1, <3>1
    <3>2. ASSUME f.kind = "response", NEW i \in DOMAIN fromNcp', fromNcp'[i].kind = "response"
          PROVE  FALSE
      <4>1. i + 1 \in DOMAIN fromNcp /\ fromNcp[i + 1].kind = "response" /\ i + 1 # 1
        BY <2>1, <3>2
      <4> QED BY <2>1, <3>2, <4>1
    <3> QED BY <3>1, <3>2
  <2>5. MutualExclusion' /\ NeverAnothersResponse'
    BY <2>2
  <2>6. NoStaleExchange'
    BY <2>1, <2>2, <2>4
  <2>7. SingleExchange'
    <3>1. \A i, j \in DOMAIN fromNcp' :
            fromNcp'[i].kind = "response" /\ fromNcp'[j].kind = "response" => i = j
      <4> SUFFICES ASSUME NEW i \in DOMAIN fromNcp', NEW j \in DOMAIN fromNcp',
                          fromNcp'[i].kind = "response", fromNcp'[j].kind = "response"
                   PROVE  i = j
        OBVIOUS
      <4>1. i + 1 = j + 1
        BY <2>1, SMTT(40)
      <4> QED BY <2>1, <4>1
    <3> QED BY <2>2, <2>3, <2>4, <3>1
  <2>8. OwnBuffers'
    BY <2>2, <2>4
  <2> QED BY <2>5, <2>6, <2>7, <2>8
<1>17. ASSUME HandleResponse PROVE Rest'
  BY <1>0, <1>17 DEF HandleResponse
<1>18. ASSUME AppendCallbackCommand PROVE Rest'
  BY <1>0, <1>18 DEF AppendCallbackCommand
<1>19. ASSUME UnknownFrame PROVE Rest'
  BY <1>0, <1>19 DEF UnknownFrame
<1>20. ASSUME NcpAnswer PROVE Rest'
  <2> DEFINE n == Head(toNcp).id
             f == Response(n)
  <2>1. /\ f \in Frames /\ f.kind = "response" /\ f.id = n
        /\ fromNcp' = Append(fromNcp, f)
    BY <1>0, <1>20, FrameTypes, Pop DEF NcpAnswer, Response, Frame
  <2>2. /\ Awaited(n) /\ ~ResponseOnLink /\ toNcp' = <<>>
        /\ ~Dispatching("response") /\ responsePipe = <<>>
    <3>1. /\ toNcp # <<>> /\ toNcp' = Tail(toNcp)
          /\ Len(toNcp) = 1 /\ 1 \in DOMAIN toNcp /\ Head(toNcp) = toNcp[1]
      BY <1>0, <1>20 DEF NcpAnswer
    <3>2. Awaited(n)
      BY <3>1
    <3>3. toNcp' = <<>>
      <4>1. toNcp \in Seq(Frames)
        BY <1>0
      <4> QED BY <3>1, <4>1, TailOfOne
    <3> QED BY <3>1, <3>2, <3>3
  <2> HIDE DEF f, n
  <2>3. \A i \in DOMAIN fromNcp' : fromNcp'[i].kind = "response"
          => i = Len(fromNcp) + 1 /\ fromNcp'[i].id = n
    BY <1>0, <2>1, <2>2, SMTT(40)
  <2>4. MutualExclusion' /\ OwnBuffers' /\ NeverAnothersResponse'
    BY <1>0, <1>20 DEF NcpAnswer
  <2>5. NoStaleExchange'
    BY <1>0, <1>20, <2>2, <2>3 DEF NcpAnswer
  <2>6. SingleExchange'
    BY <1>0, <1>20, <2>2, <2>3 DEF NcpAnswer
  <2> QED BY <2>4, <2>5, <2>6
<1>21. ASSUME NcpIndicate PROVE Rest'
  <2> DEFINE f == Indication(indications + 1)
  <2>1. f \in Frames /\ f.kind = "indication" /\ fromNcp' = Append(fromNcp, f)
    BY <1>0, <1>21, FrameTypes DEF NcpIndicate, Indication, Frame
  <2> HIDE DEF f
  <2>2. \A i \in DOMAIN fromNcp' : fromNcp'[i].kind = "response"
          => i \in DOMAIN fromNcp /\ fromNcp'[i] = fromNcp[i]
    <3>1. fromNcp \in Seq(Frames)
      BY <1>0
    <3> QED BY <2>1, <3>1, EntryOfAppend
  <2>3. MutualExclusion' /\ OwnBuffers' /\ NeverAnothersResponse'
    BY <1>0, <1>21 DEF NcpIndicate
  <2>4. NoStaleExchange'
    BY <1>0, <1>21, <2>2 DEF NcpIndicate
  <2>5. SingleExchange'
    <3>1. ResponseOnLink' => ResponseOnLink
      BY <2>2
    <3>2. UNCHANGED <<toNcp, responsePipe, poller, responseBuffer>>
      BY <1>21 DEF NcpIndicate
    <3> QED BY <2>2, <3>1, <3>2
  <2> QED BY <2>3, <2>4, <2>5
<1>22. ASSUME NcpStray PROVE Rest'
  <2>1. /\ fromNcp = <<>> /\ fromNcp' = <<Stray>> /\ Stray.kind = "stray"
    BY <1>22 DEF NcpStray, Stray, Frame
  <2>2. DOMAIN fromNcp' = {1} /\ fromNcp'[1].kind = "stray"
    BY <2>1
  <2> QED BY <1>0, <1>22, <2>2 DEF NcpStray
<1>23. ASSUME ResetCrash PROVE Rest'
  BY <1>0, <1>23 DEF ResetCrash
<1>24. ASSUME UNCHANGED vars PROVE Rest'
  BY <1>0, <1>24 DEF vars
<1> HIDE DEF TransportInv, MutualExclusion, NoStaleExchange, SingleExchange, OwnBuffers,
        NeverAnothersResponse, InsideMutex, ResponseOnLink, Dispatching, Awaited,
        TypeOK, Goto, Step, EnterCall, threadVars, queueVars, linkVars, pollerVars
<1> QED
  BY <1>0, <1>1, <1>2, <1>3, <1>4, <1>5, <1>6, <1>7, <1>8, <1>9, <1>10, <1>11, <1>12, <1>13, <1>14, <1>15, <1>16, <1>17, <1>18, <1>19, <1>20, <1>21, <1>22, <1>23, <1>24
  DEF Next, ThreadStep, PollerStep, Environment, Stopped, TransportInv

(* At most one thread is between taking and releasing the command mutex,   *)
(* and it is the one the mutex records.                                    *)
THEOREM MutexHolds == Spec => []MutualExclusion
BY InvInit, InvStep, PTL DEF Spec, TransportInv

(* No response, command or response byte outlives the call it belongs to,  *)
(* whatever is lost, late or interleaved.                                  *)
THEOREM NoStaleExchangeHolds == Spec => []NoStaleExchange
BY InvInit, InvStep, PTL DEF Spec, TransportInv

(* A call never fetches the response to another call.                      *)
THEOREM NeverAnothersResponseHolds == Spec => []NeverAnothersResponse
BY InvInit, InvStep, PTL DEF Spec, TransportInv

-----------------------------------------------------------------------------
(* With an NCP that sends only responses, the buffers hold nothing else    *)
(* when they are read.                                                     *)
LEMMA QuietStep ==
  ASSUME QuietLink
  PROVE  QuietInv /\ [Next]_vars => QuietInv'
<1> SUFFICES ASSUME QuietInv, [Next]_vars PROVE QuietInv'
  OBVIOUS
<1>0. TypeOK /\ TransportInv /\ TransportInv'
  BY InvStep DEF QuietInv, TransportInv
<1>00. MutualExclusion /\ NoStaleExchange
  BY <1>0 DEF TransportInv
<1> USE QuietLink, TransportAssumption
    DEF QuietLink, QuietInv, MutualExclusion, NoStaleExchange, InsideMutex, Dispatching,
        Awaited, TypeOK, Goto, Step, EnterCall, threadVars, queueVars, linkVars,
        pollerVars
<1>1. ASSUME NEW t \in Threads, StartCall(t) PROVE QuietInv'
  BY <1>0, <1>00, <1>1 DEF StartCall
<1>2. ASSUME NEW t \in Threads, AcquireCommandMutex(t) PROVE QuietInv'
  BY <1>0, <1>00, <1>2 DEF AcquireCommandMutex
<1>3. ASSUME NEW t \in Threads, FormatCommand(t) PROVE QuietInv'
  BY <1>0, <1>00, <1>3 DEF FormatCommand
<1>4. ASSUME NEW t \in Threads, CpcTx(t) PROVE QuietInv'
  BY <1>0, <1>00, <1>4 DEF CpcTx
<1>5. ASSUME NEW t \in Threads, WaitForResponse(t) PROVE QuietInv'
  BY <1>0, <1>00, <1>5 DEF WaitForResponse
<1>6. ASSUME NEW t \in Threads, WaitTimeout(t) PROVE QuietInv'
  BY <1>0, <1>00, <1>6 DEF WaitTimeout
<1>7. ASSUME NEW t \in Threads, LateRead(t) PROVE QuietInv'
  BY <1>0, <1>00, <1>7 DEF LateRead
<1>8. ASSUME NEW t \in Threads, CopyResponse(t) PROVE QuietInv'
  BY <1>0, <1>00, <1>8 DEF CopyResponse
<1>9. ASSUME NEW t \in Threads, FetchApiParams(t) PROVE QuietInv'
  BY <1>0, <1>00, <1>9 DEF FetchApiParams
<1>10. ASSUME NEW t \in Threads, ReleaseCommandMutex(t) PROVE QuietInv'
  BY <1>0, <1>00, <1>10 DEF ReleaseCommandMutex
<1>11. ASSUME NEW t \in Threads, PollCallbackCommand(t) PROVE QuietInv'
  BY <1>0, <1>00, <1>11 DEF PollCallbackCommand
<1>12. ASSUME NEW t \in Threads, ReadPipe(t) PROVE QuietInv'
  BY <1>0, <1>00, <1>12 DEF ReadPipe
<1>13. ASSUME NEW t \in Threads, HandleIndication(t) PROVE QuietInv'
  BY <1>0, <1>00, <1>13, SMTT(40) DEF HandleIndication
<1>14. ASSUME NEW t \in Threads, BatchDone(t) PROVE QuietInv'
  BY <1>0, <1>00, <1>14 DEF BatchDone
<1>15. ASSUME PollNcpMsg PROVE QuietInv'
  <2>1. 1 \in DOMAIN fromNcp /\ fromNcp[1].kind = "response"
    <3>1. fromNcp \in Seq(Frames) /\ fromNcp # <<>>
      BY <1>0, <1>15 DEF PollNcpMsg
    <3>2. Len(fromNcp) \in Nat \ {0} /\ DOMAIN fromNcp = 1..Len(fromNcp)
      BY <3>1, EmptySeq, LenProperties
    <3> QED BY <3>2
  <2>2. responsePipe = <<>>
    BY <1>0, <2>1 DEF TransportInv, SingleExchange, ResponseOnLink
  <2>3. \A t \in Threads : pc[t] # "copy"
    BY <1>00, <2>1
  <2> QED BY <1>0, <1>00, <1>15, <2>2, <2>3 DEF PollNcpMsg
<1>16. ASSUME CpcRx PROVE QuietInv'
  BY <1>0, <1>00, <1>16, SMTT(40) DEF CpcRx
<1>17. ASSUME HandleResponse PROVE QuietInv'
  BY <1>0, <1>00, <1>17 DEF HandleResponse
<1>18. ASSUME AppendCallbackCommand PROVE QuietInv'
  BY <1>0, <1>00, <1>18 DEF AppendCallbackCommand
<1>19. ASSUME UnknownFrame PROVE QuietInv'
  BY <1>0, <1>00, <1>19 DEF UnknownFrame
<1>20. ASSUME NcpAnswer PROVE QuietInv'
  <2> DEFINE f == Response(Head(toNcp).id)
  <2>1. fromNcp \in Seq(Frames) /\ f \in Frames
    BY <1>0, <1>20, FrameTypes, Pop DEF NcpAnswer
  <2>2. f.kind = "response" /\ fromNcp' = Append(fromNcp, f)
    BY <1>20 DEF NcpAnswer, Response, Frame
  <2> HIDE DEF f
  <2>3. \A i \in DOMAIN fromNcp' : fromNcp'[i].kind = "response"
    BY <2>1, <2>2, EntryOfAppend
  <2>4. fromNcp' # <<>>
    BY <2>1, <2>2
  <2> QED BY <1>0, <1>00, <1>20, <2>3, <2>4 DEF NcpAnswer
<1>21. ASSUME NcpIndicate PROVE QuietInv'
  BY <1>0, <1>00, <1>21 DEF NcpIndicate
<1>22. ASSUME NcpStray PROVE QuietInv'
  BY <1>0, <1>00, <1>22 DEF NcpStray
<1>23. ASSUME ResetCrash PROVE QuietInv'
  BY <1>0, <1>00, <1>23 DEF ResetCrash
<1>24. ASSUME UNCHANGED vars PROVE QuietInv'
  BY <1>0, <1>00, <1>24 DEF vars
<1> HIDE DEF QuietLink, QuietInv, MutualExclusion, NoStaleExchange, InsideMutex, Dispatching,
        Awaited, TypeOK, Goto, Step, EnterCall, threadVars, queueVars, linkVars,
        pollerVars
<1> QED
  BY <1>1, <1>2, <1>3, <1>4, <1>5, <1>6, <1>7, <1>8, <1>9, <1>10, <1>11, <1>12,
     <1>13, <1>14, <1>15, <1>16, <1>17, <1>18, <1>19, <1>20, <1>21, <1>22, <1>23, <1>24
  DEF Next, ThreadStep, PollerStep, Environment, Stopped

(* When the NCP sends nothing but responses, every call that returns has   *)
(* fetched the response to its own command, for any number of threads and  *)
(* with commands lost, late or the daemon gone.                            *)
THEOREM OwnResponseHolds ==
  ASSUME QuietLink
  PROVE  Spec => []OwnResponse
<1>1. Init => QuietInv
  BY InvInit DEF Init, QuietInv
<1>2. QuietInv => OwnResponse
  BY DEF QuietInv, TransportInv, TypeOK, OwnResponse, NeverAnothersResponse, Response,
         Frame, Frames
<1> QED
  BY <1>1, <1>2, QuietStep, PTL DEF Spec

-----------------------------------------------------------------------------
(* The refinement of CommandApi.  A command that is lost would count as    *)
(* served, so the link is taken to lose none.                              *)
CallPhases == [t \in Threads |-> PhaseOf(t)]

(* A step that leaves every phase and the results alone is a stutter of    *)
(* the abstract calls.                                                     *)
LEMMA ApiStutter ==
  ASSUME \A t \in Threads : PhaseOf(t)' = PhaseOf(t), UNCHANGED <<myCall, fetched, calls>>
  PROVE  UNCHANGED Api!vars
<1>1. [t \in Threads |-> PhaseOf(t)]' = [t \in Threads |-> PhaseOf(t)]
  OBVIOUS
<1>2. [t \in Threads |-> fetched[t].id]' = [t \in Threads |-> fetched[t].id]
  OBVIOUS
<1> QED BY <1>1, <1>2 DEF Api!vars

(* The phases after a step that changes the phase of one thread.           *)
LEMMA OnePhaseChanges ==
  ASSUME NEW t \in Threads, NEW p, PhaseOf(t)' = p,
         \A u \in Threads \ {t} : PhaseOf(u)' = PhaseOf(u)
  PROVE  CallPhases' = [CallPhases EXCEPT ![t] = p]
<1>1. CallPhases' = [u \in Threads |-> PhaseOf(u)']
  BY DEF CallPhases
<1>2. [CallPhases EXCEPT ![t] = p] = [u \in Threads |-> IF u = t THEN p ELSE PhaseOf(u)]
  BY DEF CallPhases
<1> QED BY <1>1, <1>2

(* The thread that holds the mutex is the only one inside it, and the only *)
(* one a command on the link can come from.                                *)
LEMMA OneInside ==
  ASSUME QuietInv
  PROVE  /\ pc \in [Threads -> Labels]
         /\ \A t, u \in Threads : pc[t] \in InsideMutex /\ pc[u] \in InsideMutex => t = u
         /\ toNcp # <<>> => /\ lock \in Threads /\ pc[lock] \in {"wait", "late"}
                            /\ responsePipe = <<>>
<1>1. TypeOK /\ MutualExclusion /\ NoStaleExchange /\ SingleExchange
  BY DEF QuietInv, TransportInv
<1>2. pc \in [Threads -> Labels] /\ toNcp \in Seq(Frames)
  BY <1>1 DEF TypeOK
<1>3. ASSUME toNcp # <<>> PROVE lock \in Threads /\ pc[lock] \in {"wait", "late"}
  <2>1. 1 \in DOMAIN toNcp
    BY <1>2, <1>3
  <2> QED BY <1>1, <2>1 DEF NoStaleExchange, Awaited
<1>4. toNcp # <<>> => responsePipe = <<>>
  BY <1>1 DEF SingleExchange
<1>5. \A t, u \in Threads : pc[t] \in InsideMutex /\ pc[u] \in InsideMutex => t = u
  BY <1>1 DEF MutualExclusion
<1> QED BY <1>2, <1>3, <1>4, <1>5

(* A thread that enters a call is called.                                  *)
LEMMA CallPhase ==
  ASSUME QuietInv, NEW t \in Threads, pc[t] \in {"idle", "handle"}, EnterCall(t),
         UNCHANGED <<toNcp, fetched>>
  PROVE  Api!Next
<1>1. pc \in [Threads -> Labels]
  BY OneInside
<1>2. PhaseOf(t) = "out" /\ PhaseOf(t)' = "called"
  BY <1>1 DEF EnterCall, Goto, PhaseOf
<1>3. \A u \in Threads \ {t} : PhaseOf(u)' = PhaseOf(u)
  BY <1>1 DEF EnterCall, Goto, PhaseOf
<1>4. CallPhases' = [CallPhases EXCEPT ![t] = "called"]
  BY <1>2, <1>3, OnePhaseChanges
<1>5. [u \in Threads |-> fetched[u].id]' = [u \in Threads |-> fetched[u].id]
  OBVIOUS
<1>6. CallPhases[t] = "out"
  BY <1>2 DEF CallPhases
<1>7. Api!Call(t)
  BY <1>4, <1>5, <1>6 DEF EnterCall, CallPhases, Api!Call
<1> QED BY <1>7 DEF Api!Next

(* Every step of the transport is a step of the abstract calls or leaves   *)
(* them alone: a call is served when the NCP takes its command and returns *)
(* when it fetches its answer.                                             *)
LEMMA ApiStep ==
  ASSUME QuietLink, "lost" \notin Faults, QuietInv, [Next]_vars
  PROVE  [Api!Next]_(Api!vars)
<1> DEFINE Same == (\A t \in Threads : PhaseOf(t)' = PhaseOf(t))
                     /\ UNCHANGED <<myCall, fetched, calls>>
           Goal == Api!Next \/ UNCHANGED Api!vars
<1>0. Same => Goal
  BY ApiStutter
<1> HIDE DEF Goal
<1>00. /\ pc \in [Threads -> Labels]
       /\ \A t, u \in Threads : pc[t] \in InsideMutex /\ pc[u] \in InsideMutex => t = u
       /\ toNcp # <<>> => /\ lock \in Threads /\ pc[lock] \in {"wait", "late"}
                          /\ responsePipe = <<>>
  BY OneInside
<1>1. ASSUME NEW t \in Threads, StartCall(t) PROVE Goal
  BY <1>1, CallPhase DEF StartCall, linkVars, Goal
<1>2. ASSUME NEW t \in Threads, AcquireCommandMutex(t) PROVE Same
  BY <1>00, <1>2 DEF AcquireCommandMutex, Step, Goto, PhaseOf, linkVars
<1>3. ASSUME NEW t \in Threads, FormatCommand(t) PROVE Same
  BY <1>00, <1>3 DEF FormatCommand, Step, Goto, PhaseOf, linkVars
<1>4. ASSUME NEW t \in Threads, CpcTx(t) PROVE Same
  <2>1. toNcp' = Append(toNcp, apiCommandData) /\ toNcp' # <<>>
    <3>1. toNcp \in Seq(Frames) /\ apiCommandData \in Frames
      BY DEF QuietInv, TransportInv, TypeOK
    <3>2. toNcp' = Append(toNcp, apiCommandData)
      BY <1>4 DEF CpcTx
    <3> QED BY <3>1, <3>2
  <2>2. pc' = [pc EXCEPT ![t] = "wait"] /\ pc[t] = "transmit"
    BY <1>4 DEF CpcTx, Step, Goto
  <2>3. \A u \in Threads \ {t} : pc[u] \notin InsideMutex
    BY <1>00, <2>2 DEF InsideMutex
  <2>4. \A u \in Threads : PhaseOf(u)' = PhaseOf(u)
    BY <1>00, <2>1, <2>2, <2>3 DEF PhaseOf, InsideMutex
  <2> QED BY <1>4, <2>4 DEF CpcTx
<1>5. ASSUME NEW t \in Threads, WaitForResponse(t) PROVE Same
  BY <1>00, <1>5 DEF WaitForResponse, Step, Goto, PhaseOf, linkVars
<1>6. ASSUME NEW t \in Threads, WaitTimeout(t) PROVE Same
  BY <1>00, <1>6 DEF WaitTimeout, Step, Goto, PhaseOf, linkVars
<1>7. ASSUME NEW t \in Threads, LateRead(t) PROVE Same
  BY <1>7 DEF LateRead, PhaseOf, threadVars, linkVars
<1>8. ASSUME NEW t \in Threads, CopyResponse(t) PROVE Same
  BY <1>00, <1>8 DEF CopyResponse, Step, Goto, PhaseOf, linkVars
<1>9. ASSUME NEW t \in Threads, FetchApiParams(t) PROVE Goal
  <2>1. /\ pc[t] = "fetch" /\ pc' = [pc EXCEPT ![t] = "release"]
        /\ fetched' = [fetched EXCEPT ![t] = apiCommandData]
        /\ UNCHANGED <<toNcp, myCall, calls>>
    BY <1>9 DEF FetchApiParams, Step, Goto, linkVars
  <2>2. PhaseOf(t) = "served" /\ PhaseOf(t)' = "out"
    BY <1>00, <2>1 DEF PhaseOf
  <2>3. \A u \in Threads \ {t} : PhaseOf(u)' = PhaseOf(u)
    BY <1>00, <2>1 DEF PhaseOf
  <2>4. CallPhases' = [CallPhases EXCEPT ![t] = "out"] /\ CallPhases[t] = "served"
    BY <2>2, <2>3, OnePhaseChanges DEF CallPhases
  <2>5. apiCommandData.id = myCall[t]
    BY <2>1 DEF QuietInv, TransportInv, OwnBuffers
  <2>6. fetched \in [Threads -> Frames]
    BY DEF QuietInv, TransportInv, TypeOK
  <2>7. [u \in Threads |-> fetched[u].id]'
          = [[u \in Threads |-> fetched[u].id] EXCEPT ![t] = myCall[t]]
    BY <2>1, <2>5, <2>6
  <2>8. Api!Return(t)
    BY <2>1, <2>4, <2>7 DEF Api!Return, CallPhases
  <2> QED BY <2>8 DEF Api!Next, Goal
<1>10. ASSUME NEW t \in Threads, ReleaseCommandMutex(t) PROVE Same
  BY <1>00, <1>10 DEF ReleaseCommandMutex, Step, Goto, PhaseOf, linkVars
<1>11. ASSUME NEW t \in Threads, PollCallbackCommand(t) PROVE Same
  BY <1>00, <1>11 DEF PollCallbackCommand, Step, Goto, PhaseOf, linkVars
<1>12. ASSUME NEW t \in Threads, ReadPipe(t) PROVE Same
  BY <1>00, <1>12 DEF ReadPipe, Step, Goto, PhaseOf, linkVars
<1>13. ASSUME NEW t \in Threads, HandleIndication(t) PROVE Goal
  <2>1. CASE UNCHANGED <<pc, myCall, calls>>
    <3>1. Same
      BY <1>13, <2>1 DEF HandleIndication, PhaseOf, linkVars
    <3> QED BY <1>0, <3>1
  <2>2. CASE EnterCall(t)
    BY <1>13, <2>2, CallPhase DEF HandleIndication, linkVars, Goal
  <2> QED BY <1>13, <2>1, <2>2 DEF HandleIndication
<1>14. ASSUME NEW t \in Threads, BatchDone(t) PROVE Same
  BY <1>00, <1>14 DEF BatchDone, Step, Goto, PhaseOf, linkVars
<1>15. ASSUME PollerStep PROVE Goal
  <2>1. UNCHANGED <<pc, toNcp, myCall, fetched, calls>>
    BY <1>15 DEF PollerStep, PollNcpMsg, CpcRx, HandleResponse, AppendCallbackCommand,
                 UnknownFrame, threadVars, linkVars
  <2>2. Same
    BY <2>1 DEF PhaseOf
  <2> QED BY <1>0, <2>2
<1>16. ASSUME NcpAnswer PROVE Goal
  <2>1. toNcp # <<>> /\ UNCHANGED <<pc, myCall, fetched, calls>>
    BY <1>16 DEF NcpAnswer, threadVars
  <2>2. PICK t \in Threads : pc[t] \in {"wait", "late"}
    BY <1>00, <2>1
  <2>3. toNcp' = <<>>
    <3>1. toNcp \in Seq(Frames) /\ Len(toNcp) = 1
      BY <2>1 DEF QuietInv, TransportInv, TypeOK, SingleExchange
    <3>2. toNcp' = Tail(toNcp)
      BY <1>16 DEF NcpAnswer
    <3> QED BY <3>1, <3>2, TailOfOne
  <2>4. PhaseOf(t) = "called" /\ PhaseOf(t)' = "served"
    BY <2>1, <2>2, <2>3 DEF PhaseOf
  <2>5. \A u \in Threads \ {t} : pc[u] \notin InsideMutex
    BY <1>00, <2>2 DEF InsideMutex
  <2>6. \A u \in Threads \ {t} : PhaseOf(u)' = PhaseOf(u) /\ PhaseOf(u) # "served"
    BY <1>00, <2>1, <2>5 DEF PhaseOf, InsideMutex
  <2>7. CallPhases' = [CallPhases EXCEPT ![t] = "served"]
    BY <2>2, <2>4, <2>6, OnePhaseChanges
  <2>8. CallPhases[t] = "called" /\ \A u \in Threads : CallPhases[u] # "served"
    BY <2>2, <2>4, <2>6 DEF CallPhases
  <2>9. [u \in Threads |-> fetched[u].id]' = [u \in Threads |-> fetched[u].id]
    BY <2>1
  <2>10. Api!Serve(t)
    BY <2>1, <2>7, <2>8, <2>9 DEF Api!Serve, CallPhases
  <2> QED BY <2>2, <2>10 DEF Api!Next, Goal
<1>17. ASSUME NcpIndicate \/ NcpStray \/ ResetCrash \/ UNCHANGED vars PROVE Goal
  <2>1. UNCHANGED <<pc, toNcp, myCall, fetched, calls>>
    BY <1>17 DEF NcpIndicate, NcpStray, ResetCrash, vars, threadVars, linkVars
  <2>2. Same
    BY <2>1 DEF PhaseOf
  <2> QED BY <1>0, <2>2
<1>18. ASSUME NEW t \in Threads, ThreadStep(t) PROVE Goal
  <2> HIDE DEF Same
  <2> QED
    BY <1>0, <1>2, <1>3, <1>4, <1>5, <1>6, <1>7, <1>8, <1>9, <1>10, <1>11, <1>12,
       <1>13, <1>14, <1>18 DEF ThreadStep
<1>19. Goal
  BY <1>1, <1>15, <1>16, <1>17, <1>18 DEF Next, Environment, Stopped
<1> QED BY <1>19 DEF Goal

(* As long as the NCP sends nothing but responses and no command is lost,  *)
(* what the threads, the poll thread and the pipes do together is a        *)
(* sequence of calls served one at a time, each returning its own answer,  *)
(* also when answers are late or the daemon goes away.                     *)
THEOREM CallsAreSerialised ==
  ASSUME QuietLink, "lost" \notin Faults
  PROVE  Spec => Api!Spec
<1>1. Init => QuietInv
  BY InvInit DEF Init, QuietInv
<1>2. Init => Api!Init
  <2> SUFFICES ASSUME Init PROVE Api!Init
    OBVIOUS
  <2>1. \A t \in Threads : PhaseOf(t) = "out" /\ fetched[t].id = 0
    BY DEF Init, PhaseOf, Blank, Frame
  <2> QED BY <2>1 DEF Init, Api!Init
<1>3. QuietInv /\ [Next]_vars => [Api!Next]_(Api!vars)
  BY ApiStep
<1>4. QuietInv /\ [Next]_vars => QuietInv'
  BY QuietStep
<1> QED
  BY <1>1, <1>2, <1>3, <1>4, PTL DEF Spec, Api!Spec
=============================================================================
