----------------------------- MODULE CommandApi -----------------------------
(***************************************************************************)
(* What the Connect API promises to the application threads of the host    *)
(* (README.md:50-55): every function is a synchronous remote call.  The    *)
(* NCP serves one command at a time, each at most once and only between    *)
(* the call and its return, and what a call returns is the answer to that  *)
(* very call.                                                              *)
(***************************************************************************)
EXTENDS Naturals

CONSTANTS Threads, MaxCalls

VARIABLES
  phase,    \* "out" of the library, "called", or "served" by the NCP
  call,     \* number of the last call of each thread
  answer,   \* number of the call whose answer each thread got last
  count     \* calls made so far

vars == <<phase, call, answer, count>>

Init ==
  /\ phase = [t \in Threads |-> "out"]
  /\ call = [t \in Threads |-> 0]
  /\ answer = [t \in Threads |-> 0]
  /\ count = 0

Call(t) ==
  /\ phase[t] = "out"
  /\ count < MaxCalls
  /\ count' = count + 1
  /\ call' = [call EXCEPT ![t] = count + 1]
  /\ phase' = [phase EXCEPT ![t] = "called"]
  /\ UNCHANGED answer

Serve(t) ==
  /\ phase[t] = "called"
  /\ \A u \in Threads : phase[u] # "served"
  /\ phase' = [phase EXCEPT ![t] = "served"]
  /\ UNCHANGED <<call, answer, count>>

Return(t) ==
  /\ phase[t] = "served"
  /\ phase' = [phase EXCEPT ![t] = "out"]
  /\ answer' = [answer EXCEPT ![t] = call[t]]
  /\ UNCHANGED <<call, count>>

Next == \E t \in Threads : Call(t) \/ Serve(t) \/ Return(t)

(* Nobody has to call, but a call is served and returns.                   *)
Fairness == \A t \in Threads : WF_vars(Serve(t)) /\ WF_vars(Return(t))

Spec == Init /\ [][Next]_vars
FairSpec == Spec /\ Fairness
=============================================================================
