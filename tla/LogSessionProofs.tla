-------------------------- MODULE LogSessionProofs --------------------------
(***************************************************************************)
(* Proofs about log mode (main.rs 95-103) composed with the tracer        *)
(* thread, for every set of pids, exit codes and bound.                   *)
(***************************************************************************)
EXTENDS LogSession, EventStreamProofs, TLAPS

(* The stream invariant, main's types, and: main reads the channel only  *)
(* after the thread returned Ok, and fails only after it returned Err;   *)
(* the thread keeps its result.                                          *)
LogInv ==
    /\ StreamInv
    /\ TypeOK
    /\ mphase = "joining" => rcvd = 0
    /\ mphase \in {"draining", "exited"} => tphase = "ok"
    /\ mphase = "failed" => tphase = "err"
    /\ ExitReflectsSession

LEMMA LogInvInit == Init => LogInv
<1> SUFFICES ASSUME Init PROVE LogInv
  OBVIOUS
<1>1. StreamInv
  BY StreamInvInit DEF Init
<1>2. QED
  BY <1>1, StreamAssumption DEF Init, StreamInit, LogInv, TypeOK, StreamTypeOK,
                                ExitReflectsSession

(* A tracer step leaves main alone, and is impossible once the thread    *)
(* has returned, so main is still joining.                              *)
LEMMA TracerStepInv == LogInv /\ TracerStep => LogInv'
<1> SUFFICES ASSUME LogInv, TracerStep PROVE LogInv'
  OBVIOUS
<1>1. StreamInv'
  BY StreamInvStep DEF LogInv, TracerStep
<1>2. tphase \notin {"ok", "err"}
  BY DEF TracerStep, StreamNext, SpawnRootA, FailA, EmitA, RootExitA, ReturnA
<1>3. mphase = "joining" /\ rcvd = 0
  BY <1>2 DEF LogInv, TypeOK
<1>4. QED
  BY <1>1, <1>3 DEF LogInv, TracerStep, mainVars, TypeOK, StreamInv,
                    StreamTypeOK, ExitReflectsSession

LEMMA JoinInv == LogInv /\ Join => LogInv'
BY DEF LogInv, Join, StreamInv, StreamTypeOK, StreamContract, streamVars, TypeOK,
       ExitReflectsSession

(* Recv takes the next event; if it is RootChildExit it is the last one  *)
(* sent, and main exits with its code.                                   *)
LEMMA RecvInv == LogInv /\ Recv => LogInv'
<1> SUFFICES ASSUME LogInv, Recv PROVE LogInv'
  OBVIOUS
<1>0. /\ sent \in Seq(Event)
      /\ rcvd \in 0..Len(sent) /\ rcvd < Len(sent)
      /\ tphase = "ok" /\ mphase = "draining"
      /\ \A i \in 1..Len(sent) - 1 : sent[i].kind # "rootexit"
  BY DEF LogInv, Recv, TypeOK, StreamInv, StreamTypeOK, StreamContract
<1>1. CASE sent[rcvd + 1].kind = "rootexit"
  <2>1. rcvd + 1 = Len(sent)
    BY <1>0, <1>1
  <2>2. sent[rcvd + 1] \in Event
    BY <1>0
  <2>3. QED
    BY <1>0, <1>1, <2>1, <2>2 DEF LogInv, Recv, TypeOK, StreamInv, StreamTypeOK,
                                  StreamContract, streamVars, ExitReflectsSession, Event
<1>2. CASE sent[rcvd + 1].kind # "rootexit"
  BY <1>0, <1>2 DEF LogInv, Recv, TypeOK, StreamInv, StreamTypeOK, StreamContract,
                    streamVars, ExitReflectsSession
<1>3. QED
  BY <1>1, <1>2

LEMMA LogInvStep == LogInv /\ [Next]_vars => LogInv'
<1> SUFFICES ASSUME LogInv, [Next]_vars PROVE LogInv'
  OBVIOUS
<1>1. CASE UNCHANGED vars
  BY <1>1 DEF vars, LogInv, StreamInv, StreamTypeOK, StreamContract, TypeOK,
              ExitReflectsSession
<1>2. QED
  BY <1>1, TracerStepInv, JoinInv, RecvInv DEF Next

(* In log mode main calls process::exit only after the tracer thread has *)
(* returned Ok, so its output writer has been dropped and flushed, and   *)
(* it exits with the root's status carried by the last event,            *)
(* RootChildExit, for every instance.                                    *)
THEOREM ExitReflectsSessionInvariant == Spec => []ExitReflectsSession
<1>1. Init /\ [][Next]_vars => []LogInv
  BY LogInvInit, LogInvStep, PTL
<1>2. QED
  BY <1>1, PTL DEF Spec, LogInv
=============================================================================
