------------------------- MODULE TracerEngineProofs -------------------------
(***************************************************************************)
(* Proofs about the Tracer Engine: its table invariant, and that it        *)
(* implements the Event Channel contract EventStream under the mapping    *)
(* sent <- events, tphase <- tphaseBar, for every set of pids, exit codes *)
(* and bound.                                                              *)
(***************************************************************************)
EXTENDS TracerEngine, TLAPS

ESP == INSTANCE EventStreamProofs WITH sent <- events, tphase <- tphaseBar

(* Type, the table invariant, and: before the root is spawned no pid is *)
(* tracked and no event has been pushed.                                 *)
EngineInv ==
    /\ TypeOK
    /\ ExecDataOnlyInSyscall
    /\ loop = "start" => stage[Root] = Absent /\ events = <<>>

LEMMA EventsTyped ==
    ASSUME NEW k \in ES!EventKinds, NEW p \in Pids, NEW c \in ExitCodes
    PROVE  Ev(k, p, c) \in ES!Event
BY DEF Ev, ES!Ev, ES!Event

LEMMA EngineInvInit == Init => EngineInv
<1> SUFFICES ASSUME Init PROVE EngineInv
  OBVIOUS
<1>1. events \in Seq(ES!Event)
  BY DEF Init
<1>2. QED
  BY <1>1, EngineAssumption DEF Init, EngineInv, TypeOK, ExecDataOnlyInSyscall, Absent

LEMMA EngineInvStep == EngineInv /\ [Next]_vars => EngineInv'
<1> SUFFICES ASSUME EngineInv, [Next]_vars PROVE EngineInv'
  OBVIOUS
<1>0. /\ stage \in [Pids -> Stages \cup {Absent}]
      /\ execData \in [Pids -> BOOLEAN]
      /\ events \in Seq(ES!Event)
      /\ \A q \in Pids : execData[q] <=> stage[q] = "SyscallEntered"
      /\ loop = "start" => stage[Root] = Absent /\ events = <<>>
  BY DEF EngineInv, TypeOK, ExecDataOnlyInSyscall
<1>1. CASE SpawnRoot
  <2>1. Ev("spawn", Root, 0) \in ES!Event
    BY EngineAssumption, EventsTyped DEF ES!EventKinds
  <2>2. events' \in Seq(ES!Event)
    BY <1>1, <2>1 DEF SpawnRoot
  <2>3. stage' \in [Pids -> Stages \cup {Absent}]
    BY <1>0, <1>1, EngineAssumption DEF SpawnRoot, Stages
  <2>4. ~execData[Root]
    BY <1>0, <1>1, EngineAssumption DEF SpawnRoot, Absent
  <2>5. ExecDataOnlyInSyscall'
    BY <1>0, <1>1, <2>4, EngineAssumption DEF SpawnRoot, ExecDataOnlyInSyscall
  <2>6. QED
    BY <1>0, <1>1, <2>2, <2>3, <2>5 DEF SpawnRoot, EngineInv, TypeOK
<1>2. CASE SpawnFails \/ SessionFails \/ Return
  BY <1>2 DEF SpawnFails, SessionFails, Return, EngineInv, TypeOK,
              ExecDataOnlyInSyscall
<1>3. ASSUME NEW p \in Pids, NEW c \in Pids, Fork(p, c) PROVE EngineInv'
  BY <1>0, <1>3 DEF Fork, EngineInv, TypeOK, ExecDataOnlyInSyscall, Stages, Absent
<1>4. ASSUME NEW p \in Pids, ExecEnter(p) PROVE EngineInv'
  BY <1>0, <1>4 DEF ExecEnter, EngineInv, TypeOK, ExecDataOnlyInSyscall, Stages
<1>5. ASSUME NEW p \in Pids, ExecExit(p) PROVE EngineInv'
  <2>1. Ev("exec", p, 0) \in ES!Event
    BY EngineAssumption, EventsTyped DEF ES!EventKinds
  <2>2. QED
    BY <1>0, <1>5, <2>1 DEF ExecExit, EngineInv, TypeOK, ExecDataOnlyInSyscall, Stages
<1>6. ASSUME NEW p \in Pids, ExitNotify(p) PROVE EngineInv'
  <2>1. PICK c \in ExitCodes :
          events' = IF p = Root
                    THEN events \o <<Ev("exit", p, c), Ev("rootexit", p, c)>>
                    ELSE Append(events, Ev("exit", p, c))
    BY <1>6 DEF ExitNotify
  <2>2. Ev("exit", p, c) \in ES!Event /\ Ev("rootexit", p, c) \in ES!Event
    BY EventsTyped DEF ES!EventKinds
  <2>3. events' \in Seq(ES!Event)
    BY <1>0, <2>1, <2>2
  <2>4. QED
    BY <1>0, <1>6, <2>3 DEF ExitNotify, EngineInv, TypeOK, ExecDataOnlyInSyscall,
                            Stages, Absent
<1>7. CASE UNCHANGED vars
  BY <1>7 DEF vars, EngineInv, TypeOK, ExecDataOnlyInSyscall
<1>8. QED
  BY <1>1, <1>2, <1>3, <1>4, <1>5, <1>6, <1>7 DEF Next

(* Spec section 3, for every instance: a buffered ExecData exists exactly *)
(* while its pid is between the syscall-entry and the syscall-exit of an  *)
(* exec, also for a pid that is reused after an exit removed its entry.   *)
THEOREM ExecDataInvariant == Spec => []ExecDataOnlyInSyscall
<1>1. Spec => []EngineInv
  BY EngineInvInit, EngineInvStep, PTL DEF Spec
<1>2. QED
  BY <1>1, PTL DEF EngineInv

(* Every state the wait loop reaches is well typed: the table maps every *)
(* pid to a stage or Absent, and the events pushed are TracerEvents.     *)
THEOREM TypeCorrect == Spec => []TypeOK
<1>1. Spec => []EngineInv
  BY EngineInvInit, EngineInvStep, PTL DEF Spec
<1>2. QED
  BY <1>1, PTL DEF EngineInv

-----------------------------------------------------------------------------
(* Each step of the wait loop is a step of EventStream under the mapping, *)
(* or leaves the events and the mapped phase alone.                      *)
LEMMA StepRefines == TypeOK /\ [Next]_vars => [ES!StreamNext]_ES!streamVars
<1> SUFFICES ASSUME TypeOK, [Next]_vars PROVE [ES!StreamNext]_ES!streamVars
  OBVIOUS
<1>0. events \in Seq(ES!Event) /\ loop \in {"start", "waiting", "broken", "returned"}
  BY DEF TypeOK
<1>1. CASE SpawnRoot
  BY <1>1 DEF SpawnRoot, ES!StreamNext, ES!SpawnRootA, tphaseBar, LoopPhase, ES!SpawnEv, Ev
<1>2. CASE SpawnFails
  BY <1>2 DEF SpawnFails, ES!StreamNext, ES!FailA, tphaseBar, LoopPhase
<1>3. CASE SessionFails
  BY <1>3 DEF SessionFails, ES!StreamNext, ES!FailA, tphaseBar, LoopPhase
<1>4. CASE Return
  BY <1>4 DEF Return, ES!StreamNext, ES!ReturnA, tphaseBar, LoopPhase
<1>5. ASSUME NEW p \in Pids, NEW c \in Pids, Fork(p, c)
      PROVE  [ES!StreamNext]_ES!streamVars
  BY <1>5 DEF Fork, ES!streamVars, tphaseBar, LoopPhase
<1>6. ASSUME NEW p \in Pids, ExecEnter(p) PROVE [ES!StreamNext]_ES!streamVars
  BY <1>6 DEF ExecEnter, ES!streamVars, tphaseBar, LoopPhase
<1>7. ASSUME NEW p \in Pids, ExecExit(p) PROVE [ES!StreamNext]_ES!streamVars
  <2>1. ES!EmitA
    BY <1>7, EngineAssumption DEF ExecExit, ES!EmitA, tphaseBar, LoopPhase, Ev
  <2>2. QED
    BY <2>1 DEF ES!StreamNext
<1>8. ASSUME NEW p \in Pids, ExitNotify(p) PROVE [ES!StreamNext]_ES!streamVars
  <2>1. PICK c \in ExitCodes :
          events' = IF p = Root
                    THEN events \o <<Ev("exit", p, c), Ev("rootexit", p, c)>>
                    ELSE Append(events, Ev("exit", p, c))
    BY <1>8 DEF ExitNotify
  <2>2. CASE p = Root
    <3>1. ES!RootExitA
      BY <1>8, <2>1, <2>2 DEF ExitNotify, ES!RootExitA, tphaseBar, LoopPhase, Ev
    <3>2. QED
      BY <3>1 DEF ES!StreamNext
  <2>3. CASE p # Root
    <3>1. ES!EmitA
      BY <1>8, <2>1, <2>3 DEF ExitNotify, ES!EmitA, tphaseBar, LoopPhase, Ev
    <3>2. QED
      BY <3>1 DEF ES!StreamNext
  <2>4. QED
    BY <2>2, <2>3
<1>9. CASE UNCHANGED vars
  BY <1>9 DEF vars, ES!streamVars, tphaseBar, LoopPhase
<1>10. QED
  BY <1>1, <1>2, <1>3, <1>4, <1>5, <1>6, <1>7, <1>8, <1>9 DEF Next

(* The wait loop implements the consumer contract: every behaviour of    *)
(* the Tracer Engine, seen through the mapping, is one of EventStream.   *)
THEOREM Refinement == Spec => ImplementsEventStream
<1>1. Init => ES!StreamInit
  BY DEF Init, ES!StreamInit, tphaseBar, LoopPhase
<1>2. Spec => []TypeOK
  BY EngineInvInit, EngineInvStep, PTL DEF Spec, EngineInv
<1>3. QED
  BY <1>1, <1>2, StepRefines, PTL DEF Spec, ImplementsEventStream, ES!StreamSpec

(* The Tracer Engine keeps the consumer contract of spec sections 6 and  *)
(* 8: RootChildSpawn first, RootChildExit last and once, and sent before *)
(* start_root_process returns Ok.                                        *)
THEOREM EngineStreamContract == Spec => []ES!StreamContract
<1>0. ESP!StreamAssumption
  BY EngineAssumption DEF ESP!StreamAssumption
<1>1. ESP!StreamInit <=> ES!StreamInit
  BY DEF ESP!StreamInit, ES!StreamInit
<1>2. [ESP!StreamNext]_ESP!streamVars <=> [ES!StreamNext]_ES!streamVars
  BY DEF ESP!StreamNext, ES!StreamNext, ESP!streamVars, ES!streamVars,
         ESP!SpawnRootA, ES!SpawnRootA, ESP!FailA, ES!FailA, ESP!EmitA, ES!EmitA,
         ESP!RootExitA, ES!RootExitA, ESP!ReturnA, ES!ReturnA,
         ESP!SpawnEv, ES!SpawnEv, ESP!Ev, ES!Ev
<1>3. ESP!StreamContract <=> ES!StreamContract
  BY DEF ESP!StreamContract, ES!StreamContract, ESP!SpawnEv, ES!SpawnEv, ESP!Ev, ES!Ev
<1>4. ES!StreamSpec => ESP!StreamSpec
  BY <1>1, <1>2, PTL DEF ES!StreamSpec, ESP!StreamSpec
<1>5. []ESP!StreamContract => []ES!StreamContract
  BY <1>3, PTL
<1>6. ESP!StreamSpec => []ESP!StreamContract
  BY <1>0, ESP!StreamContractInvariant
<1>7. QED
  BY <1>4, <1>5, <1>6, Refinement, PTL DEF ImplementsEventStream
=============================================================================
