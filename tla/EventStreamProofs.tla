------------------------- MODULE EventStreamProofs -------------------------
(***************************************************************************)
(* Proofs about the Event Channel contract EventStream, for every set of  *)
(* pids, exit codes and bound.                                            *)
(***************************************************************************)
EXTENDS EventStream, TLAPS

(* The contract with the facts it rests on: the events are typed, and a  *)
(* thread past spawning (other than by failing) has sent RootChildSpawn.  *)
StreamInv ==
    /\ StreamTypeOK
    /\ StreamContract
    /\ tphase \in {"tracing", "returning", "ok"} => sent # <<>>

(* Appending events keeps the earlier ones and puts the new ones last. *)
LEMMA AppendOne ==
    ASSUME NEW s \in Seq(Event), NEW e \in Event
    PROVE  /\ Append(s, e) \in Seq(Event)
           /\ Len(Append(s, e)) = Len(s) + 1
           /\ \A i \in 1..Len(s) : Append(s, e)[i] = s[i]
           /\ Append(s, e)[Len(s) + 1] = e
OBVIOUS

LEMMA AppendTwo ==
    ASSUME NEW s \in Seq(Event), NEW e \in Event, NEW f \in Event
    PROVE  /\ s \o <<e, f>> \in Seq(Event)
           /\ Len(s \o <<e, f>>) = Len(s) + 2
           /\ \A i \in 1..Len(s) : (s \o <<e, f>>)[i] = s[i]
           /\ (s \o <<e, f>>)[Len(s) + 1] = e
           /\ (s \o <<e, f>>)[Len(s) + 2] = f
OBVIOUS

LEMMA StreamInvInit == StreamInit => StreamInv
BY StreamAssumption DEF StreamInit, StreamInv, StreamTypeOK, StreamContract

LEMMA StreamInvStep == StreamInv /\ [StreamNext]_streamVars => StreamInv'
<1> SUFFICES ASSUME StreamInv, [StreamNext]_streamVars PROVE StreamInv'
  OBVIOUS
<1>0. /\ sent \in Seq(Event)
      /\ tphase \in {"tracing", "returning", "ok"} => sent # <<>>
      /\ tphase = "tracing" => sent[Len(sent)].kind # "rootexit"
      /\ \A i \in 1..Len(sent) - 1 : sent[i].kind # "rootexit"
  BY DEF StreamInv, StreamTypeOK, StreamContract
<1>1. CASE SpawnRootA
  <2>1. SpawnEv \in Event
    BY StreamAssumption DEF SpawnEv, Ev, Event, EventKinds
  <2>2. QED
    BY <1>1, <2>1 DEF SpawnRootA, StreamInv, StreamTypeOK, StreamContract, SpawnEv, Ev
<1>2. CASE FailA
  BY <1>2 DEF FailA, StreamInv, StreamTypeOK, StreamContract
<1>3. CASE EmitA
  <2>1. PICK p \in Pids, c \in ExitCodes :
          \/ sent' = Append(sent, Ev("exec", p, 0))
          \/ p # Root /\ sent' = Append(sent, Ev("exit", p, c))
    BY <1>3 DEF EmitA
  <2>2. tphase = "tracing" /\ tphase' = tphase
    BY <1>3 DEF EmitA
  <2> DEFINE e == IF sent' = Append(sent, Ev("exec", p, 0))
                  THEN Ev("exec", p, 0) ELSE Ev("exit", p, c)
  <2>3. sent' = Append(sent, e) /\ e.kind \in {"exec", "exit"}
    BY <2>1 DEF Ev
  <2>4. e \in Event
    BY StreamAssumption DEF Ev, Event, EventKinds
  <2>5. sent # <<>> /\ sent[Len(sent)].kind # "rootexit"
    BY <1>0, <2>2
  <2>6. QED
    BY <1>0, <2>2, <2>3, <2>4, <2>5, AppendOne
       DEF StreamInv, StreamTypeOK, StreamContract
<1>4. CASE RootExitA
  <2>1. PICK c \in ExitCodes :
          sent' = sent \o <<Ev("exit", Root, c), Ev("rootexit", Root, c)>>
    BY <1>4 DEF RootExitA
  <2>2. tphase = "tracing" /\ tphase' = "returning"
    BY <1>4 DEF RootExitA
  <2>3. Ev("exit", Root, c) \in Event /\ Ev("rootexit", Root, c) \in Event
    BY StreamAssumption DEF Ev, Event, EventKinds
  <2>4. sent # <<>> /\ sent[Len(sent)].kind # "rootexit"
    BY <1>0, <2>2
  <2>5. QED
    BY <1>0, <2>1, <2>2, <2>3, <2>4, AppendTwo
       DEF StreamInv, StreamTypeOK, StreamContract, Ev
<1>5. CASE ReturnA
  BY <1>5 DEF ReturnA, StreamInv, StreamTypeOK, StreamContract
<1>6. CASE UNCHANGED streamVars
  BY <1>6 DEF streamVars, StreamInv, StreamTypeOK, StreamContract
<1>7. QED
  BY <1>1, <1>2, <1>3, <1>4, <1>5, <1>6 DEF StreamNext

(* The contract's actions keep the ordering of spec sections 6 and 8:     *)
(* RootChildSpawn first, RootChildExit last and only once.  Cited by the  *)
(* proof that the tracer engine's wait loop keeps it.                    *)
LEMMA StreamContractInvariant == StreamSpec => []StreamContract
<1>1. StreamSpec => []StreamInv
  BY StreamInvInit, StreamInvStep, PTL DEF StreamSpec
<1>2. QED
  BY <1>1, PTL DEF StreamInv
=============================================================================
