---------------------------- MODULE EventStream ----------------------------
(***************************************************************************)
(* What the tracer thread promises the consumers of the Event Channel     *)
(* (spec.md sections 4.5, 6 and 8): it spawns the root child and sends    *)
(* RootChildSpawn first, then exec and exit events of the traced tree,   *)
(* and when the root exits it sends the root's ProcessExit followed by    *)
(* RootChildExit, stops sending and returns Ok.  A failure to spawn or to *)
(* keep the session up ends the thread with Err.                          *)
(*                                                                         *)
(* The tracer (src/tracer.rs) is not part of the sources modelled here:   *)
(* this module, like TracerEngine, is written from the spec.             *)
(*                                                                         *)
(* sent is every event the thread has sent, in order; the channel is the  *)
(* suffix of it that its receiver has not taken yet.                      *)
(***************************************************************************)
EXTENDS Naturals, Sequences

CONSTANTS
    Pids,       \* the pids the kernel may hand out
    Root,       \* the pid of the root child
    ExitCodes,  \* exit statuses
    MaxEvents   \* bound on the events sent before the root exits

ASSUME StreamAssumption ==
    /\ Root \in Pids
    /\ 0 \in ExitCodes
    /\ ExitCodes \subseteq Nat
    /\ MaxEvents \in Nat

VARIABLES
    sent,    \* the TracerEvents sent on the channel, in order
    tphase   \* "spawning", "tracing", "returning", "ok" or "err"

streamVars == <<sent, tphase>>

(* A TracerEvent: RootChildSpawn ("spawn"), an exec completed ("exec"),   *)
(* ProcessExit ("exit") or RootChildExit ("rootexit"); code is the exit   *)
(* status where the event carries one, and 0 otherwise.                   *)
Ev(k, p, c) == [kind |-> k, pid |-> p, code |-> c]
EventKinds == {"spawn", "exec", "exit", "rootexit"}
Event == [kind : EventKinds, pid : Pids, code : ExitCodes]
SpawnEv == Ev("spawn", Root, 0)

-----------------------------------------------------------------------------
StreamInit ==
    /\ sent = <<>>
    /\ tphase = "spawning"

(* The root child is spawned and announced. *)
SpawnRootA ==
    /\ tphase = "spawning"
    /\ sent' = <<SpawnEv>>
    /\ tphase' = "tracing"

(* Spawning or attaching fails, or the session cannot be kept up: the   *)
(* thread returns Err without a RootChildExit.                           *)
FailA ==
    /\ tphase \in {"spawning", "tracing"}
    /\ tphase' = "err"
    /\ UNCHANGED sent

(* An exec of any traced process, or the exit of one that is not the root. *)
EmitA ==
    /\ tphase = "tracing"
    /\ Len(sent) < MaxEvents
    /\ \E p \in Pids, c \in ExitCodes :
          \/ sent' = Append(sent, Ev("exec", p, 0))
          \/ p # Root /\ sent' = Append(sent, Ev("exit", p, c))
    /\ UNCHANGED tphase

(* The root exits: its ProcessExit, then RootChildExit, and the loop ends. *)
RootExitA ==
    /\ tphase = "tracing"
    /\ \E c \in ExitCodes :
          sent' = sent \o <<Ev("exit", Root, c), Ev("rootexit", Root, c)>>
    /\ tphase' = "returning"

(* start_root_process returns Ok, dropping the tracer and its output sink. *)
ReturnA ==
    /\ tphase = "returning"
    /\ tphase' = "ok"
    /\ UNCHANGED sent

StreamNext == SpawnRootA \/ FailA \/ EmitA \/ RootExitA \/ ReturnA

StreamSpec == StreamInit /\ [][StreamNext]_streamVars

-----------------------------------------------------------------------------
StreamTypeOK ==
    /\ sent \in Seq(Event)
    /\ tphase \in {"spawning", "tracing", "returning", "ok", "err"}

(* The consumer contract of spec.md 6 and 8: RootChildSpawn comes first   *)
(* and only first; RootChildExit is never followed by another event; and *)
(* the thread has finished its loop normally exactly when the last event *)
(* sent is RootChildExit, so a channel that closes after Ok always ends  *)
(* with it.                                                               *)
StreamContract ==
    /\ sent # <<>> => sent[1] = SpawnEv
    /\ \A i \in 2..Len(sent) : sent[i].kind # "spawn"
    /\ \A i \in 1..Len(sent) - 1 : sent[i].kind # "rootexit"
    /\ tphase \in {"returning", "ok"} <=> (sent # <<>> /\ sent[Len(sent)].kind = "rootexit")
=============================================================================
