---------------------------- MODULE TracerEngine ----------------------------
(***************************************************************************)
(* The Tracer Engine's wait loop and its Process State Table (spec.md 3,  *)
(* 4.3 and 4.5), as the tracer thread that main spawns runs it:           *)
(* start_root_process spawns the root child, then takes one kernel        *)
(* notification at a time, advances the pid's lifecycle stage, pushes    *)
(* the events of that step on the Event Channel, and breaks out of the   *)
(* loop when the root exits.                                             *)
(*                                                                         *)
(* src/tracer.rs is not among the modelled sources: every definition here *)
(* is written from the spec.  The decoded ExecData is abstracted to       *)
(* whether the entry-time decode is buffered; non-exec syscall stops,     *)
(* which leave the table as it is, are stuttering steps.                 *)
(***************************************************************************)
EXTENDS Naturals, Sequences

CONSTANTS
    Pids,       \* the pids the kernel may hand out
    Root,       \* the pid of the root child
    ExitCodes,  \* exit statuses
    MaxEvents   \* bound on the events pushed before the root exits

ASSUME EngineAssumption ==
    /\ Root \in Pids
    /\ 0 \in ExitCodes
    /\ ExitCodes \subseteq Nat
    /\ MaxEvents \in Nat

VARIABLES
    stage,     \* the Process State Table: pid -> lifecycle stage or Absent
    execData,  \* pid -> whether its entry-time ExecData is buffered
    events,    \* the TracerEvents pushed on the channel, in order
    loop,      \* "start", "waiting", "broken" or "returned"
    result     \* the Result of start_root_process: "none", "ok" or "err"

vars == <<stage, execData, events, loop, result>>

Absent == "Absent"
Stages == {"SpawnedNotExeced", "SyscallEntered", "AwaitingExit"}

(* The refinement mapping: the consumer sees the events pushed, and the *)
(* thread's phase, which the loop's position and result determine.      *)
LoopPhase == [start |-> "spawning", waiting |-> "tracing", broken |-> "returning"]
tphaseBar == IF loop = "returned" THEN result ELSE LoopPhase[loop]

ES == INSTANCE EventStream WITH sent <- events, tphase <- tphaseBar

Ev(k, p, c) == ES!Ev(k, p, c)

-----------------------------------------------------------------------------
Init ==
    /\ stage = [p \in Pids |-> Absent]
    /\ execData = [p \in Pids |-> FALSE]
    /\ events = <<>>
    /\ loop = "start"
    /\ result = "none"

(* Spawn the root child and announce it. *)
SpawnRoot ==
    /\ loop = "start"
    /\ stage' = [stage EXCEPT ![Root] = "SpawnedNotExeced"]
    /\ events' = <<Ev("spawn", Root, 0)>>
    /\ loop' = "waiting"
    /\ UNCHANGED <<execData, result>>

(* SpawnError or AttachError: fatal, returned at once to the caller. *)
SpawnFails ==
    /\ loop = "start"
    /\ loop' = "returned"
    /\ result' = "err"
    /\ UNCHANGED <<stage, execData, events>>

(* A fork/clone notification: a new entry for the child, which starts   *)
(* before its first exec.  A process stopped inside exec cannot fork.   *)
Fork(p, c) ==
    /\ loop = "waiting"
    /\ stage[p] \in {"SpawnedNotExeced", "AwaitingExit"}
    /\ stage[c] = Absent
    /\ stage' = [stage EXCEPT ![c] = "SpawnedNotExeced"]
    /\ UNCHANGED <<execData, events, loop, result>>

(* Syscall-entry of an exec-family call, first exec or re-exec: the      *)
(* arguments are decoded at entry and buffered until the exit.          *)
ExecEnter(p) ==
    /\ loop = "waiting"
    /\ stage[p] \in {"SpawnedNotExeced", "AwaitingExit"}
    /\ stage' = [stage EXCEPT ![p] = "SyscallEntered"]
    /\ execData' = [execData EXCEPT ![p] = TRUE]
    /\ UNCHANGED <<events, loop, result>>

(* The exec's syscall-exit, with the buffered decode left in place. *)
ExecExitKeepsData(p) ==
    /\ loop = "waiting"
    /\ stage[p] = "SyscallEntered"
    /\ Len(events) < MaxEvents
    /\ stage' = [stage EXCEPT ![p] = "AwaitingExit"]
    /\ events' = Append(events, Ev("exec", p, 0))
    /\ UNCHANGED <<execData, loop, result>>

(* Syscall-exit of the exec: the buffered decode is paired with the      *)
(* return value and pushed as a completed exec.                          *)
ExecExit(p) ==
    /\ loop = "waiting"
    /\ stage[p] = "SyscallEntered"
    /\ Len(events) < MaxEvents
    /\ stage' = [stage EXCEPT ![p] = "AwaitingExit"]
    /\ execData' = [execData EXCEPT ![p] = FALSE]
    /\ events' = Append(events, Ev("exec", p, 0))
    /\ UNCHANGED <<loop, result>>

(* The root's exit does not end the loop: the break is left out. *)
ExitNotifyNoBreak(p) ==
    /\ loop = "waiting"
    /\ stage[p] # Absent
    /\ p # Root => Len(events) < MaxEvents
    /\ \E c \in ExitCodes :
          events' = IF p = Root
                    THEN events \o <<Ev("exit", p, c), Ev("rootexit", p, c)>>
                    ELSE Append(events, Ev("exit", p, c))
    /\ stage' = [stage EXCEPT ![p] = Absent]
    /\ execData' = [execData EXCEPT ![p] = FALSE]
    /\ UNCHANGED <<loop, result>>

(* The exit removes the pid from the table's domain instead of marking  *)
(* its entry absent.                                                     *)
ExitNotifyDropsEntry(p) ==
    /\ loop = "waiting"
    /\ stage[p] # Absent
    /\ p # Root => Len(events) < MaxEvents
    /\ \E c \in ExitCodes :
          events' = IF p = Root
                    THEN events \o <<Ev("exit", p, c), Ev("rootexit", p, c)>>
                    ELSE Append(events, Ev("exit", p, c))
    /\ stage' = [q \in Pids \ {p} |-> stage[q]]
    /\ execData' = [execData EXCEPT ![p] = FALSE]
    /\ loop' = IF p = Root THEN "broken" ELSE loop
    /\ UNCHANGED result

(* An exit notification, or a resume that failed because the process    *)
(* raced to exit (ResumeRaceError, handled as an exit): the entry is     *)
(* removed and ProcessExit pushed; for the root, RootChildExit follows   *)
(* and the loop breaks.                                                  *)
ExitNotify(p) ==
    /\ loop = "waiting"
    /\ stage[p] # Absent
    /\ p # Root => Len(events) < MaxEvents
    /\ \E c \in ExitCodes :
          events' = IF p = Root
                    THEN events \o <<Ev("exit", p, c), Ev("rootexit", p, c)>>
                    ELSE Append(events, Ev("exit", p, c))
    /\ stage' = [stage EXCEPT ![p] = Absent]
    /\ execData' = [execData EXCEPT ![p] = FALSE]
    /\ loop' = IF p = Root THEN "broken" ELSE loop
    /\ UNCHANGED result

(* An error that prevents maintaining the session (spec.md 7): fatal,    *)
(* returned from start_root_process.                                     *)
SessionFails ==
    /\ loop = "waiting"
    /\ loop' = "returned"
    /\ result' = "err"
    /\ UNCHANGED <<stage, execData, events>>

(* After the break, start_root_process returns Ok. *)
Return ==
    /\ loop = "broken"
    /\ loop' = "returned"
    /\ result' = "ok"
    /\ UNCHANGED <<stage, execData, events>>

Next ==
    \/ SpawnRoot
    \/ SpawnFails
    \/ \E p, c \in Pids : Fork(p, c)
    \/ \E p \in Pids : ExecEnter(p) \/ ExecExit(p) \/ ExitNotify(p)
    \/ SessionFails
    \/ Return

Spec == Init /\ [][Next]_vars

-----------------------------------------------------------------------------
TypeOK ==
    /\ stage \in [Pids -> Stages \cup {Absent}]
    /\ execData \in [Pids -> BOOLEAN]
    /\ events \in Seq(ES!Event)
    /\ loop \in {"start", "waiting", "broken", "returned"}
    /\ result \in {"none", "ok", "err"}

(* Spec.md 3: a pid's ExecData is buffered only between the syscall-entry *)
(* and the syscall-exit of an exec; an entry removed at exit and created  *)
(* again for a reused pid never inherits a stale decode.                  *)
ExecDataOnlyInSyscall ==
    \A p \in Pids : execData[p] <=> stage[p] = "SyscallEntered"

(* The wait loop, seen through the refinement mapping, sends what the    *)
(* consumer contract EventStream allows: RootChildSpawn first,           *)
(* RootChildExit last and once.                                          *)
ImplementsEventStream == ES!StreamSpec
=============================================================================
