---------------------------- MODULE LogSession ----------------------------
(***************************************************************************)
(* Log mode of main (src/main.rs 95-103) composed with the tracer thread. *)
(*                                                                         *)
(* main creates an unbounded channel, spawns the tracer thread running    *)
(* start_root_process, and joins it: `tracer_thread.join().unwrap()?`      *)
(* returns main's Err when the thread returned Err.  Only then does it    *)
(* drain the channel, calling process::exit with the exit code of the     *)
(* first RootChildExit it receives; every other event, and the None that *)
(* recv returns once the channel is empty and closed, goes round the loop *)
(* again.                                                                 *)
(*                                                                         *)
(* The tracer thread is the abstract EventStream, which TracerEngine is  *)
(* shown to implement.  The sender is dropped when the thread returns, so *)
(* the channel is closed whenever main reads it.                          *)
(***************************************************************************)
EXTENDS EventStream

VARIABLES
    mphase,    \* "joining", "draining", "exited" (process::exit) or "failed" (Err)
    rcvd,      \* how many events recv has taken from the channel
    exitCode   \* the code given to process::exit

mainVars == <<mphase, rcvd, exitCode>>
vars == <<sent, tphase, mphase, rcvd, exitCode>>

-----------------------------------------------------------------------------
Init ==
    /\ StreamInit
    /\ mphase = "joining"
    /\ rcvd = 0
    /\ exitCode = 0

(* The tracer thread takes a step; main is blocked or reading. *)
TracerStep ==
    /\ StreamNext
    /\ UNCHANGED mainVars

(* join() errs as if Ok: main goes on to the loop after a failed session. *)
JoinIgnoringErr ==
    /\ mphase = "joining"
    /\ tphase \in {"ok", "err"}
    /\ mphase' = "draining"
    /\ UNCHANGED <<streamVars, rcvd, exitCode>>

(* main.rs 98: join returns once the thread has returned; its Err is     *)
(* main's Err.                                                           *)
Join ==
    /\ mphase = "joining"
    /\ tphase \in {"ok", "err"}
    /\ mphase' = IF tphase = "err" THEN "failed" ELSE "draining"
    /\ UNCHANGED <<streamVars, rcvd, exitCode>>

(* The loop receiving without having joined first. *)
RecvUnjoined ==
    /\ mphase \in {"joining", "draining"}
    /\ rcvd < Len(sent)
    /\ rcvd' = rcvd + 1
    /\ IF sent[rcvd + 1].kind = "rootexit"
       THEN mphase' = "exited" /\ exitCode' = sent[rcvd + 1].code
       ELSE UNCHANGED <<mphase, exitCode>>
    /\ UNCHANGED streamVars

(* main.rs 99-103: one round of the loop that takes an event.  With the   *)
(* channel empty and closed, recv returns None and the round changes      *)
(* nothing: a stuttering step.                                           *)
Recv ==
    /\ mphase = "draining"
    /\ rcvd < Len(sent)
    /\ rcvd' = rcvd + 1
    /\ IF sent[rcvd + 1].kind = "rootexit"
       THEN mphase' = "exited" /\ exitCode' = sent[rcvd + 1].code
       ELSE UNCHANGED <<mphase, exitCode>>
    /\ UNCHANGED streamVars

Next == TracerStep \/ Join \/ Recv

(* main and the tracer thread are OS threads that the scheduler runs     *)
(* whenever they can proceed: the thread's return after its loop, main's *)
(* join and its receive loop are weakly fair.  The traced programs, and  *)
(* with them the other tracer steps, get no fairness: the root may run   *)
(* for ever.                                                             *)
Fairness ==
    /\ WF_vars(ReturnA /\ UNCHANGED mainVars)
    /\ WF_vars(Join)
    /\ WF_vars(Recv)

Spec == Init /\ [][Next]_vars /\ Fairness

-----------------------------------------------------------------------------
TypeOK ==
    /\ StreamTypeOK
    /\ mphase \in {"joining", "draining", "exited", "failed"}
    /\ rcvd \in 0..Len(sent)
    /\ exitCode \in ExitCodes

(* process::exit skips destructors, so the log is only complete if the    *)
(* tracer thread had returned, dropping its output writer, before it:     *)
(* main exits only after start_root_process returned Ok, and with the     *)
(* exit status of the root child, the one RootChildExit carries.          *)
ExitReflectsSession ==
    mphase = "exited" =>
        /\ tphase = "ok"
        /\ sent[Len(sent)].kind = "rootexit"
        /\ exitCode = sent[Len(sent)].code

(* Once the tracer thread has finished its loop, for Ok or for Err, main *)
(* ends: by process::exit or by returning the Err; it never keeps        *)
(* spinning on a closed channel.                                        *)
LogSessionEnds ==
    tphase \in {"returning", "ok", "err"} ~> mphase \in {"exited", "failed"}
=============================================================================
