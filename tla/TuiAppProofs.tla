---------------------------- MODULE TuiAppProofs ----------------------------
(***************************************************************************)
(* Proofs about TuiApp for every value of its constants.                  *)
(***************************************************************************)
EXTENDS TuiApp, TLAPS

SplitRange == IF HasTerm THEN 10..90 ELSE {100}

(* shrink_pane and grow_pane keep the split inside its range. *)
LEMMA ShrinkGrowInRange ==
    ASSUME NEW sp \in SplitRange
    PROVE  /\ ShrinkPane(sp) \in SplitRange
           /\ GrowPane(sp) \in SplitRange
<1>1. HasTerm \in BOOLEAN
  BY ConstAssumption
<1>2. CASE HasTerm
  BY <1>2 DEF SplitRange, ShrinkPane, GrowPane
<1>3. CASE ~HasTerm
  BY <1>3 DEF SplitRange, ShrinkPane, GrowPane
<1>4. QED
  BY <1>1, <1>2, <1>3

(* The steps other than HandleAction leave the view alone. *)
LEMMA OtherStepsKeepView ==
    ASSUME [Next]_vars, ~HandleAction
    PROVE  UNCHANGED view
<1>1. CASE \E k \in Keys : ReceiveKey(k)
  BY <1>1 DEF ReceiveKey
<1>2. CASE ReceiveShouldQuit \/ ReceiveRender \/ ReceiveResize \/ ReceiveInit
            \/ ReceiveError \/ ReceiveTracerEvent
  BY <1>2 DEF ReceiveShouldQuit, ReceiveRender, ReceiveResize, ReceiveInit,
              ReceiveError, ReceiveTracerEvent
<1>3. CASE ActionsDrained \/ AppExit
  BY <1>3 DEF ActionsDrained, AppExit
<1>4. CASE TracerSpawnRoot \/ TracerExec \/ RootExit \/ PidReuse \/ TerminalResize
  BY <1>4 DEF TracerSpawnRoot, TracerExec, RootExit, PidReuse, TerminalResize
<1>5. CASE Terminated \/ UNCHANGED vars
  BY <1>5 DEF Terminated, vars, view
<1>6. QED
  BY <1>1, <1>2, <1>3, <1>4, <1>5 DEF Next

(* The split percentage never leaves 10..90 (with a pty) or 100 (without): *)
(* render's 100 - split cannot underflow.                                  *)
THEOREM SplitBoundedInvariant == Spec => []SplitBounded
<1>1. Init => SplitBounded
  BY ConstAssumption DEF Init, SplitBounded
<1>2. SplitBounded /\ [Next]_vars => SplitBounded'
  <2> SUFFICES ASSUME SplitBounded, [Next]_vars PROVE SplitBounded'
    OBVIOUS
  <2>0. split \in SplitRange
    BY DEF SplitBounded, SplitRange
  <2>1. CASE HandleAction
    <3>1. CASE Head(actions) = "Quit"
      BY <2>1, <3>1 DEF HandleAction, view, SplitBounded
    <3>2. CASE Head(actions) # "Quit"
      <4>1. Apply(Head(actions))
        BY <2>1, <3>2 DEF HandleAction
      <4>2. split' = split \/ split' = ShrinkPane(split) \/ split' = GrowPane(split)
        BY <4>1 DEF Apply, Render, OnResize, OnShrinkPane, OnGrowPane,
                    OnSwitchLayout, OnSwitchActivePane, view
      <4>3. QED
        BY <2>0, <4>2, ShrinkGrowInRange DEF SplitBounded, SplitRange
    <3>3. QED
      BY <3>1, <3>2
  <2>2. CASE ~HandleAction
    BY <2>2, OtherStepsKeepView DEF view, SplitBounded
  <2>3. QED
    BY <2>1, <2>2
<1>3. QED
  BY <1>1, <1>2, PTL DEF Spec
-----------------------------------------------------------------------------
(* The action lists a key maps to: empty or a single action. *)
ShortActs == {<<>>} \cup {<<a>> : a \in ActionKinds}

LEMMA ShortActsSeq == ShortActs \subseteq Seq(ActionKinds)
<1> SUFFICES ASSUME NEW s \in ShortActs PROVE s \in Seq(ActionKinds)
  OBVIOUS
<1>1. CASE s = <<>>
  BY <1>1
<1>2. CASE s # <<>>
  <2>1. PICK a \in ActionKinds : s = <<a>>
    BY <1>2 DEF ShortActs
  <2>2. QED
    BY <2>1
<1>3. QED
  BY <1>1, <1>2

LEMMA NavPlainShort ==
    ASSUME NEW m, NEW c \in ActionKinds, NEW p \in ActionKinds
    PROVE  NavKey(m, c, p) \in ShortActs /\ PlainKey(m, c) \in ShortActs
BY DEF NavKey, PlainKey, ShortActs

(* Every key press maps to a sequence of actions. *)
LEMMA KeyActionType ==
    ASSUME NEW k \in [code : KeyCodes, mods : KeyMods], NEW pane \in Panes
    PROVE  KeyAction(k, pane) \in Seq(ActionKinds)
<1>1. KeyAction(k, pane) \in ShortActs
  BY NavPlainShort DEF KeyAction, ShortActs, ActionKinds, NavActions
<1>2. QED
  BY <1>1, ShortActsSeq

(* The panes of the layout have integer sides. *)
LEMMA AreasInt ==
    ASSUME NEW sz \in Nat \X Nat, NEW sp \in 0..100, NEW lay \in Layouts
    PROVE  /\ EventArea(sz, sp, lay).w \in Int /\ EventArea(sz, sp, lay).h \in Int
           /\ TermArea(sz, sp, lay).w \in Int /\ TermArea(sz, sp, lay).h \in Int
BY DEF EventArea, TermArea, PercentageLen, RestHeight

(* TypeOK split in its sequence-typed conjuncts and the rest. *)
TypeSeqs ==
    /\ actions \in Seq(ActionKinds)
    /\ items \in Seq(TracerKinds)
    /\ chan \in Seq(TracerKinds)
TypeRest ==
    /\ phase \in {"event", "actions", "returned", "exited"}
    /\ activePane \in Panes
    /\ split \in 0..100
    /\ layout \in Layouts
    /\ resizeFlag \in BOOLEAN
    /\ maxWindowLen \in Nat
    /\ ptySize \in Nat \X Nat
    /\ drawn \in {"none", "small", "list"}
    /\ rootPid \in {RootPid, NoPid}
    /\ size \in Sizes
    /\ resizePending \in BOOLEAN /\ initPending \in BOOLEAN
    /\ tracerPhase \in {"idle", "running", "done"}
    /\ execCount \in 0..MaxExec
    /\ pidOwner \in {"none", "root", "other"}
    /\ signalled \subseteq {"root", "other"}
    /\ exitOwner \in {"unset", "none", "root", "other"}

LEMMA TypeSplit == TypeOK <=> TypeSeqs /\ TypeRest
BY DEF TypeOK, TypeSeqs, TypeRest

(* The event channel received from: its head is a tracer event. *)
LEMMA TracerEventSeqs ==
    ASSUME TypeSeqs, ReceiveTracerEvent
    PROVE  TypeSeqs'
<1>1. chan # <<>> /\ chan' = Tail(chan) /\ actions' = <<>>
  BY DEF ReceiveTracerEvent, Dispatch
<1>2. Head(chan) \in TracerKinds
  BY <1>1 DEF TypeSeqs
<1>3. items' = items \/ items' = Append(items, Head(chan))
  BY DEF ReceiveTracerEvent
<1>4. chan' \in Seq(TracerKinds) /\ actions' \in Seq(ActionKinds)
  BY <1>1 DEF TypeSeqs
<1>5. CASE items' = items
  BY <1>4, <1>5 DEF TypeSeqs
<1>6. CASE items' = Append(items, Head(chan))
  BY <1>2, <1>4, <1>6 DEF TypeSeqs
<1>7. QED
  BY <1>3, <1>5, <1>6

(* The action loop pops or clears the action list. *)
LEMMA HandleActionSeqs ==
    ASSUME TypeSeqs, HandleAction
    PROVE  TypeSeqs'
<1>1. actions' = <<>> \/ actions' = Tail(actions)
  BY DEF HandleAction
<1>2. actions # <<>> /\ UNCHANGED <<items, chan>>
  BY DEF HandleAction, env
<1>3. CASE actions' = <<>>
  BY <1>2, <1>3 DEF TypeSeqs
<1>4. CASE actions' = Tail(actions)
  BY <1>2, <1>4 DEF TypeSeqs
<1>5. QED
  BY <1>1, <1>3, <1>4

(* The sequences stay sequences of their kinds. *)
LEMMA SeqsPreserved == TypeOK /\ [Next]_vars => TypeSeqs'
<1> SUFFICES ASSUME TypeOK, [Next]_vars PROVE TypeSeqs'
  OBVIOUS
<1>0. TypeSeqs /\ activePane \in Panes
  BY TypeSplit DEF TypeRest
<1>1. ASSUME NEW k \in Keys, ReceiveKey(k)
      PROVE  TypeSeqs'
  <2>1. k \in [code : KeyCodes, mods : KeyMods]
    BY ConstAssumption
  <2>2. actions' = KeyAction(k, activePane) /\ UNCHANGED <<items, chan>>
    BY <1>1 DEF ReceiveKey, Dispatch, env
  <2>3. QED
    BY <1>0, <2>1, <2>2, KeyActionType DEF TypeSeqs
<1>2. ASSUME NEW a \in ActionKinds,
             \/ ReceiveShouldQuit /\ a = "Quit"
             \/ ReceiveRender /\ a = "Render"
             \/ (ReceiveResize \/ ReceiveInit) /\ a = "Resize"
      PROVE  TypeSeqs'
  <2>1. actions' = <<a>> /\ UNCHANGED <<items, chan>>
    BY <1>2 DEF ReceiveShouldQuit, ReceiveRender, ReceiveResize, ReceiveInit,
                Dispatch, env
  <2>2. QED
    BY <1>0, <2>1 DEF TypeSeqs
<1>3. CASE ReceiveError
  BY <1>0, <1>3 DEF ReceiveError, Dispatch, env, TypeSeqs
<1>4. CASE ReceiveTracerEvent
  BY <1>0, <1>4, TracerEventSeqs
<1>5. CASE HandleAction
  BY <1>0, <1>5, HandleActionSeqs
<1>6. CASE ActionsDrained \/ AppExit
  BY <1>0, <1>6 DEF ActionsDrained, AppExit, env, TypeSeqs
<1>7. CASE TracerSpawnRoot \/ TracerExec \/ RootExit
  <2>1. UNCHANGED <<actions, items>>
    BY <1>7 DEF TracerSpawnRoot, TracerExec, RootExit
  <2>2. \E e \in TracerKinds : chan' = Append(chan, e)
    BY <1>7 DEF TracerSpawnRoot, TracerExec, RootExit, TracerKinds
  <2>3. QED
    BY <1>0, <2>1, <2>2 DEF TypeSeqs
<1>8. CASE PidReuse \/ TerminalResize \/ Terminated \/ UNCHANGED vars
  BY <1>0, <1>8 DEF PidReuse, TerminalResize, Terminated, vars, TypeSeqs
<1>9. QED
  <2>1. ReceiveShouldQuit => TypeSeqs'
    BY <1>2 DEF ActionKinds
  <2>2. ReceiveRender => TypeSeqs'
    BY <1>2 DEF ActionKinds
  <2>3. ReceiveResize \/ ReceiveInit => TypeSeqs'
    BY <1>2 DEF ActionKinds
  <2>4. QED
    BY <1>1, <2>1, <2>2, <2>3, <1>3, <1>4, <1>5, <1>6, <1>7, <1>8 DEF Next

-----------------------------------------------------------------------------
(* The view of App: the fields the action loop writes. *)
ViewTyped ==
    /\ activePane \in Panes
    /\ split \in 0..100
    /\ layout \in Layouts
    /\ resizeFlag \in BOOLEAN
    /\ maxWindowLen \in Nat
    /\ ptySize \in Nat \X Nat
    /\ drawn \in {"none", "small", "list"}

(* A render that is not bailed out on writes a window height and a pty   *)
(* size of 2 or more: the "- 2" of render cannot go below zero.          *)
LEMMA RenderType ==
    ASSUME TypeRest, Render
    PROVE  ViewTyped'
<1> DEFINE ev == EventArea(size, split, layout)
           tm == TermArea(size, split, layout)
<1>1. ev.h \in Int /\ tm.w \in Int /\ tm.h \in Int /\ ev.w \in Int
  <2>1. size \in Nat \X Nat
    BY ConstAssumption DEF TypeRest
  <2>2. QED
    BY <2>1, AreasInt DEF TypeRest
<1>2. CASE TooSmall(ev, tm)
  BY <1>2 DEF Render, TypeRest, ViewTyped
<1>3. CASE ~TooSmall(ev, tm)
  <2>1. ev.h >= 4 /\ tm.h >= 4 /\ tm.w >= 4
    BY <1>1, <1>3 DEF TooSmall
  <2>2. drawn' = "list" /\ resizeFlag' = FALSE /\ UNCHANGED <<activePane, split, layout>>
    BY <1>3 DEF Render
  <2>3. maxWindowLen' \in Nat
    BY <1>3, <2>1, <1>1 DEF Render, TypeRest
  <2>4. ptySize' \in Nat \X Nat
    <3>1. CASE resizeFlag /\ HasTerm
      <4>1. ptySize' = <<tm.h - 2, tm.w - 2>>
        BY <1>3, <3>1 DEF Render
      <4>2. QED
        BY <4>1, <2>1, <1>1
    <3>2. CASE ~(resizeFlag /\ HasTerm)
      BY <1>3, <3>2 DEF Render, TypeRest
    <3>3. QED
      BY <3>1, <3>2
  <2>5. QED
    BY <2>2, <2>3, <2>4 DEF TypeRest, ViewTyped
<1>4. QED
  BY <1>2, <1>3

(* Every arm of the action loop keeps the view well typed. *)
LEMMA ApplyType ==
    ASSUME TypeRest, NEW a, Apply(a)
    PROVE  ViewTyped'
<1>1. CASE a = "Render" /\ Render
  BY <1>1, RenderType
<1>2. CASE a = "Resize" /\ OnResize
  BY <1>2 DEF OnResize, TypeRest, ViewTyped
<1>3. CASE a = "ShrinkPane" /\ OnShrinkPane
  BY <1>3, ConstAssumption DEF OnShrinkPane, ShrinkPane, TypeRest, ViewTyped
<1>4. CASE a = "GrowPane" /\ OnGrowPane
  BY <1>4, ConstAssumption DEF OnGrowPane, GrowPane, TypeRest, ViewTyped
<1>5. CASE a = "SwitchLayout" /\ OnSwitchLayout
  BY <1>5 DEF OnSwitchLayout, Layouts, TypeRest, ViewTyped
<1>6. CASE a = "SwitchActivePane" /\ OnSwitchActivePane
  BY <1>6 DEF OnSwitchActivePane, Panes, TypeRest, ViewTyped
<1>7. CASE UNCHANGED view
  BY <1>7 DEF view, TypeRest, ViewTyped
<1>8. QED
  BY <1>1, <1>2, <1>3, <1>4, <1>5, <1>6, <1>7 DEF Apply

(* The fields outside the view. *)
RestOther ==
    /\ phase \in {"event", "actions", "returned", "exited"}
    /\ rootPid \in {RootPid, NoPid}
    /\ size \in Sizes
    /\ resizePending \in BOOLEAN /\ initPending \in BOOLEAN
    /\ tracerPhase \in {"idle", "running", "done"}
    /\ execCount \in 0..MaxExec
    /\ pidOwner \in {"none", "root", "other"}
    /\ signalled \subseteq {"root", "other"}
    /\ exitOwner \in {"unset", "none", "root", "other"}

LEMMA RestSplit == TypeRest <=> ViewTyped /\ RestOther
BY DEF TypeRest, ViewTyped, RestOther

(* The action loop keeps the view and the other fields well typed. *)
LEMMA HandleActionRest ==
    ASSUME TypeRest, HandleAction
    PROVE  TypeRest'
<1>1. ViewTyped'
  <2>1. CASE UNCHANGED view
    BY <2>1, RestSplit DEF view, ViewTyped
  <2>2. CASE Apply(Head(actions))
    BY <2>2, ApplyType
  <2>3. QED
    BY <2>1, <2>2 DEF HandleAction
<1>2. RestOther'
  <2>1. phase' \in {phase, "returned"} /\ UNCHANGED <<rootPid, signalled, exitOwner>>
    BY DEF HandleAction
  <2>2. UNCHANGED env
    BY DEF HandleAction
  <2>3. QED
    BY <2>1, <2>2, RestSplit DEF env, RestOther
<1>3. QED
  BY <1>1, <1>2, Zenon DEF TypeRest, ViewTyped, RestOther

(* A step that leaves the view alone keeps it well typed. *)
LEMMA ViewFrame ==
    ASSUME ViewTyped, UNCHANGED view
    PROVE  ViewTyped'
BY DEF ViewTyped, view

(* The other fields stay in their types. *)
LEMMA RestPreserved == TypeOK /\ [Next]_vars => TypeRest'
<1> SUFFICES ASSUME TypeOK, [Next]_vars PROVE ViewTyped' /\ RestOther'
  BY Zenon DEF TypeRest, ViewTyped, RestOther
<1>0. ViewTyped /\ RestOther
  BY TypeSplit, RestSplit
<1> DEFINE Phases == {"event", "actions", "returned", "exited"}
<1>1. CASE (\E k \in Keys : ReceiveKey(k)) \/ ReceiveShouldQuit \/ ReceiveRender
                                          \/ ReceiveError
  <2>1. UNCHANGED view /\ UNCHANGED env /\ phase' \in Phases
        /\ UNCHANGED <<rootPid, signalled, exitOwner>>
    BY <1>1 DEF ReceiveKey, ReceiveShouldQuit, ReceiveRender, ReceiveError, Dispatch
  <2>2. RestOther'
    BY <1>0, <2>1 DEF RestOther, env
  <2>3. QED
    BY <1>0, <2>1, <2>2, ViewFrame
<1>2. CASE ReceiveResize \/ ReceiveInit
  <2>1. UNCHANGED view /\ phase' \in Phases
        /\ UNCHANGED <<rootPid, signalled, exitOwner>>
    BY <1>2 DEF ReceiveResize, ReceiveInit, Dispatch
  <2>2. RestOther'
    BY <1>0, <1>2, <2>1 DEF ReceiveResize, ReceiveInit, RestOther
  <2>3. QED
    BY <1>0, <2>1, <2>2, ViewFrame
<1>3. CASE ReceiveTracerEvent
  <2>1. UNCHANGED view /\ UNCHANGED <<signalled, exitOwner>> /\ phase' \in Phases
        /\ rootPid' \in {rootPid, RootPid}
    BY <1>3 DEF ReceiveTracerEvent, Dispatch
  <2>2. RestOther'
    BY <1>0, <1>3, <2>1 DEF ReceiveTracerEvent, RestOther
  <2>3. QED
    BY <1>0, <2>1, <2>2, ViewFrame
<1>4. CASE HandleAction
  <2>1. TypeRest'
    BY <1>0, <1>4, HandleActionRest, RestSplit
  <2>2. QED
    BY <2>1, Zenon DEF TypeRest, ViewTyped, RestOther
<1>5. CASE ActionsDrained
  <2>1. UNCHANGED view /\ UNCHANGED env /\ phase' = "event"
        /\ UNCHANGED <<rootPid, signalled, exitOwner>>
    BY <1>5 DEF ActionsDrained
  <2>2. RestOther'
    BY <1>0, <2>1 DEF RestOther, env
  <2>3. QED
    BY <1>0, <2>1, <2>2, ViewFrame
<1>6. CASE AppExit
  <2>1. UNCHANGED view /\ UNCHANGED env /\ phase' = "exited" /\ UNCHANGED rootPid
        /\ exitOwner' = pidOwner
    BY <1>6 DEF AppExit
  <2>2. signalled' \subseteq {"root", "other"}
    <3>1. CASE (TerminateOnExit \/ KillOnExit) /\ rootPid # NoPid /\ pidOwner # "none"
      BY <1>0, <1>6, <3>1 DEF AppExit, RestOther
    <3>2. CASE ~((TerminateOnExit \/ KillOnExit) /\ rootPid # NoPid /\ pidOwner # "none")
      BY <1>0, <1>6, <3>2 DEF AppExit, RestOther
    <3>3. QED
      BY <3>1, <3>2
  <2>3. RestOther'
    BY <1>0, <2>1, <2>2 DEF RestOther, env
  <2>4. QED
    BY <1>0, <2>1, <2>3, ViewFrame
<1>9. CASE TracerSpawnRoot \/ RootExit \/ PidReuse
  <2>1. UNCHANGED view /\ UNCHANGED <<phase, rootPid, signalled, exitOwner>>
        /\ UNCHANGED <<size, resizePending, initPending, execCount>>
    BY <1>9 DEF TracerSpawnRoot, RootExit, PidReuse
  <2>2. tracerPhase' \in {"idle", "running", "done"} /\ pidOwner' \in {"none", "root", "other"}
    BY <1>9 DEF TracerSpawnRoot, RootExit, PidReuse
  <2>3. RestOther'
    BY <1>0, <2>1, <2>2 DEF RestOther
  <2>4. QED
    BY <1>0, <2>1, <2>3, ViewFrame
<1>10. CASE TracerExec
  <2>1. UNCHANGED view /\ UNCHANGED <<phase, rootPid, signalled, exitOwner>>
        /\ UNCHANGED <<size, resizePending, initPending, tracerPhase, pidOwner>>
    BY <1>10 DEF TracerExec
  <2>2. execCount' \in 0..MaxExec
    BY <1>0, <1>10, ConstAssumption DEF TracerExec, RestOther
  <2>3. RestOther'
    BY <1>0, <2>1, <2>2 DEF RestOther
  <2>4. QED
    BY <1>0, <2>1, <2>3, ViewFrame
<1>11. CASE TerminalResize
  <2>1. UNCHANGED view /\ UNCHANGED <<phase, rootPid, signalled, exitOwner>>
        /\ UNCHANGED <<initPending, tracerPhase, execCount, pidOwner>>
        /\ resizePending' = TRUE /\ size' \in Sizes
    BY <1>11 DEF TerminalResize
  <2>2. RestOther'
    BY <1>0, <2>1 DEF RestOther
  <2>3. QED
    BY <1>0, <2>1, <2>2, ViewFrame
<1>7. CASE Terminated \/ UNCHANGED vars
  <2>1. UNCHANGED vars
    BY <1>7 DEF Terminated
  <2>2. UNCHANGED view
    BY <2>1 DEF vars, view
  <2>3. RestOther'
    BY <1>0, <2>1 DEF vars, RestOther
  <2>4. QED
    BY <1>0, <2>2, <2>3, ViewFrame
<1>8. QED
  BY <1>1, <1>2, <1>3, <1>4, <1>5, <1>6, <1>7, <1>9, <1>10, <1>11 DEF Next

(* The initial state App::new builds is well typed. *)
LEMMA TypeInit == Init => TypeOK
<1> SUFFICES ASSUME Init PROVE TypeSeqs /\ TypeRest
  BY TypeSplit
<1>1. TypeSeqs
  BY DEF Init, TypeSeqs
<1>2. ViewTyped
  BY ConstAssumption DEF Init, ViewTyped, Panes
<1>3. RestOther
  <2>1. execCount \in 0..MaxExec
    BY ConstAssumption DEF Init
  <2>2. resizePending \in BOOLEAN /\ initPending \in BOOLEAN
    BY DEF Init
  <2>3. QED
    BY <2>1, <2>2, ConstAssumption DEF Init, RestOther
<1>4. QED
  BY <1>1, <1>2, <1>3, RestSplit

(* TypeOK holds in every state the TUI can reach: in particular the      *)
(* window height and pty size render writes are never negative.          *)
THEOREM TypeCorrect == Spec => []TypeOK
<1>1. Init => TypeOK
  BY TypeInit
<1>2. TypeOK /\ [Next]_vars => TypeOK'
  BY SeqsPreserved, RestPreserved, Zenon DEF TypeOK, TypeSeqs, TypeRest
<1>3. QED
  BY <1>1, <1>2, PTL DEF Spec

-----------------------------------------------------------------------------
(* Every event is mapped to at most one action, and the action channel is *)
(* drained before App::run awaits the next event.                         *)
ActionsShape ==
    /\ Len(actions) <= 1
    /\ phase = "event" => actions = <<>>

(* The inductive invariant behind WindowFresh. *)
FreshInv == TypeOK /\ ActionsShape /\ WindowFresh

(* Whether a "Resize" is among the actions of a list of at most one. *)
LEMMA QueueFacts ==
    ASSUME NEW s
    PROVE  /\ s = <<>> => ~\E i \in DOMAIN s : s[i] = "Resize"
           /\ \A a : s = <<a>> => ((\E i \in DOMAIN s : s[i] = "Resize") <=> a = "Resize")
BY DEF ResizeQueued

(* The steps that leave the geometry alone and cannot make the premise  *)
(* of WindowFresh true keep it.                                          *)
FreshPremise == ~resizeFlag /\ ~resizePending /\ ~ResizeQueued

LEMMA FreshFrame ==
    ASSUME WindowFresh, UNCHANGED <<size, split, layout, maxWindowLen, ptySize>>,
           FreshPremise' => FreshPremise
    PROVE  WindowFresh'
BY DEF WindowFresh, FreshPremise

(* Each event sends at most one action, and run drains them before it   *)
(* awaits the next event.                                                 *)
LEMMA ShapeStep == TypeOK /\ ActionsShape /\ [Next]_vars => ActionsShape'
<1> SUFFICES ASSUME TypeOK, ActionsShape, [Next]_vars PROVE ActionsShape'
  OBVIOUS
<1>0. actions \in Seq(ActionKinds)
  BY DEF TypeOK
<1>1. ASSUME NEW k \in Keys, ReceiveKey(k) PROVE ActionsShape'
  <2>1. k \in [code : KeyCodes, mods : KeyMods] /\ activePane \in Panes
    BY ConstAssumption DEF TypeOK
  <2>2. actions' \in ShortActs /\ phase' = "actions"
    <3>1. KeyAction(k, activePane) \in ShortActs
      BY <2>1, NavPlainShort DEF KeyAction, ShortActs, ActionKinds, NavActions
    <3>2. QED
      BY <1>1, <3>1 DEF ReceiveKey, Dispatch
  <2>3. QED
    BY <2>2 DEF ShortActs, ActionsShape
<1>2. ASSUME NEW a \in ActionKinds,
             \/ ReceiveShouldQuit /\ a = "Quit"
             \/ ReceiveRender /\ a = "Render"
             \/ (ReceiveResize \/ ReceiveInit) /\ a = "Resize"
      PROVE  ActionsShape'
  <2>1. phase' = "actions" /\ actions' = <<a>>
    BY <1>2 DEF ReceiveShouldQuit, ReceiveRender, ReceiveResize, ReceiveInit, Dispatch
  <2>2. QED
    BY <2>1 DEF ActionsShape
<1>7. CASE ReceiveError \/ ReceiveTracerEvent
  <2>1. phase' = "actions" /\ actions' = <<>>
    BY <1>7 DEF ReceiveError, ReceiveTracerEvent, Dispatch
  <2>2. QED
    BY <2>1 DEF ActionsShape
<1>3. CASE HandleAction
  <2>1. Len(actions) = 1
    <3>1. actions # <<>> /\ Len(actions) <= 1
      BY <1>3 DEF HandleAction, ActionsShape
    <3>2. Len(actions) # 0
      BY <1>0, <3>1
    <3>3. Len(actions) \in Nat
      BY <1>0
    <3>4. \A n \in Nat : n <= 1 /\ n # 0 => n = 1
      OBVIOUS
    <3>5. QED
      BY <3>1, <3>2, <3>3, <3>4, Zenon
  <2>2. actions' = <<>> /\ phase' # "event"
    BY <1>0, <1>3, <2>1 DEF HandleAction
  <2>3. QED
    BY <2>2 DEF ActionsShape
<1>4. CASE ActionsDrained
  BY <1>4 DEF ActionsDrained, ActionsShape
<1>5. CASE AppExit \/ TracerSpawnRoot \/ TracerExec \/ RootExit \/ PidReuse
           \/ TerminalResize \/ Terminated \/ UNCHANGED vars
  <2>1. UNCHANGED <<phase, actions>> \/ (phase' = "exited" /\ UNCHANGED actions)
    BY <1>5 DEF AppExit, TracerSpawnRoot, TracerExec, RootExit, PidReuse,
                TerminalResize, Terminated, vars
  <2>2. QED
    BY <2>1 DEF ActionsShape
<1>6. QED
  <2>1. ReceiveShouldQuit \/ ReceiveRender \/ ReceiveResize \/ ReceiveInit
          => ActionsShape'
    BY <1>2 DEF ActionKinds
  <2>2. QED
    BY <1>1, <2>1, <1>3, <1>4, <1>5, <1>7 DEF Next

(* The action HandleAction pops: the whole list, given ActionsShape. *)
LEMMA SingleAction ==
    ASSUME TypeOK, ActionsShape, HandleAction
    PROVE  actions = <<Head(actions)>> /\ actions' \in {<<>>}
<1>1. actions \in Seq(ActionKinds) /\ actions # <<>> /\ Len(actions) <= 1
  BY DEF TypeOK, ActionsShape, HandleAction
<1>2. Len(actions) = 1
  <2>1. Len(actions) # 0 /\ Len(actions) \in Nat
    BY <1>1
  <2>2. \A n \in Nat : n <= 1 /\ n # 0 => n = 1
    OBVIOUS
  <2>3. QED
    BY <1>1, <2>1, <2>2, Zenon
<1>3. actions = <<Head(actions)>>
  BY <1>1, <1>2
<1>4. actions' = <<>>
  <2>1. CASE Head(actions) = "Quit"
    BY <2>1 DEF HandleAction
  <2>2. CASE Head(actions) # "Quit"
    <3>1. actions' = Tail(actions)
      BY <2>2 DEF HandleAction
    <3>2. QED
      BY <1>1, <1>2, <3>1
  <2>3. QED
    BY <2>1, <2>2
<1>5. QED
  BY <1>3, <1>4

(* A render clears the resize flag only after refreshing the window.    *)
LEMMA RenderFresh ==
    ASSUME WindowFresh, Render, ~ResizeQueued, ~ResizeQueued',
           UNCHANGED <<size, resizePending>>, resizeFlag \in BOOLEAN
    PROVE  WindowFresh'
<1> DEFINE ev == EventArea(size, split, layout)
           tm == TermArea(size, split, layout)
<1>1. CASE TooSmall(ev, tm)
  <2>1. UNCHANGED <<split, layout, resizeFlag, maxWindowLen, ptySize>>
    BY <1>1 DEF Render
  <2>2. QED
    BY <2>1, FreshFrame DEF FreshPremise
<1>2. CASE ~TooSmall(ev, tm) /\ resizeFlag
  <2>1. UNCHANGED <<split, layout>> /\ maxWindowLen' = ev.h - 2
        /\ (HasTerm => ptySize' = <<tm.h - 2, tm.w - 2>>)
    BY <1>2 DEF Render
  <2>2. QED
    BY <2>1 DEF WindowFresh
<1>3. CASE ~TooSmall(ev, tm) /\ ~resizeFlag
  <2>1. UNCHANGED <<split, layout, resizeFlag, maxWindowLen, ptySize>>
    BY <1>3 DEF Render
  <2>2. QED
    BY <2>1, FreshFrame DEF FreshPremise
<1>4. QED
  BY <1>1, <1>2, <1>3

(* The action loop keeps WindowFresh. *)
LEMMA HandleActionFresh ==
    ASSUME TypeOK, ActionsShape, WindowFresh, HandleAction
    PROVE  WindowFresh'
<1> DEFINE a == Head(actions)
<1>1. actions = <<a>> /\ actions' = <<>>
  BY SingleAction
<1>2. ~ResizeQueued' /\ (ResizeQueued <=> a = "Resize")
  BY <1>1, QueueFacts DEF ResizeQueued
<1>3. UNCHANGED <<size, resizePending>>
  BY DEF HandleAction, env
<1>4. CASE a = "Quit"
  <2>1. UNCHANGED view
    BY <1>4 DEF HandleAction
  <2>2. QED
    BY <1>2, <1>3, <1>4, <2>1, FreshFrame DEF view, FreshPremise
<1>5. CASE a # "Quit"
  <2>1. Apply(a)
    BY <1>5 DEF HandleAction
  <2>2. CASE a = "Render" /\ Render
    BY <1>2, <1>3, <2>2, RenderFresh DEF TypeOK
  <2>3. CASE \/ a = "Resize" /\ OnResize
             \/ a = "ShrinkPane" /\ OnShrinkPane
             \/ a = "GrowPane" /\ OnGrowPane
             \/ a = "SwitchLayout" /\ OnSwitchLayout
    <3>1. resizeFlag'
      BY <2>3 DEF OnResize, OnShrinkPane, OnGrowPane, OnSwitchLayout
    <3>2. QED
      BY <3>1 DEF WindowFresh
  <2>4. CASE \/ a = "SwitchActivePane" /\ OnSwitchActivePane
             \/ a \in NavActions \cup {"HandleTerminalKeyPress", "CopyToClipboard"}
                /\ UNCHANGED view
    <3>1. UNCHANGED <<split, layout, resizeFlag, maxWindowLen, ptySize>> /\ a # "Resize"
      BY <2>4 DEF OnSwitchActivePane, view, NavActions
    <3>2. QED
      BY <1>2, <1>3, <3>1, FreshFrame DEF FreshPremise
  <2>5. QED
    BY <2>1, <2>2, <2>3, <2>4 DEF Apply
<1>6. QED
  BY <1>4, <1>5

(* Every step keeps WindowFresh, given the type and the action shape. *)
LEMMA FreshStep == FreshInv /\ [Next]_vars => WindowFresh'
<1> SUFFICES ASSUME TypeOK, ActionsShape, WindowFresh, [Next]_vars
             PROVE  WindowFresh'
  BY DEF FreshInv
<1>0. phase = "event" => ~ResizeQueued
  BY QueueFacts DEF ActionsShape, ResizeQueued
<1>1. CASE (\E k \in Keys : ReceiveKey(k)) \/ ReceiveShouldQuit \/ ReceiveRender
           \/ ReceiveError \/ ReceiveTracerEvent
  <2>1. phase = "event" /\ UNCHANGED view /\ UNCHANGED <<size, resizePending>>
    BY <1>1 DEF ReceiveKey, ReceiveShouldQuit, ReceiveRender, ReceiveError,
                ReceiveTracerEvent, Dispatch, env
  <2>2. QED
    BY <1>0, <2>1, FreshFrame DEF view, FreshPremise
<1>2. CASE ReceiveResize \/ ReceiveInit
  <2>1. actions' = <<"Resize">>
    BY <1>2 DEF ReceiveResize, ReceiveInit, Dispatch
  <2>2. ResizeQueued'
    BY <2>1, QueueFacts DEF ResizeQueued
  <2>3. QED
    BY <2>2 DEF WindowFresh
<1>3. CASE HandleAction
  BY <1>3, HandleActionFresh
<1>4. CASE ActionsDrained \/ AppExit \/ TracerSpawnRoot \/ TracerExec \/ RootExit
           \/ PidReuse \/ Terminated \/ UNCHANGED vars
  <2>1. UNCHANGED view /\ UNCHANGED <<size, resizePending, actions>>
    BY <1>4 DEF ActionsDrained, AppExit, TracerSpawnRoot, TracerExec, RootExit,
                PidReuse, Terminated, vars, view, env
  <2>2. QED
    BY <2>1, FreshFrame DEF view, FreshPremise, ResizeQueued
<1>5. CASE TerminalResize
  <2>1. resizePending'
    BY <1>5 DEF TerminalResize
  <2>2. QED
    BY <2>1 DEF WindowFresh
<1>6. QED
  BY <1>1, <1>2, <1>3, <1>4, <1>5 DEF Next

(* The premise of WindowFresh holds nowhere in the initial state: the    *)
(* resize flag starts set.                                                 *)
LEMMA FreshInit == Init => FreshInv
<1> SUFFICES ASSUME Init PROVE FreshInv
  OBVIOUS
<1>1. TypeOK
  BY TypeInit
<1>2. ActionsShape
  BY DEF Init, ActionsShape
<1>3. WindowFresh
  BY DEF Init, WindowFresh
<1>4. QED
  BY <1>1, <1>2, <1>3 DEF FreshInv

(* Once a render has cleared should_handle_internal_resize and no resize *)
(* is pending or queued, the event-list window and the pty size match the *)
(* current terminal size, split and layout (App::render, app.rs 372-392). *)
THEOREM WindowFreshInvariant == Spec => []WindowFresh
<1>1. Init => FreshInv
  BY FreshInit
<1>2. FreshInv /\ [Next]_vars => FreshInv'
  <2> SUFFICES ASSUME FreshInv, [Next]_vars PROVE FreshInv'
    OBVIOUS
  <2>1. TypeOK'
    BY SeqsPreserved, RestPreserved, Zenon DEF FreshInv, TypeOK, TypeSeqs, TypeRest
  <2>2. ActionsShape'
    BY ShapeStep DEF FreshInv
  <2>3. WindowFresh'
    BY FreshStep
  <2>4. QED
    BY <2>1, <2>2, <2>3 DEF FreshInv
<1>3. QED
  BY <1>1, <1>2, PTL DEF Spec, FreshInv

-----------------------------------------------------------------------------
(* The order the tracer's FIFO channel imposes: nothing is listed before  *)
(* the root pid is known, the channel is empty before the root is         *)
(* spawned, and while the pid is unknown the next event App reads is      *)
(* RootChildSpawn.                                                         *)
RootOrder ==
    /\ rootPid = NoPid => items = <<>>
    /\ tracerPhase = "idle" => chan = <<>>
    /\ (rootPid = NoPid /\ tracerPhase # "idle") =>
           chan # <<>> /\ Head(chan) = "RootChildSpawn"

(* Steps that leave the root pid, the list, the channel and the tracer's *)
(* phase alone keep RootOrder.                                           *)
LEMMA OrderFrame ==
    ASSUME RootOrder, UNCHANGED <<rootPid, items, chan, tracerPhase>>
    PROVE  RootOrder'
BY DEF RootOrder

LEMMA OrderStep == TypeOK /\ RootOrder /\ [Next]_vars => RootOrder'
<1> SUFFICES ASSUME TypeOK, RootOrder, [Next]_vars PROVE RootOrder'
  OBVIOUS
<1>0. chan \in Seq(TracerKinds) /\ rootPid \in {RootPid, NoPid} /\ RootPid # NoPid
  BY ConstAssumption DEF TypeOK
<1>1. CASE ReceiveTracerEvent
  <2>1. chan # <<>> /\ tracerPhase # "idle"
    BY <1>1 DEF ReceiveTracerEvent, RootOrder
  <2>2. CASE Head(chan) = "RootChildSpawn"
    BY <1>0, <1>1, <2>1, <2>2 DEF ReceiveTracerEvent, RootOrder
  <2>3. CASE Head(chan) # "RootChildSpawn"
    <3>1. rootPid = RootPid
      BY <1>0, <2>1, <2>3 DEF RootOrder
    <3>2. QED
      BY <1>0, <1>1, <2>1, <2>3, <3>1 DEF ReceiveTracerEvent, RootOrder
  <2>4. QED
    BY <2>2, <2>3
<1>2. CASE TracerSpawnRoot
  BY <1>2 DEF TracerSpawnRoot, RootOrder
<1>3. CASE TracerExec \/ RootExit
  <2>1. tracerPhase = "running" /\ tracerPhase' # "idle"
    BY <1>3 DEF TracerExec, RootExit
  <2>2. \E e \in TracerKinds : chan' = Append(chan, e)
    BY <1>3 DEF TracerExec, RootExit, TracerKinds
  <2>3. UNCHANGED <<rootPid, items>>
    BY <1>3 DEF TracerExec, RootExit
  <2>4. QED
    BY <1>0, <2>1, <2>2, <2>3 DEF RootOrder
<1>4. ASSUME NEW k \in Keys, ReceiveKey(k) PROVE RootOrder'
  BY <1>4, OrderFrame DEF ReceiveKey, env
<1>5. CASE ReceiveShouldQuit \/ ReceiveRender \/ ReceiveResize \/ ReceiveInit
           \/ ReceiveError
  BY <1>5, OrderFrame DEF ReceiveShouldQuit, ReceiveRender, ReceiveResize, ReceiveInit,
                          ReceiveError, env
<1>6. CASE HandleAction \/ ActionsDrained \/ AppExit
  BY <1>6, OrderFrame DEF HandleAction, ActionsDrained, AppExit, env
<1>7. CASE PidReuse \/ TerminalResize \/ Terminated
  BY <1>7, OrderFrame DEF PidReuse, TerminalResize, Terminated, vars
<1>8. CASE UNCHANGED vars
  BY <1>8, OrderFrame DEF vars
<1>9. QED
  BY <1>1, <1>2, <1>3, <1>4, <1>5, <1>6, <1>7, <1>8 DEF Next

(* App lists a tracer event only after it has recorded the root pid from *)
(* RootChildSpawn (app.rs 221-243), in every interleaving of keys,       *)
(* resizes and tracer events: the channel is FIFO and RootChildSpawn is  *)
(* the tracer's first event.                                             *)
THEOREM RootKnownBeforeItemsInvariant == Spec => []RootKnownBeforeItems
<1>1. Init => RootOrder
  BY DEF Init, RootOrder
<1>2. Spec => []TypeOK
  BY TypeCorrect
<1>3. Spec => []RootOrder
  BY <1>1, <1>2, OrderStep, PTL DEF Spec
<1>4. TypeOK /\ RootOrder => RootKnownBeforeItems
  BY DEF TypeOK, RootOrder, RootKnownBeforeItems
<1>5. QED
  BY <1>2, <1>3, <1>4, PTL

-----------------------------------------------------------------------------
(* A side of 40 cells or more split at 10..90 percent, rounded down,     *)
(* leaves both parts 4 cells or more.                                    *)
LEMMA PercentageFits ==
    ASSUME NEW n \in Nat, n >= 40, NEW sp \in 10..90
    PROVE  /\ PercentageLen(n, sp) >= 4
           /\ n - PercentageLen(n, sp) >= 4
<1> DEFINE q == (n * sp) \div 100
<1>1. n * sp >= 400 /\ n * sp <= 90 * n
  BY SMT
<1>2. q \in Nat /\ 100 * q <= n * sp /\ n * sp < 100 * q + 100
  BY SMT
<1>3. q >= 4
  BY <1>1, <1>2, SMT
<1>4. n - q >= 4
  BY <1>1, <1>2, SMT
<1>5. QED
  BY <1>3, <1>4 DEF PercentageLen

(* A roomy terminal fits both panes at every split of a pty session. *)
LEMMA RoomyFits ==
    ASSUME NEW sz \in Nat \X Nat, Roomy(sz), NEW sp \in 10..90, NEW lay \in Layouts
    PROVE  ~TooSmall(EventArea(sz, sp, lay), TermArea(sz, sp, lay))
<1>0. /\ EventArea(sz, sp, lay).w \in Int /\ EventArea(sz, sp, lay).h \in Int
      /\ TermArea(sz, sp, lay).w \in Int /\ TermArea(sz, sp, lay).h \in Int
  <2>1. sp \in 0..100
    OBVIOUS
  <2>2. QED
    BY <2>1, AreasInt
<1>1. sz[1] \in Nat /\ sz[1] >= 40 /\ RestHeight(sz) \in Nat /\ RestHeight(sz) >= 40
  BY DEF Roomy, RestHeight
<1>2. /\ PercentageLen(sz[1], sp) >= 4 /\ sz[1] - PercentageLen(sz[1], sp) >= 4
      /\ PercentageLen(RestHeight(sz), sp) >= 4
      /\ RestHeight(sz) - PercentageLen(RestHeight(sz), sp) >= 4
  BY <1>1, PercentageFits
<1>3. CASE lay = "Horizontal"
  <2>1. /\ EventArea(sz, sp, lay).w = PercentageLen(sz[1], sp)
        /\ EventArea(sz, sp, lay).h = RestHeight(sz)
        /\ TermArea(sz, sp, lay).w = sz[1] - PercentageLen(sz[1], sp)
        /\ TermArea(sz, sp, lay).h = RestHeight(sz)
    BY <1>3 DEF EventArea, TermArea
  <2>2. /\ EventArea(sz, sp, lay).w >= 4 /\ EventArea(sz, sp, lay).h >= 4
        /\ TermArea(sz, sp, lay).w >= 4 /\ TermArea(sz, sp, lay).h >= 4
    BY <1>1, <1>2, <2>1
  <2>3. QED
    BY <1>0, <2>2 DEF TooSmall
<1>4. CASE lay = "Vertical"
  <2>1. /\ EventArea(sz, sp, lay).w = sz[1]
        /\ EventArea(sz, sp, lay).h = PercentageLen(RestHeight(sz), sp)
        /\ TermArea(sz, sp, lay).w = sz[1]
        /\ TermArea(sz, sp, lay).h = RestHeight(sz) - PercentageLen(RestHeight(sz), sp)
    BY <1>4 DEF EventArea, TermArea
  <2>2. /\ EventArea(sz, sp, lay).w >= 4 /\ EventArea(sz, sp, lay).h >= 4
        /\ TermArea(sz, sp, lay).w >= 4 /\ TermArea(sz, sp, lay).h >= 4
    BY <1>1, <1>2, <2>1
  <2>3. QED
    BY <1>0, <2>2 DEF TooSmall
<1>5. QED
  BY <1>3, <1>4 DEF Layouts

(* The one step that takes a Render off a non-empty action channel is   *)
(* HandleAction applying it.                                             *)
RenderTaken ==
    /\ phase = "actions" /\ actions # <<>> /\ Head(actions) = "Render"
    /\ actions' = Tail(actions) /\ Roomy(size)

LEMMA RoomyRenderStep ==
    ASSUME HasTerm, TypeOK, SplitBounded, [Next]_vars, RenderTaken
    PROVE  drawn' = "list"
<1>0. actions \in Seq(ActionKinds) /\ actions # <<>> /\ actions' = Tail(actions)
  BY DEF TypeOK, RenderTaken
<1>1. actions' # actions
  BY <1>0
<1>2. HandleAction
  BY <1>1 DEF Next, ReceiveKey, ReceiveShouldQuit, ReceiveRender, ReceiveResize,
              ReceiveInit, ReceiveError, ReceiveTracerEvent, Dispatch, RenderTaken,
              ActionsDrained, AppExit, TracerSpawnRoot, TracerExec, RootExit, PidReuse,
              TerminalResize, Terminated, vars
<1>3. Render /\ size \in Nat \X Nat /\ split \in 10..90 /\ layout \in Layouts
  <2>1. split \in 10..90
    BY DEF SplitBounded
  <2>2. size \in Nat \X Nat /\ layout \in Layouts
    BY ConstAssumption DEF TypeOK
  <2>3. Apply("Render")
    BY <1>2, Zenon DEF HandleAction, RenderTaken
  <2>4. Render
    BY <2>3, Zenon DEF Apply, NavActions
  <2>5. QED
    BY <2>1, <2>2, <2>4
<1>4. ~TooSmall(EventArea(size, split, layout), TermArea(size, split, layout))
  BY <1>3, RoomyFits DEF RenderTaken
<1>5. QED
  BY <1>3, <1>4 DEF Render

(* With a pseudo terminal, App::render (app.rs 342-392) draws the event  *)
(* list whenever the terminal is roomy, for every key sequence and       *)
(* resize: the "too small" message of ListDrawnWhenRoomy's violation      *)
(* comes from the 0% pane of a session without a pty, and only from it.  *)
THEOREM RoomyDrawsListWithPty == HasTerm => (Spec => ListDrawnWhenRoomy)
<1> SUFFICES ASSUME HasTerm PROVE Spec => ListDrawnWhenRoomy
  OBVIOUS
<1>1. Spec => []TypeOK
  BY TypeCorrect
<1>2. Spec => []SplitBounded
  BY SplitBoundedInvariant
<1>3. TypeOK /\ SplitBounded /\ [Next]_vars => [RenderTaken => drawn' = "list"]_vars
  BY RoomyRenderStep
<1>4. QED
  BY <1>1, <1>2, <1>3, PTL DEF Spec, ListDrawnWhenRoomy, RenderTaken

-----------------------------------------------------------------------------
(* No event lost, duplicated or reordered between the tracer and App.     *)
(*                                                                         *)
(* NoEventLost is not inductive by itself: taking RootChildSpawn from the *)
(* channel must find the root pid unknown, and spawning must find nothing *)
(* sent.  LossInv adds RootOrder and two facts the tracer's order gives:  *)
(* nothing has happened while it is idle, and RootChildSpawn is in the   *)
(* channel only at its head and only while root_pid is unset.            *)
IdleClean == tracerPhase = "idle" => execCount = 0 /\ rootPid = NoPid
SpawnOnlyFirst ==
    \A j \in 1..Len(chan) : chan[j] = "RootChildSpawn" => j = 1 /\ rootPid = NoPid
LossInv == TypeOK /\ RootOrder /\ IdleClean /\ SpawnOnlyFirst /\ NoEventLost

LossPart == IdleClean /\ SpawnOnlyFirst /\ NoEventLost

(* One exec more is one "Exec" more at the end of the history. *)
LEMMA ExecsAppend ==
    ASSUME NEW n \in Nat
    PROVE  [k \in 1..(n + 1) |-> "Exec"] = [k \in 1..n |-> "Exec"] \o <<"Exec">>
OBVIOUS

(* A non-empty channel is its head followed by its tail. *)
LEMMA HeadTail ==
    ASSUME NEW S, NEW s \in Seq(S), s # <<>>
    PROVE  s = <<Head(s)>> \o Tail(s)
OBVIOUS

(* Concatenation of sequences is associative. *)
LEMMA ConcatAssoc ==
    ASSUME NEW S, NEW a \in Seq(S), NEW b \in Seq(S), NEW c \in Seq(S)
    PROVE  (a \o b) \o c = a \o (b \o c)
OBVIOUS

(* What App has taken is a sequence of tracer events. *)
LEMMA SeenTyped ==
    ASSUME TypeOK PROVE SeenHist \in Seq(TracerKinds)
<1>1. items \in Seq(TracerKinds)
  BY DEF TypeOK
<1>2. CASE rootPid = NoPid
  BY <1>1, <1>2 DEF SeenHist
<1>3. CASE rootPid # NoPid
  <2>1. <<"RootChildSpawn">> \in Seq(TracerKinds)
    BY DEF TracerKinds
  <2>2. QED
    BY <1>1, <1>3, <2>1 DEF SeenHist
<1>4. QED
  BY <1>2, <1>3

(* Steps that leave the root pid, the list, the channel and the tracer  *)
(* alone keep LossPart.                                                  *)
LEMMA LossFrame ==
    ASSUME LossPart, UNCHANGED <<rootPid, items, chan, tracerPhase, execCount>>
    PROVE  LossPart'
BY DEF LossPart, IdleClean, SpawnOnlyFirst, NoEventLost, SentHist, SeenHist

LEMMA LossStep == TypeOK /\ RootOrder /\ LossPart /\ [Next]_vars => LossPart'
<1> SUFFICES ASSUME TypeOK, RootOrder, LossPart, [Next]_vars PROVE LossPart'
  OBVIOUS
<1>0. /\ chan \in Seq(TracerKinds) /\ items \in Seq(TracerKinds)
      /\ rootPid \in {RootPid, NoPid} /\ RootPid # NoPid /\ execCount \in Nat
  BY ConstAssumption DEF TypeOK
<1>1. CASE ReceiveTracerEvent
  <2>1. chan # <<>> /\ tracerPhase # "idle"
        /\ chan' = Tail(chan) /\ UNCHANGED <<tracerPhase, execCount>>
    BY <1>1 DEF ReceiveTracerEvent, RootOrder
  <2>2. chan = <<Head(chan)>> \o Tail(chan)
    BY <1>0, <2>1, HeadTail
  <2>3. SpawnOnlyFirst'
    <3>1. \A j \in 2..Len(chan) : chan[j] # "RootChildSpawn"
      BY DEF LossPart, SpawnOnlyFirst
    <3>2. \A j \in 1..Len(chan') : chan'[j] # "RootChildSpawn"
      BY <1>0, <2>1, <3>1
    <3>3. QED
      BY <3>2 DEF SpawnOnlyFirst
  <2>4. CASE Head(chan) = "RootChildSpawn"
    <3>1. rootPid = NoPid /\ items = <<>>
      BY <1>0, <2>1, <2>4 DEF LossPart, SpawnOnlyFirst, RootOrder
    <3>2. rootPid' = RootPid /\ items' = items
      BY <1>1, <2>4 DEF ReceiveTracerEvent
    <3>3. SeenHist' \o chan' = SeenHist \o chan
      BY <1>0, <2>1, <2>2, <2>4, <3>1, <3>2 DEF SeenHist
    <3>4. SentHist' = SentHist
      BY <2>1 DEF SentHist
    <3>5. SpawnOnlyFirst' /\ IdleClean'
      BY <2>1, <2>3 DEF IdleClean
    <3>6. QED
      BY <3>3, <3>4, <3>5 DEF LossPart, NoEventLost
  <2>5. CASE Head(chan) # "RootChildSpawn"
    <3>1. rootPid' = rootPid /\ items' = Append(items, Head(chan))
      BY <1>1, <2>5 DEF ReceiveTracerEvent
    <3>2. SeenHist' = SeenHist \o <<Head(chan)>>
      BY <1>0, <3>1 DEF SeenHist
    <3>3. SeenHist' \o chan' = SeenHist \o chan
      <4>1. SeenHist \in Seq(TracerKinds) /\ <<Head(chan)>> \in Seq(TracerKinds)
            /\ Tail(chan) \in Seq(TracerKinds)
        BY <1>0, <2>1, SeenTyped
      <4>2. (SeenHist \o <<Head(chan)>>) \o Tail(chan)
            = SeenHist \o (<<Head(chan)>> \o Tail(chan))
        BY <4>1, ConcatAssoc
      <4>3. QED
        BY <2>1, <2>2, <3>2, <4>2
    <3>4. SentHist' = SentHist
      BY <2>1 DEF SentHist
    <3>5. QED
      BY <2>1, <2>3, <3>3, <3>4 DEF LossPart, NoEventLost, IdleClean
  <2>6. QED
    BY <2>4, <2>5
<1>2. CASE TracerSpawnRoot
  <2>1. /\ tracerPhase = "idle" /\ execCount = 0 /\ rootPid = NoPid
        /\ chan = <<>> /\ items = <<>>
    BY <1>2 DEF TracerSpawnRoot, LossPart, IdleClean, RootOrder
  <2>2. /\ tracerPhase' = "running" /\ chan' = <<"RootChildSpawn">>
        /\ UNCHANGED <<rootPid, items, execCount>>
    BY <1>2, <2>1 DEF TracerSpawnRoot
  <2>3. SentHist' = <<"RootChildSpawn">> /\ SeenHist' = <<>>
    BY <2>1, <2>2 DEF SentHist, SeenHist
  <2>4. QED
    BY <2>1, <2>2, <2>3 DEF LossPart, IdleClean, SpawnOnlyFirst, NoEventLost
<1>3. CASE TracerExec \/ RootExit
  <2>1. tracerPhase = "running" /\ UNCHANGED <<rootPid, items>>
    BY <1>3 DEF TracerExec, RootExit
  <2>2. \E e \in {"Exec", "RootChildExit"} :
          /\ chan' = chan \o <<e>>
          /\ SentHist' = SentHist \o <<e>>
    <3>1. CASE TracerExec
      <4>1. chan' = chan \o <<"Exec">> /\ execCount' = execCount + 1
            /\ tracerPhase' = "running"
        BY <1>0, <3>1 DEF TracerExec
      <4>2. SentHist' = SentHist \o <<"Exec">>
        BY <1>0, <2>1, <4>1, ExecsAppend DEF SentHist
      <4>3. QED
        BY <4>1, <4>2
    <3>2. CASE RootExit
      <4>1. chan' = chan \o <<"RootChildExit">> /\ execCount' = execCount
            /\ tracerPhase' = "done"
        BY <1>0, <3>2 DEF RootExit
      <4>2. SentHist' = SentHist \o <<"RootChildExit">>
        BY <1>0, <2>1, <4>1 DEF SentHist
      <4>3. QED
        BY <4>1, <4>2
    <3>3. QED
      BY <1>3, <3>1, <3>2
  <2>3. PICK e \in {"Exec", "RootChildExit"} :
          chan' = chan \o <<e>> /\ SentHist' = SentHist \o <<e>>
    BY <2>2
  <2>4. SeenHist' = SeenHist
    BY <2>1 DEF SeenHist
  <2>5. NoEventLost'
    <3>1. SeenHist \in Seq(TracerKinds) /\ <<e>> \in Seq(TracerKinds)
      BY SeenTyped DEF TracerKinds
    <3>2. (SeenHist \o chan) \o <<e>> = SeenHist \o (chan \o <<e>>)
      BY <1>0, <3>1, ConcatAssoc
    <3>3. QED
      BY <2>3, <2>4, <3>2 DEF LossPart, NoEventLost
  <2>6. SpawnOnlyFirst'
    BY <1>0, <2>1, <2>3 DEF LossPart, SpawnOnlyFirst
  <2>7. IdleClean'
    BY <1>3 DEF TracerExec, RootExit, IdleClean
  <2>8. QED
    BY <2>5, <2>6, <2>7 DEF LossPart
<1>4. ASSUME NEW k \in Keys, ReceiveKey(k) PROVE LossPart'
  BY <1>4, LossFrame DEF ReceiveKey, env
<1>5. CASE ReceiveShouldQuit \/ ReceiveRender \/ ReceiveResize \/ ReceiveInit
           \/ ReceiveError
  BY <1>5, LossFrame DEF ReceiveShouldQuit, ReceiveRender, ReceiveResize, ReceiveInit,
                         ReceiveError, env
<1>6. CASE HandleAction \/ ActionsDrained \/ AppExit
  BY <1>6, LossFrame DEF HandleAction, ActionsDrained, AppExit, env
<1>7. CASE PidReuse \/ TerminalResize \/ Terminated
  BY <1>7, LossFrame DEF PidReuse, TerminalResize, Terminated, vars
<1>8. CASE UNCHANGED vars
  BY <1>8, LossFrame DEF vars
<1>9. QED
  BY <1>1, <1>2, <1>3, <1>4, <1>5, <1>6, <1>7, <1>8 DEF Next

(* Whatever the interleaving of keys, resizes, renders and tracer events, *)
(* App::run takes every event the tracer sent exactly once and in order: *)
(* RootChildSpawn into root_pid, the others into the event list, and     *)
(* the rest is still in the channel (app.rs 221-229).                    *)
LEMMA LossPartInvariant == Spec => []LossPart
<1>1. Init => LossPart
  BY DEF Init, LossPart, IdleClean, SpawnOnlyFirst, NoEventLost, SentHist, SeenHist
<1>2. Init => RootOrder
  BY DEF Init, RootOrder
<1>3. Spec => []TypeOK
  BY TypeCorrect
<1>4. Spec => []RootOrder
  BY <1>2, <1>3, OrderStep, PTL DEF Spec
<1>5. QED
  BY <1>1, <1>3, <1>4, LossStep, PTL DEF Spec

THEOREM NoEventLostInvariant == Spec => []NoEventLost
BY LossPartInvariant, PTL DEF LossPart

====
