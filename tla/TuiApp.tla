------------------------------ MODULE TuiApp ------------------------------
(***************************************************************************)
(* The interactive consumer of tracexec (src/tui/app.rs, App).             *)
(*                                                                         *)
(* App::run is one async task: it awaits the next Event of the Tui         *)
(* (terminal keys, frame ticks, resizes, and the TracerEvents forwarded    *)
(* from the tracer thread's unbounded channel), turns it into at most one  *)
(* Action on its own action channel, and then drains that channel.         *)
(* App::exit runs after run returns and signals the root process.          *)
(*                                                                         *)
(* The environment of the App is modelled from the spec (its code is not  *)
(* under src/): the Tui event source, the tracer thread that sends         *)
(* RootChildSpawn, exec events and RootChildExit on the channel, and the   *)
(* kernel, which reaps the root pid and may hand it to an unrelated        *)
(* process.                                                                *)
(***************************************************************************)
EXTENDS Integers, Sequences, FiniteSets

CONSTANTS
    HasTerm,          \* pty_master.is_some(): a pseudo terminal pane exists
    InitPane,         \* the active_pane asked for on the command line
    InitLayout,       \* the layout asked for on the command line
    Keys,             \* key events the user may type: [code, mods] records
    Sizes,            \* terminal sizes <<width, height>> the user may pick
    InitSize,         \* the terminal size when the TUI starts
    MaxExec,          \* bound on the exec events the tracer emits
    TerminateOnExit,  \* App::exit(terminate_on_exit, _)
    KillOnExit,       \* App::exit(_, kill_on_exit)
    RootPid,          \* the pid the kernel gives the root child
    NoPid             \* root_pid = None

Panes == {"Events", "Terminal"}
Layouts == {"Horizontal", "Vertical"}
KeyCodes == {"s", "q", "j", "g", "l", "c", "x"}
KeyMods == {"NONE", "CONTROL", "ALT"}
NavActions == {"NextItem", "PageDown", "PageRight", "ScrollRight"}
ActionKinds == {"Quit", "Render", "Resize", "SwitchActivePane", "GrowPane",
                "ShrinkPane", "SwitchLayout", "CopyToClipboard",
                "HandleTerminalKeyPress"} \cup NavActions
TracerKinds == {"RootChildSpawn", "Exec", "RootChildExit"}

ASSUME ConstAssumption ==
    /\ HasTerm \in BOOLEAN
    /\ InitPane \in Panes
    /\ InitLayout \in Layouts
    /\ Keys \subseteq [code : KeyCodes, mods : KeyMods]
    /\ Sizes \subseteq (Nat \X Nat) /\ InitSize \in Sizes
    /\ MaxExec \in Nat
    /\ TerminateOnExit \in BOOLEAN /\ KillOnExit \in BOOLEAN
    /\ RootPid # NoPid

VARIABLES
    phase,        \* "event": awaiting tui.next(); "actions": draining;
                  \* "returned": run returned; "exited": App::exit done
    actions,      \* the action channel of App::run
    activePane, split, layout,
    resizeFlag,   \* should_handle_internal_resize
    maxWindowLen, \* event_list.max_window_len
    ptySize,      \* <<rows, cols>> last given to the pseudo terminal
    drawn,        \* what the last Render drew: "none", "small" or "list"
    rootPid,      \* root_pid
    items,        \* event_list.items
    size,         \* the terminal's real size
    resizePending,\* the terminal changed size; Event::Resize not yet read
    initPending,  \* Event::Init not yet read
    chan,         \* tracer events sent and not yet read by the Tui
    tracerPhase,  \* "idle", "running" or "done"
    execCount,    \* exec events sent so far
    pidOwner,     \* who owns RootPid in the kernel: "none", "root", "other"
    signalled,    \* owners of RootPid hit by a signal from App::exit
    exitOwner     \* owner of RootPid when App::exit ran ("unset" before)

view == <<activePane, split, layout, resizeFlag, maxWindowLen, ptySize, drawn>>
env == <<size, resizePending, initPending, chan, tracerPhase, execCount, pidOwner>>
vars == <<phase, actions, rootPid, items, signalled, exitOwner,
          activePane, split, layout, resizeFlag, maxWindowLen, ptySize, drawn,
          size, resizePending, initPending, chan, tracerPhase, execCount, pidOwner>>

-----------------------------------------------------------------------------
(* Layout of App::render: a header and a footer of 2 rows each; the rest  *)
(* split by Percentage(split) / Percentage(100 - split).  The constraint  *)
(* solver's rounding is abstracted to rounding down.                      *)
RestHeight(sz) == IF sz[2] >= 4 THEN sz[2] - 4 ELSE 0
PercentageLen(n, p) == (n * p) \div 100
EventArea(sz, sp, lay) ==
    IF lay = "Horizontal"
    THEN [w |-> PercentageLen(sz[1], sp), h |-> RestHeight(sz)]
    ELSE [w |-> sz[1], h |-> PercentageLen(RestHeight(sz), sp)]
TermArea(sz, sp, lay) ==
    IF lay = "Horizontal"
    THEN [w |-> sz[1] - PercentageLen(sz[1], sp), h |-> RestHeight(sz)]
    ELSE [w |-> sz[1], h |-> RestHeight(sz) - PercentageLen(RestHeight(sz), sp)]
TooSmall(ev, tm) == ev.w < 4 \/ tm.w < 4 \/ ev.h < 4 \/ tm.h < 4

(* Mutant: shrink without the max(10) floor. *)
ShrinkPaneNoFloor(sp) == IF HasTerm THEN IF sp - 1 < 0 THEN 0 ELSE sp - 1 ELSE sp

(* shrink_pane and grow_pane on the split percentage *)
ShrinkPane(sp) == IF HasTerm THEN IF sp - 1 < 10 THEN 10 ELSE sp - 1 ELSE sp
GrowPane(sp) == IF HasTerm THEN IF sp + 1 > 90 THEN 90 ELSE sp + 1 ELSE sp

(* The action a key press sends in App::run, as a sequence of 0 or 1.     *)
NavKey(mods, ctrlAction, plainAction) ==
    CASE mods = "CONTROL" -> <<ctrlAction>>
      [] mods = "NONE"    -> <<plainAction>>
      [] OTHER            -> <<>>
PlainKey(mods, a) == IF mods = "NONE" THEN <<a>> ELSE <<>>
KeyAction(k, pane) ==
    IF k.code = "s" /\ k.mods = "CONTROL" THEN <<"SwitchActivePane">>
    ELSE IF pane # "Events" THEN <<"HandleTerminalKeyPress">>
    ELSE CASE k.code = "q" -> <<"Quit">>
           [] k.code = "j" -> NavKey(k.mods, "PageDown", "NextItem")
           [] k.code = "l" /\ k.mods # "ALT" ->
                              NavKey(k.mods, "PageRight", "ScrollRight")
           [] k.code = "l" -> <<"SwitchLayout">>
           [] k.code = "g" -> PlainKey(k.mods, "GrowPane")
           [] k.code = "s" -> PlainKey(k.mods, "ShrinkPane")
           [] k.code = "c" -> PlainKey(k.mods, "CopyToClipboard")
           [] OTHER        -> <<>>

-----------------------------------------------------------------------------
(* App::new *)
Init ==
    /\ phase = "event"
    /\ actions = <<>>
    /\ activePane = IF HasTerm THEN InitPane ELSE "Events"
    /\ split = IF HasTerm THEN 50 ELSE 100
    /\ layout = InitLayout
    /\ resizeFlag = TRUE
    /\ maxWindowLen = 0
    /\ ptySize = <<24, 80>>
    /\ drawn = "none"
    /\ rootPid = NoPid
    /\ items = <<>>
    /\ size = InitSize
    /\ resizePending = FALSE
    /\ initPending = TRUE
    /\ chan = <<>>
    /\ tracerPhase = "idle"
    /\ execCount = 0
    /\ pidOwner = "none"
    /\ signalled = {}
    /\ exitOwner = "unset"

(* tui.next() yields an event; App::run sends the actions it maps to. *)
Dispatch(acts) ==
    /\ phase = "event"
    /\ phase' = "actions"
    /\ actions' = acts

ReceiveKey(k) ==
    /\ Dispatch(KeyAction(k, activePane))
    /\ UNCHANGED <<rootPid, items, signalled, exitOwner>>
    /\ UNCHANGED view /\ UNCHANGED env

ReceiveShouldQuit ==
    /\ Dispatch(<<"Quit">>)
    /\ UNCHANGED <<rootPid, items, signalled, exitOwner>>
    /\ UNCHANGED view /\ UNCHANGED env

ReceiveRender ==
    /\ Dispatch(<<"Render">>)
    /\ UNCHANGED <<rootPid, items, signalled, exitOwner>>
    /\ UNCHANGED view /\ UNCHANGED env

ReceiveResize ==
    /\ resizePending
    /\ Dispatch(<<"Resize">>)
    /\ resizePending' = FALSE
    /\ UNCHANGED <<rootPid, items, signalled, exitOwner>> /\ UNCHANGED view
    /\ UNCHANGED <<size, initPending, chan, tracerPhase, execCount, pidOwner>>

ReceiveInit ==
    /\ initPending
    /\ Dispatch(<<"Resize">>)
    /\ initPending' = FALSE
    /\ UNCHANGED <<rootPid, items, signalled, exitOwner>> /\ UNCHANGED view
    /\ UNCHANGED <<size, resizePending, chan, tracerPhase, execCount, pidOwner>>

ReceiveError ==
    /\ Dispatch(<<>>)
    /\ UNCHANGED <<rootPid, items, signalled, exitOwner>>
    /\ UNCHANGED view /\ UNCHANGED env

(* Mutant: RootChildSpawn falls into the `te =>` arm and is listed. *)
ReceiveTracerEventListAll ==
    /\ chan # <<>>
    /\ Dispatch(<<>>)
    /\ chan' = Tail(chan)
    /\ items' = Append(items, Head(chan))
    /\ UNCHANGED <<rootPid, signalled, exitOwner>> /\ UNCHANGED view
    /\ UNCHANGED <<size, resizePending, initPending, tracerPhase, execCount, pidOwner>>

(* Mutant: the `te =>` arm drops the event instead of pushing it. *)
ReceiveTracerEventDropOthers ==
    /\ chan # <<>>
    /\ Dispatch(<<>>)
    /\ chan' = Tail(chan)
    /\ IF Head(chan) = "RootChildSpawn"
       THEN rootPid' = RootPid
       ELSE UNCHANGED rootPid
    /\ UNCHANGED <<items, signalled, exitOwner>> /\ UNCHANGED view
    /\ UNCHANGED <<size, resizePending, initPending, tracerPhase, execCount, pidOwner>>

(* Event::Tracer: RootChildSpawn records the root pid, others are listed *)
ReceiveTracerEvent ==
    /\ chan # <<>>
    /\ Dispatch(<<>>)
    /\ chan' = Tail(chan)
    /\ IF Head(chan) = "RootChildSpawn"
       THEN rootPid' = RootPid /\ UNCHANGED items
       ELSE items' = Append(items, Head(chan)) /\ UNCHANGED rootPid
    /\ UNCHANGED <<signalled, exitOwner>> /\ UNCHANGED view
    /\ UNCHANGED <<size, resizePending, initPending, tracerPhase, execCount, pidOwner>>

-----------------------------------------------------------------------------
(* The arms of the action loop of App::run.  Each leaves the rest of the  *)
(* view alone; event_list navigation, the pty key write and the clipboard *)
(* are outside the model.                                                 *)
(* Mutant: the pending resize is applied before the too-small check. *)
RenderResizeFirst ==
    LET ev == EventArea(size, split, layout)
        tm == TermArea(size, split, layout)
    IN  /\ drawn' = IF TooSmall(ev, tm) THEN "small" ELSE "list"
        /\ resizeFlag' = FALSE
        /\ IF resizeFlag
           THEN /\ maxWindowLen' = ev.h - 2
                /\ ptySize' = IF HasTerm THEN <<tm.h - 2, tm.w - 2>> ELSE ptySize
           ELSE UNCHANGED <<maxWindowLen, ptySize>>
        /\ UNCHANGED <<activePane, split, layout>>

Render ==
    LET ev == EventArea(size, split, layout)
        tm == TermArea(size, split, layout)
    IN  \/ /\ TooSmall(ev, tm)
           /\ drawn' = "small"
           /\ UNCHANGED <<activePane, split, layout, resizeFlag, maxWindowLen, ptySize>>
        \/ /\ ~TooSmall(ev, tm)
           /\ drawn' = "list"
           /\ resizeFlag' = FALSE
           /\ IF resizeFlag
              THEN /\ maxWindowLen' = ev.h - 2
                   /\ ptySize' = IF HasTerm THEN <<tm.h - 2, tm.w - 2>> ELSE ptySize
              ELSE UNCHANGED <<maxWindowLen, ptySize>>
           /\ UNCHANGED <<activePane, split, layout>>

OnResize ==
    /\ resizeFlag' = TRUE
    /\ UNCHANGED <<activePane, split, layout, maxWindowLen, ptySize, drawn>>

(* Mutant: ShrinkPane forgets should_handle_internal_resize = true. *)
OnShrinkPaneNoFlag ==
    /\ split' = ShrinkPane(split)
    /\ UNCHANGED <<activePane, layout, resizeFlag, maxWindowLen, ptySize, drawn>>

OnShrinkPane ==
    /\ split' = ShrinkPane(split)
    /\ resizeFlag' = TRUE
    /\ UNCHANGED <<activePane, layout, maxWindowLen, ptySize, drawn>>

OnGrowPane ==
    /\ split' = GrowPane(split)
    /\ resizeFlag' = TRUE
    /\ UNCHANGED <<activePane, layout, maxWindowLen, ptySize, drawn>>

OnSwitchLayout ==
    /\ layout' = IF layout = "Horizontal" THEN "Vertical" ELSE "Horizontal"
    /\ resizeFlag' = TRUE
    /\ UNCHANGED <<activePane, split, maxWindowLen, ptySize, drawn>>

OnSwitchActivePane ==
    /\ activePane' = IF activePane = "Events" THEN "Terminal" ELSE "Events"
    /\ UNCHANGED <<split, layout, resizeFlag, maxWindowLen, ptySize, drawn>>

Apply(a) ==
    \/ a = "Render" /\ Render
    \/ a = "Resize" /\ OnResize
    \/ a = "ShrinkPane" /\ OnShrinkPane
    \/ a = "GrowPane" /\ OnGrowPane
    \/ a = "SwitchLayout" /\ OnSwitchLayout
    \/ a = "SwitchActivePane" /\ OnSwitchActivePane
    \/ a \in NavActions \cup {"HandleTerminalKeyPress", "CopyToClipboard"}
       /\ UNCHANGED view

(* action_rx.try_recv() yields an action: Quit returns from run at once, *)
(* dropping what is left on the action channel.                          *)
HandleAction ==
    /\ phase = "actions"
    /\ actions # <<>>
    /\ \/ /\ Head(actions) = "Quit"
          /\ phase' = "returned"
          /\ actions' = <<>>
          /\ UNCHANGED view
       \/ /\ Head(actions) # "Quit"
          /\ actions' = Tail(actions)
          /\ Apply(Head(actions))
          /\ UNCHANGED phase
    /\ UNCHANGED <<rootPid, items, signalled, exitOwner>> /\ UNCHANGED env

(* try_recv finds the action channel empty: back to awaiting tui.next() *)
ActionsDrained ==
    /\ phase = "actions"
    /\ actions = <<>>
    /\ phase' = "event"
    /\ UNCHANGED <<actions, rootPid, items, signalled, exitOwner>>
    /\ UNCHANGED view /\ UNCHANGED env

(* App::exit: SIGTERM or SIGKILL to root_pid if one was recorded.  kill  *)
(* on a pid nobody owns fails with ESRCH and no process is hit.           *)
AppExit ==
    /\ phase = "returned"
    /\ phase' = "exited"
    /\ exitOwner' = pidOwner
    /\ IF (TerminateOnExit \/ KillOnExit) /\ rootPid # NoPid /\ pidOwner # "none"
       THEN signalled' = signalled \cup {pidOwner}
       ELSE UNCHANGED signalled
    /\ UNCHANGED <<actions, rootPid, items>> /\ UNCHANGED view /\ UNCHANGED env

-----------------------------------------------------------------------------
(* Environment, modelled from the spec: the tracer thread, the kernel and *)
(* the user's terminal.                                                    *)
TracerSpawnRoot ==
    /\ tracerPhase = "idle"
    /\ tracerPhase' = "running"
    /\ pidOwner' = "root"
    /\ chan' = Append(chan, "RootChildSpawn")
    /\ UNCHANGED <<execCount, size, resizePending, initPending>>
    /\ UNCHANGED <<phase, actions, rootPid, items, signalled, exitOwner>> /\ UNCHANGED view

TracerExec ==
    /\ tracerPhase = "running"
    /\ execCount < MaxExec
    /\ execCount' = execCount + 1
    /\ chan' = Append(chan, "Exec")
    /\ UNCHANGED <<tracerPhase, pidOwner, size, resizePending, initPending>>
    /\ UNCHANGED <<phase, actions, rootPid, items, signalled, exitOwner>> /\ UNCHANGED view

(* The root exits (by itself or by our signal); the tracer reaps it and   *)
(* sends RootChildExit as its last event.                                 *)
RootExit ==
    /\ tracerPhase = "running"
    /\ pidOwner = "root"
    /\ tracerPhase' = "done"
    /\ pidOwner' = "none"
    /\ chan' = Append(chan, "RootChildExit")
    /\ UNCHANGED <<execCount, size, resizePending, initPending>>
    /\ UNCHANGED <<phase, actions, rootPid, items, signalled, exitOwner>> /\ UNCHANGED view

(* The kernel gives the reaped pid to an unrelated process. *)
PidReuse ==
    /\ pidOwner = "none"
    /\ tracerPhase = "done"
    /\ pidOwner' = "other"
    /\ UNCHANGED <<size, resizePending, initPending, chan, tracerPhase, execCount>>
    /\ UNCHANGED <<phase, actions, rootPid, items, signalled, exitOwner>> /\ UNCHANGED view

TerminalResize ==
    /\ phase \in {"event", "actions"}
    /\ \E s \in Sizes \ {size} : size' = s
    /\ resizePending' = TRUE
    /\ UNCHANGED <<initPending, chan, tracerPhase, execCount, pidOwner>>
    /\ UNCHANGED <<phase, actions, rootPid, items, signalled, exitOwner>> /\ UNCHANGED view

(* The program has exited and the tracer is done. *)
Terminated ==
    /\ phase = "exited"
    /\ tracerPhase = "done"
    /\ UNCHANGED vars

Next ==
    \/ \E k \in Keys : ReceiveKey(k)
    \/ ReceiveShouldQuit \/ ReceiveRender \/ ReceiveResize \/ ReceiveInit
    \/ ReceiveError \/ ReceiveTracerEvent
    \/ HandleAction \/ ActionsDrained \/ AppExit
    \/ TracerSpawnRoot \/ TracerExec \/ RootExit \/ PidReuse \/ TerminalResize
    \/ Terminated

Spec == Init /\ [][Next]_vars

(* The program's own steps after the UI loop returned are weakly fair:   *)
(* App::exit runs.  A root that was sent SIGKILL (kill_on_exit) dies, so  *)
(* the tracer then reaps it; SIGTERM may be ignored and gets no fairness, *)
(* and neither does a root that was not signalled.                       *)
Fairness ==
    /\ WF_vars(AppExit)
    /\ WF_vars(KillOnExit /\ "root" \in signalled /\ RootExit)

FairSpec == Spec /\ Fairness

-----------------------------------------------------------------------------
TypeOK ==
    /\ phase \in {"event", "actions", "returned", "exited"}
    /\ actions \in Seq(ActionKinds)
    /\ activePane \in Panes
    /\ split \in 0..100
    /\ layout \in Layouts
    /\ resizeFlag \in BOOLEAN
    /\ maxWindowLen \in Nat
    /\ ptySize \in Nat \X Nat
    /\ drawn \in {"none", "small", "list"}
    /\ rootPid \in {RootPid, NoPid}
    /\ items \in Seq(TracerKinds)
    /\ size \in Sizes
    /\ resizePending \in BOOLEAN /\ initPending \in BOOLEAN
    /\ chan \in Seq(TracerKinds)
    /\ tracerPhase \in {"idle", "running", "done"}
    /\ execCount \in 0..MaxExec
    /\ pidOwner \in {"none", "root", "other"}
    /\ signalled \subseteq {"root", "other"}
    /\ exitOwner \in {"unset", "none", "root", "other"}

(* The split percentage stays where render's Percentage(100 - split) on a *)
(* u16 cannot underflow and both panes keep a share: 10..90 with a pty,   *)
(* 100 without (shrink_pane / grow_pane clamp with max(10) / min(90)).    *)
SplitBounded == split \in (IF HasTerm THEN 10..90 ELSE {100})

ResizeQueued == \E i \in DOMAIN actions : actions[i] = "Resize"

(* Once a render has consumed should_handle_internal_resize and no resize *)
(* is on its way, the event list window and the pty size fit the current  *)
(* terminal, split and layout: every change of geometry (Resize,          *)
(* Shrink/GrowPane, SwitchLayout) must re-arm the flag.                   *)
WindowFresh ==
    (~resizeFlag /\ ~resizePending /\ ~ResizeQueued) =>
        LET ev == EventArea(size, split, layout)
            tm == TermArea(size, split, layout)
        IN  ~TooSmall(ev, tm) =>
                /\ maxWindowLen = ev.h - 2
                /\ (HasTerm => ptySize = <<tm.h - 2, tm.w - 2>>)

(* A terminal at least 40 columns wide with 40 rows under the header and  *)
(* the footer leaves both panes 4 cells or more for every split 10..90.   *)
Roomy(sz) == sz[1] >= 40 /\ RestHeight(sz) >= 40

(* App::render draws the event list whenever the terminal is roomy: the  *)
(* "Terminal or pane too small" message is for small terminals only.      *)
ListDrawnWhenRoomy ==
    [][(/\ phase = "actions" /\ actions # <<>> /\ Head(actions) = "Render"
        /\ actions' = Tail(actions) /\ Roomy(size)) => drawn' = "list"]_vars

(* App::new forces the Events pane when there is no pseudo terminal: the *)
(* Terminal pane is only ever active when a pty exists.                   *)
PaneNeedsTerm == activePane = "Terminal" => HasTerm

(* The list shows tracer events only after the root pid is known: the    *)
(* channel is FIFO and RootChildSpawn is the tracer's first event.        *)
RootKnownBeforeItems == items # <<>> => rootPid = RootPid

(* What the tracer has sent so far: RootChildSpawn once it spawned the  *)
(* root, one Exec per exec, and RootChildExit once the root was reaped.  *)
SentHist ==
    (IF tracerPhase = "idle" THEN <<>> ELSE <<"RootChildSpawn">>)
    \o [n \in 1..execCount |-> "Exec"]
    \o (IF tracerPhase = "done" THEN <<"RootChildExit">> ELSE <<>>)

(* What App has taken from the channel: RootChildSpawn as root_pid, the  *)
(* other events as items of the event list.                              *)
SeenHist == (IF rootPid = NoPid THEN <<>> ELSE <<"RootChildSpawn">>) \o items

(* The arm for Event::Tracer in App::run, with the unbounded channel:    *)
(* every event the tracer sent is either still in the channel or taken   *)
(* by App, exactly once and in the order sent; RootChildSpawn ends in    *)
(* root_pid and never in the list.                                        *)
NoEventLost == SeenHist \o chan = SentHist

(* App::exit signals no process but the traced root (spec, section 6:     *)
(* the engine "sends no signals to unrelated processes").                 *)
SignalsOnlyRoot == signalled \subseteq {"root"}

(* Spec section 5: a quit in the UI leads to the root being signalled, the *)
(* engine observing its exit and the program ending.  main.rs 115-119     *)
(* restores the terminal and then joins the tracer thread, which returns  *)
(* only when the root has exited.                                         *)
QuitEndsProgram ==
    phase = "returned" ~> (phase = "exited" /\ tracerPhase = "done")
=============================================================================
