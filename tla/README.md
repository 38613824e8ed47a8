# Formal models of tracexec

This directory holds TLA+ models of the parts of tracexec that are under `src/`, TLC configurations that model-check them, and TLAPS proofs. The parts are the terminal UI application (`src/src/tui/app.rs`), the environment-diff printer (`src/src/printer.rs`) and the program entry (`src/src/main.rs`). The tracer engine they talk to is not under `src/`. It is modelled from `spec.md` (`spec_modelled` in the map): as an abstract event stream (`EventStream`), and as the wait loop with its process table (`TracerEngine`), which is proved to implement that stream.

## 1. Inventory

### Components

| Component | Source | State | Operations | Module |
|---|---|---|---|---|
| TUI application `App` | `tui/app.rs` | active pane, split percentage, layout, resize flag, event-list window length, pty size, root pid, listed events | `App::new`; one arm per event of `App::run` (key, ShouldQuit, Render, Resize, Init, Error, Tracer); one arm per action of the action loop; `shrink_pane`, `grow_pane`; geometry part of `render`; `exit` / `signal_root_process` | `TuiApp` |
| Event channel | `main.rs` 95/110, `app.rs` 221 | ordered unbounded queue of tracer events | send by the tracer, receive by the consumer | `TuiApp` (`chan`), `EventStream` (`sent`) |
| Env diff printer | `printer.rs` 41-113 | cloned baseline map, envp cursor, output | parse one entry; compare; remove; print leftovers | `ExecvePrinter`, proofs in `ExecvePrinterProofs` |
| TUI session | `main.rs` 105-120 | - | run the app, then join the tracer | `TuiApp` (`Terminated`) |
| Log session | `main.rs` 95-103 | main's phase, events received, exit code | join the tracer, then receive until RootChildExit | `LogSession` (with `EventStream`) |
| Kernel version check | `main.rs` 64-72, 125-143 | release string, verdict | parse the `uname` release, compare with (4, 8), warn or fail | `KernelVersion` |
| Build script | `build.rs` | - | choose the arch at build time | not modelled (no state) |
| Tracer engine and process table | not under `src/` | per-pid stage, exec_data, events sent, loop position, result | spawn, fork, exec entry/exit, exit notification, fatal error, return | `TracerEngine` refining `EventStream` (spec-modelled); environment of `TuiApp` |
| Decoder, memory reader, seccomp filter | not under `src/` | - | - | not modelled (I/O, kernel program) |

### How the parts interact

`main` spawns the tracer on its own thread. The tracer sends `TracerEvent`s on an unbounded channel. `App::run` takes one event per loop iteration from `tui.next()`. The event is either a terminal event (key, resize, render tick) or a tracer event. A key or terminal event sends at most one `Action` on a second channel. The loop then drains that channel, and each action updates the view. `Quit` returns from `run`. `App::exit` then sends SIGTERM or SIGKILL to the recorded root pid.

Three actors interleave freely:
- the user (keys);
- the terminal (resizes);
- the tracer (events, and the root process exiting and its pid being reused by the kernel).

### Hazards

`PROJECT.json` lists each hazard at its source line. In brief:

- **app.rs 222 / 334 (interleaving).** Tracer events and keys race. `q` may be handled before `RootChildSpawn`.
- **app.rs 335 (stale state).** The root pid is signalled after the pid may have been reused.
- **app.rs 373 (stale state).** The window and pty size are recomputed only when `should_handle_internal_resize` is set.
- **app.rs 352 (numeric edge).** `100 - split` is `u16` arithmetic.
- **app.rs 362.** Without a pty the pane gets a 0% share.
- **app.rs 376 and 385 (numeric edge).** These lines compute `- 2` on pane sides.
- **app.rs 305 (protocol sequence).** Ctrl+S without a pty switches to the missing terminal pane.
- **app.rs 313 and 390 (partial failure).** The clipboard error and the pty resize `unwrap`.
- **main.rs 99 (liveness).** The loop spins if the channel closes without `RootChildExit`.
- **main.rs 119 (deadlock).** The TUI exit blocks on the tracer.
- **main.rs 66 and 136 (partial failure, numeric edge).** An unparsable kernel version, an empty piece or a piece above `u32::MAX` is fatal.
- **main.rs 101 (ordering).** `process::exit` skips destructors: the tracer must have returned, and the code must be the root's.
- **main.rs 98 (partial failure).** A thread `Err` ends main through `?` and skips the drain loop.
- **main.rs 95 (resource bound).** Log mode buffers the whole session in the unbounded channel before reading it.
- **printer.rs 61, 67 and 82.** The `skip(1)` off-by-one, the `&tail[1..]` panic, and the diff's dependence on entry order. `DiffMatchesReference` covers the last only for envps with distinct keys. `RemovedExactlyUnnamed` drops that hypothesis: with a key given twice, the variables reported removed are still exactly the baseline ones no entry names. The second occurrence itself is reported as added or modified depending on the order of the entries, and no run checks that part.

## 2. Plan

1. Sitting 1 built `TuiApp` and `ExecvePrinter`, their violation runs, and the proofs of `TypeOK`, `SplitBounded` and `WindowFresh`.
2. Sitting 2 added:
   - `KernelVersion`, checked against a reference parse;
   - the abstract `EventStream` and the `TracerEngine` that refines it, with the refinement proved;
   - `LogSession`, the log-mode consumer composed with the stream, with a liveness property under fairness;
   - the liveness of quitting the TUI (`QuitEndsProgram`), found violated.
3. Sitting 3 proved:
   - `RootKnownBeforeItems`;
   - that a pty makes a roomy render draw the list;
   - the tracer's TypeOK and its append-only channel (`EventsOnlyAppended`, since removed: it follows from the refinement);
   - the printer's TypeOK and `DiffMatchesReference`.
4. Sitting 4 proved:
   - `NoEventLost`, a new invariant of `tui_session`: App takes every tracer event exactly once and in order.
5. Sitting 5 removed the properties that held whatever the code does:
   - the refinement of the TUI's environment tracer to `EventStream`, which maps only spec-modelled variables;
   - `EventsOnlyAppended`, implied by the engine's refinement;
   - `StreamContract` as a property of `log_session`, since it restates `EventStream`'s own actions. Its proof is kept as a lemma for `EngineStreamContract`.

   It added `RemovedExactlyUnnamed` to `printer_diff`, with its proof: the printer's removed variables are right even when a key is given twice.
6. Still open:
   - composing `TuiApp` with `TracerEngine` instead of its own tracer actions: `TuiApp` has no non-root pids and no exit codes;
   - signal delivery and group-stops in the tracer engine.

## 3. Modules

### `TuiApp.tla` (app.rs)

**Constants.**
- `HasTerm`: whether a pty was given. `App::new` takes an `Option` pty.
- `InitPane`, `InitLayout`.
- `Keys`: the key presses the user may make, as `[code, mods]` records.
- `Sizes`, `InitSize`: terminal sizes as `<<width, height>>`.
- `MaxExec`: a bound on tracer exec events.
- `TerminateOnExit`, `KillOnExit`.
- `RootPid` and `NoPid`: model values.

**Variables.** Each variable corresponds to a field or channel of the code:
- `activePane`, `split`, `layout`, `resizeFlag` (`should_handle_internal_resize`), `maxWindowLen` (`event_list.max_window_len`), `ptySize`, `rootPid` and `items` (`event_list.items`) are the fields of `App`.
- `drawn` records what the last render showed.
- `phase` is where `run` is: awaiting an event, draining actions, returned, or exited.
- `actions` is the action channel.
- `chan` is the tracer event channel.
- `size`, `resizePending` and `initPending` are the terminal.
- `tracerPhase`, `execCount` and `pidOwner` are the tracer and the kernel. `pidOwner` records who owns the pid the root had: the root, nobody, or an unrelated process.
- `signalled` and `exitOwner` record what `exit` did.

**Actions.**
- `Receive*` is one arm of the event `match` (app.rs 130-243), and `Dispatch` is the `tui.next()` step.
- `KeyAction` is the key table (135-219) as a function from a key and the pane to the list of actions sent.
- `HandleAction` pops one action (247-254) and applies it with `Apply`, one disjunct per arm (251-316). `Quit` returns at once.
- `ActionsDrained` is `try_recv` finding the channel empty.
- `Render` is the geometry part of `App::render` (342-392):
  - the layout split of `Layout::vertical` and `Percentage`, as `EventArea` and `TermArea`;
  - the two too-small early returns;
  - the resize block.
- `AppExit` is `exit` with `signal_root_process` (321-338).
- The environment actions come from the spec (`spec_modelled` in the map): `TracerSpawnRoot`, `TracerExec`, `RootExit` (RootChildExit is the tracer's last event, spec §3), `PidReuse` and `TerminalResize`.
- `Terminated` is the stutter after main has joined the tracer (main.rs 115-122).

**History.** `SentHist` is what the tracer has sent, as the channel's kinds. `SeenHist` is what App has taken: RootChildSpawn if `rootPid` is set, then `items`. `NoEventLost` says that `SeenHist \o chan = SentHist`.

**Abstractions.**
- Drawing, scrolling of the event list, the pty key write and the clipboard are left out. Their actions keep the modelled state unchanged.
- Terminal sizes are small pairs.
- Events are model values, without payloads.

### `ExecvePrinter.tla` (printer.rs)

**Strings** are sequences over `{"=", "a", "b", "1", "2"}`.

**Parsing.** `FirstEq` is `position(|&x| x == b'=')` as a 1-based index, 0 for None. It is written as the choice of an index holding '=' with none before it. The module defines its own `Range` and `BoundedSeq` and does not extend SequencesExt, so that the proofs can use it (section 5c). `SepLoc` is the separator search of lines 47-65, with the `skip(1)` fallback. `Splits`, `KeyOf` and `ValueOf` are the `split_at` and `&tail[1..]` of lines 66-67. The slice panics when `SepLoc` is the item's length.

**Actions.** `DiffEntry` is one iteration of the envp loop (46-93):
- the panic, or an M/+ record;
- the removal of a found key from the clone (`RemoveFound`).

`EmitRemoved` is one iteration of the leftover loop (95-104) in any order, since HashMap order is unspecified.

### `KernelVersion.tla` (main.rs 64-72, 125-143)

The release is a sequence of one-character strings, or `NoRelease` for a failing `uname()`.
- `Truncate` is the `position` and `split_at` of lines 128-134.
- `FirstPiece`, `HasSecondPiece` and `AfterFirstDot` are the `split` iterator of line 135 with its two `next()` calls.
- `Atoi` is `atoi::<u32>`: None (-1) for an empty piece, or when the value overflows (`OverflowsU32`, a digit-wise comparison with `u32::MAX`, since TLC's integers are 32-bit signed).
- `Supported` is the tuple comparison of line 142, `KernelCheck` the whole function, and `Check` the call at lines 64-72 with main's reaction: Err ends main, false only warns.

`ReferenceCheck` reads the release independently of the code: a run of digits, a dot, a run of digits, then the end or a non-digit, with decimal values.

### `EventStream.tla` (spec-modelled, the channel contract)

The abstract tracer thread as its consumers see it: `sent`, the events pushed so far, and `tphase` (spawning, tracing, returning, ok, err). Actions: spawn the root and send RootChildSpawn; fail; emit an exec or a non-root exit; the root's exit followed by RootChildExit; return Ok. `StreamContract` is what every consumer relies on.

### `TracerEngine.tla` (spec-modelled, spec 3 and 4.5)

The wait loop of `start_root_process` and its Process State Table:
- `stage[p]` is the lifecycle stage of pid p, or `Absent`; `execData[p]` says whether its entry-time decode is buffered;
- `events` are the events pushed, `loop` the loop position, `result` the return value.

Actions: `SpawnRoot`, `SpawnFails`, `Fork`, `ExecEnter`, `ExecExit`, `ExitNotify` (an exit, or a resume that raced an exit; for the root it pushes RootChildExit and breaks the loop), `SessionFails` and `Return`. Non-exec syscall stops do not change the table and are stutters.

**Refinement mapping.** `sent <- events` and `tphase <- tphaseBar`: the loop position gives the phase (start is spawning, waiting is tracing, broken is returning), and after the return the result does. `ImplementsEventStream == ES!StreamSpec` is checked as a PROPERTY and proved.

### `LogSession.tla` (main.rs 95-103)

It EXTENDS `EventStream` and adds main's side:
- `mphase`: joining, draining, exited (`process::exit`) or failed (main's Err);
- `rcvd`: how many events `recv` has taken; `exitCode`.

`TracerStep` is a step of the stream with main unchanged. `Join` is line 98: enabled once the thread returned, it fails on Err. `Recv` is one round of lines 99-103 that takes an event; a round on the empty, closed channel changes nothing and is a stutter.

### MC modules

`MCTuiApp`, `MCExecvePrinter`, `MCKernelVersion`, `MCTracerEngine` and `MCLogSession` give the constants their values. `MCKernelVersion` sets `Releases` to every string of up to 5 characters over `0 1 4 8 . -`.

## 4. Runs

| Run | Checks | Result |
|---|---|---|
| `tui_geometry` | TypeOK, SplitBounded, WindowFresh | passes, 475k states |
| `tui_session` | RootKnownBeforeItems, NoEventLost | passes, 3.5k states |
| `tui_pane_no_term` | PaneNeedsTerm | violated: Ctrl+S, then the action |
| `tui_render_no_term` | ListDrawnWhenRoomy | violated: the first render of a 40x44 terminal |
| `tui_signals_only_root` | SignalsOnlyRoot | violated: spawn, q, root exits, pid reused, exit |
| `printer_diff` | TypeOK, DiffMatchesReference, RemovedExactlyUnnamed | passes, 11k states |
| `printer_no_panic` | NoPanic | violated by envp `<<"a">>` |
| `printer_entry_rebuilt` | EntryRebuilt | violated by `=a=1` |
| `kernel_version` | CheckMatchesReference | passes, 19k states |
| `tracer_refinement` | TypeOK, ExecDataOnlyInSyscall, ImplementsEventStream | passes, 164k states |
| `log_session` | ExitReflectsSession, LogSessionEnds | passes, 1.7k states |
| `tui_quit_ends` | QuitEndsProgram | violated: q before RootChildSpawn, then main waits forever |

### Passing runs

**`tui_geometry`.**
- Keys: g, s and Alt+L.
- Terminal sizes: 20x12 and 10x8. At 20x12 both panes fit side by side for splits 20..80 and stacked only at 50. At 10x8 they fit only for splits 40..60 side by side. So renders take both the too-small path and the resize path, and the terminal may resize between any two steps.
- The tracer stays idle (a CONSTRAINT): the tracer's steps do not touch the geometry, and leaving them out keeps the run to seconds.

**`tui_session`.**
- Keys: Ctrl+S, q, j, Ctrl+L, c, x and Alt+G.
- A roomy terminal.
- Two exec events, and kill-on-exit set. With two, an exec can be in the channel behind another one while App handles a key.

It covers every interleaving of user keys with the tracer's spawn, exec and exit events, and pid reuse.

**`printer_diff`.**
- Every envp of at most 3 entries drawn from `a=1`, `a=2`, `b=2`, `b=`, `a` and `=a=1`.
- Every baseline over the keys a and b.

**`kernel_version`.** 19k release strings, among them `4.8`, `4.10`-like orderings (`4.18` against `8.1`), empty pieces (`.4`, `4.`), a missing minor (`48`), trailing suffixes (`4.8-1`) and leading zeros. Overflow needs eleven characters and is beyond this bound: no run reaches it. `OverflowsU32` was only evaluated by hand at the boundary (4294967295 does not overflow, 4294967296 and 10000000000 do).

**`tracer_refinement`.** Three pids (the root and two others), exit codes {0, 1}, at most 5 events. Every pid can fork, exec, exit and be reused after its exit, so a stale `execData` of a reused pid would show.

**`log_session`.** Two pids, exit codes {0, 1}, at most 4 events, both Ok and Err returns of the thread.

### Violation runs

The violation runs each check one property that the spec, a comment or the code's own invariant states. `findings` in `PROJECT.json` records what each shows:

- **PaneNeedsTerm.** App::new's rule is that there is no Terminal pane without a pty; SwitchActivePane breaks it. Until a second Ctrl+S (tested before the pane, app.rs 135-140) switches back, every other key, q included, goes to the missing terminal and is dropped.
- **ListDrawnWhenRoomy.** Without a pty, render always says "too small".
- **SignalsOnlyRoot.** This is spec §3: a pid is not trusted across a reap.
- **NoPanic.** The comments say "assuming value to empty string".
- **EntryRebuilt.** The `skip(1)` index is off by one.
- **QuitEndsProgram.** Spec 5: quitting signals the root and ends the program. With q handled before RootChildSpawn reaches App, `root_pid` is None, `exit` signals nobody although kill-on-exit is set, and main blocks in `join` at main.rs 119 (a `spec_code_divergence`).

### Mutants

Every property of a passing run has a mutant that breaks it:
- a render that applies the resize before the too-small check breaks TypeOK: a negative window length;
- shrinking without the floor of 10 breaks SplitBounded;
- shrinking without setting the resize flag breaks WindowFresh;
- listing RootChildSpawn as an event breaks RootKnownBeforeItems;
- dropping the other tracer events instead of listing them breaks NoEventLost;
- clearing a found key instead of removing it breaks TypeOK of the printer;
- keeping a found key breaks DiffMatchesReference;
- removing a found key only when its value changed (`env.remove` inside the `if`) breaks RemovedExactlyUnnamed;
- comparing with `>` instead of `>=` breaks CheckMatchesReference;
- an exec exit that leaves the buffered decode breaks ExecDataOnlyInSyscall;
- an exit that drops the pid from the table's domain breaks TypeOK of the engine;
- a root exit without the break breaks ImplementsEventStream (the loop goes on pushing after RootChildExit);
- receiving before joining breaks ExitReflectsSession;
- a join that ignores the thread's Err breaks LogSessionEnds.

### Fairness

Only the program's own threads get fairness; the user, the terminal and the traced programs get none.
- `LogSession.Fairness`: the tracer thread's return after its loop, main's `Join` and `Recv` are weakly fair. They are OS threads that the scheduler runs whenever they can proceed. The tracer's other steps depend on the traced programs, which may run for ever.
- `TuiApp.Fairness`: `AppExit` is weakly fair, and so is the root's exit once it was sent SIGKILL, which cannot be ignored. SIGTERM can be ignored and gets no fairness.

`LogSessionEnds` holds under this fairness; `QuitEndsProgram` fails under it.

## 5. Proofs (`TuiAppProofs.tla`, TLAPS)

The theorems hold for every value of the constants, under `ConstAssumption`:
- the types of the constants;
- `Keys` records of the modelled codes;
- `Sizes` pairs of naturals;
- `RootPid # NoPid`.

**`TypeCorrect`: `Spec => []TypeOK`.** TypeOK is split into its sequence-typed part (`TypeSeqs`) and the rest (`TypeRest`, itself the view `ViewTyped` and the other fields `RestOther`). Each part is shown preserved per action.

The work is in `RenderType`. A render that passes the too-small checks has panes of 4 cells or more, so `ev.h - 2` and `tm.h - 2`, `tm.w - 2` are natural numbers. This is what keeps the `usize`/`u16` subtractions at app.rs 376 and 385 from underflowing.

`KeyActionType` shows that every key maps to a list of zero or one action.

**`SplitBoundedInvariant`: `Spec => []SplitBounded`.** It rests on `ShrinkGrowInRange`: shrink and grow map 10..90 (or {100}) to itself. It also uses `OtherStepsKeepView`: only the action loop changes the view.

**`WindowFreshInvariant`: `Spec => []WindowFresh`.** WindowFresh is not inductive by itself:
- a `Quit` that cleared a queued `Resize` would make its premise true with a stale window;
- so would an event that overwrote one.

The inductive invariant is `FreshInv == TypeOK /\ ActionsShape /\ WindowFresh`. `ActionsShape` says that each event sends at most one action, and that the action channel is empty whenever `run` awaits an event. It was checked with TLC on both passing TUI runs before it was proved. The lemmas are:
- `ShapeStep`: ActionsShape is preserved;
- `SingleAction`: the action popped is the whole list;
- `RenderFresh`: a render clears the flag only after refreshing, or without changing anything;
- `FreshFrame`: steps that keep the geometry and cannot make the premise true keep WindowFresh;
- `HandleActionFresh` and `FreshStep`.

**`RootKnownBeforeItemsInvariant`: `Spec => []RootKnownBeforeItems`.** The property is not inductive alone: an event taken from the channel would add an item unless RootChildSpawn came first. `RootOrder` says:
- no items while `rootPid` is unknown;
- the channel is empty while the tracer is idle;
- once the tracer has spawned and `rootPid` is still unknown, the head of the channel is RootChildSpawn.

The channel is FIFO and the tracer sends RootChildSpawn first, so the first event App takes sets `rootPid`. RootOrder was checked with TLC on `tui_session` before it was proved. `OrderStep` has one case per action, and `OrderFrame` covers the actions that touch none of its variables.

**`NoEventLostInvariant`: `Spec => []NoEventLost`.** NoEventLost is not inductive alone:
- taking RootChildSpawn from the channel must find the root pid unknown;
- spawning must find nothing sent.

`LossInv` adds three conjuncts, and was checked with TLC on `tui_session` (3.5k states) before it was proved:
- `RootOrder`;
- `IdleClean`: while the tracer is idle, no exec is counted and the root pid is unknown;
- `SpawnOnlyFirst`: RootChildSpawn is in the channel only at its head, and only while `rootPid` is unset.

`LossPartInvariant` proves `[]LossPart` from `LossStep`, with one case per action:
- a receive is split on whether the head is RootChildSpawn. `HeadTail` and `ConcatAssoc` move the head from the channel to what App has seen;
- a spawn starts both histories;
- an exec and the root's exit append the same kind to the channel and to `SentHist` (`ExecsAppend`);
- every other step leaves both sides alone (`LossFrame`).

`SeenTyped` gives `SeenHist` its sequence type, which the associativity needs.

**`RoomyDrawsListWithPty`: `HasTerm => (Spec => ListDrawnWhenRoomy)`.** This shows that the violation of `tui_render_no_term` comes from the missing pty alone. The lemmas are:
- `PercentageFits`: for n >= 40 and a split in 10..90, both parts of a percentage split are at least 4;
- `RoomyFits`: in a roomy terminal, neither pane of either layout is too small;
- `RoomyRenderStep`: a Render taken there sets `drawn` to "list".

**Proof-technique notes.**
- The SMT backend could not prove goals that mix tuple literals in disjunctions with `Len`. Such steps are split by cases.
- Lemmas about unprimed state are not used for primed goals: primed facts are proved by expanding the definitions.
- SMT refutes `x < 4` from `x >= 4` only when it knows x is an integer. The fields of the pane areas therefore get an explicit typing step (`AreasInt`).

## 5b. Proofs of the tracer and log mode

**`EventStreamProofs`: the lemma `StreamContractInvariant`, `StreamSpec => []StreamContract`.** It is a fact about the contract alone, and serves `EngineStreamContract` below. The contract is not inductive alone: a spawn or an emit must know the stream is not empty. `StreamInv` adds the types and `tphase \in {tracing, returning, ok} => sent # <<>>`. The lemmas `AppendOne` and `AppendTwo` say what appending keeps.

**`TracerEngineProofs`.**
- `TypeCorrect`: `Spec => []TypeOK`.
- `ExecDataInvariant`: `Spec => []ExecDataOnlyInSyscall`, from `EngineInv`. It adds TypeOK and `loop = "start" => stage[Root] = Absent /\ events = <<>>`: the spawn must not find a buffered decode for the root, and it pushes the first event.
- `Refinement`: `Spec => ImplementsEventStream`. `StepRefines` shows that each engine step is a stream step or a stutter under the mapping: the spawn is `SpawnRootA`, an exec exit and a non-root exit are `EmitA`, the root's exit is `RootExitA`, and fork and exec entry leave `events` and the phase alone.
- `EngineStreamContract`: the engine keeps the contract, from the refinement and `StreamContractInvariant` through the instance.

**`LogSessionProofs`: `ExitReflectsSessionInvariant`.** `LogInv` adds to `StreamInv` main's types and that main reads only after the thread returned Ok (`joining => rcvd = 0`, `draining or exited => ok`, `failed => err`). With it a tracer step is impossible after the join, and the RootChildExit that `Recv` takes is the last event sent.

The constants' assumptions are `StreamAssumption` and `EngineAssumption`: the root is a pid, 0 is an exit code, codes are naturals, the bound is a natural.


## 5c. Proofs of the environment diff (`ExecvePrinterProofs.tla`)

The theorems hold for every set of entries, every set of baselines and every bound, under `EnvAssumption`: entries are strings, every baseline is a function from strings to strings, and the bound is a natural.

**`TypeCorrect`: `Spec => []TypeOK`.** `SplitTyped` shows that the key and the value cut by `split_at` are strings, from `SepLocRange`: the separator never lies past the end.

**`DiffMatchesReferenceInvariant`: `Spec => []DiffMatchesReference`.** The property speaks only of the final state. The inductive invariant is `DiffInv`: TypeOK, and, for a clean envp (well-formed entries with distinct keys, the hypothesis `Clean`), the loop invariant `DiffCore`:
- after the entries 1..i-1 (`Done`), the clone holds exactly the baseline keys none of them named;
- the records written are the "+" and "M" records of those entries (`Changes(Done)`), plus a "-" record for every key the second loop took out of the clone (`Removed`).

`DiffInv` was checked with TLC on the `printer_diff` instance (11k states) before it was proved. The lemmas are:
- `FirstEqFacts`: the index found is 0 or holds '='. With the first-index choice written into `FirstEq`, this needs no induction;
- `WellFormedSplit`: for a well-formed entry the code's split is the reference key and value;
- `FreshKey`: with distinct keys, the loop never meets a key it has already handled, so a key is in the clone exactly when it is in the baseline;
- `ChangesAdd`, `ChangesOne`, `RangeAppend`: what one more entry or record adds;
- `CleanStable`, `ChangesPrime`, `FrameSets`: envp and the baseline never change;
- `DiffStep`, `DiffInitial`, `DiffInvStep`, and `DiffDone`, which gives the reference diff once the second loop is over.

**`RemovedExactlyUnnamedInvariant`: `Spec => []RemovedExactlyUnnamed`.** The hypothesis is only that every entry is well-formed, so a key may be given twice. The inductive invariant `RemInv` is TypeOK plus, for such an envp, `RemCore`, which was checked with TLC on `printer_diff` before it was proved. It keeps the clone part of `DiffCore`: during the first loop the clone holds exactly the baseline keys no handled entry named. That still holds for a repeated key, because its second entry finds the key out of the clone and leaves the clone alone. Of the records, `RemCore` keeps only the "-" ones (`RemovedRecords = Removed`), which the first loop never writes. The lemmas are:
- `MinusAppend`: appending a record adds it to the "-" records only if it is one;
- `WFStable`: the hypothesis never changes;
- `RemStep`, `RemInitial`, `RemInvStep`, `RemDone`.

**Out of the provers' reach.**
- Liveness and ENABLED: `LogSessionEnds` and `QuitEndsProgram` are checked by TLC only.
- `KernelVersion` extends SequencesExt and FiniteSetsExt, which reach RECURSIVE through Folds. `CheckMatchesReference` stays with TLC, for two reasons:
  - relating `Atoi`, a fold over the digits, to the reference's decimal value needs induction over data;
  - as stated, the property is true only on the run's bound. A piece above `u32::MAX` makes `atoi` return None and the check err, while the reference, which has no overflow, reads a number. Such releases need eleven characters or more.
- `NoPanic` and `EntryRebuilt` are violated, and there is nothing to prove.

## 6. Not modelled

**Not under `src/`.** The tracer engine is modelled from the spec at the level of its wait loop and process table. Signal delivery, group-stops, the decoder, the memory reader and the seccomp filter are not: they are I/O or a kernel program.

**Log output selection (main.rs 79-94).** Opening the output file or stream is I/O.

**`build.rs`.** It has no runtime state.

**Rendering, the pty emulator and the clipboard.** These are I/O. Their failure paths (the clipboard `?` at app.rs 313, the `unwrap` at 390) are listed as hazards without a property: what follows them is decided by the caller of `App::run` and by the panic hook, neither under `src/`.

**`main.rs` and `App::exit`.** `main.rs` as it stands drives an `EventListApp`, a type not under `src/`. The call of `App::exit` is therefore not in the repository. `AppExit` models `exit` as the step that follows `run`'s return.
