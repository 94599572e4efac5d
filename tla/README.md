# A TLA+ verification project for cce-compositor

cce-compositor is a Wayland compositor and window manager on wlroots, written in
Rust. One thread runs the wlroots event loop: every handler runs to completion,
so the state of the compositor changes one handler at a time. What makes it hard
is not parallelism inside a handler but the order in which handlers come: input,
client requests, presented frames, timers, idle callbacks, monitors that come
and go, helper threads that post commands, and clients that answer late, twice
or never. The modules here model that order. File names below are relative to
`src/server/`.

## The system's parts

| part | source | state it keeps | operations | who calls it |
|---|---|---|---|---|
| Session lock | `lock_manager.rs`, lock parts of `output.rs` | lock state, lock client, two timers, respawn counter, waiting callers, per output what the screen is believed to show | lock_now, new lock, surfaces, unlock, destroy, two timeouts, note_lock_state, present | idle manager, `ccectl lock`, lock clients, frames |
| Idle manager | `idle.rs`, `idle_inhibit_manager.rs` | two countdowns, what it darkened, a sleep that waits, leases, inhibitors, the plan directory's watch | activity, timers, lock-then-sleep, fallback, leases, inotify | seats, lid switch, lock manager, control socket |
| Sleep lock | `sleep_lock.rs` | logind's inhibitor, a thread | prepare for sleep, resume, retry | logind |
| Output configuration | `output_manager.rs`, `output.rs` | per output scheduled / sent / current state, a pending client configuration | apply, test, power mode, modeset, failure, unplug | clients, idle manager, transactions |
| Transactions | `window_manager/transaction.rs`, `shared.rs`, part of `window_manager.rs` | Idle / ManageStart.. / Inflight, dirty flags, idle callback, 100 ms timer | dirty_*, manage_start, manage_finish, notify_configured, timeout, render_start, render_finish | everything |
| Toplevel configure | `xdg_toplevel.rs`, `window.rs` | per window configure state, scheduled / sent sizes, saved buffers | configure, ack, commit, map, unmap, destroy | transactions, clients |
| Xwayland windows | `xwayland_window.rs`, `xwayland_override_redirect.rs`, `min_sizes.rs` | a mirror of X's geometry, what was last sent, a learned minimum, listeners of each object | configure, request, report, flip of override-redirect, map, destroy | Xwayland, transactions |
| Window modes | `window.rs`, `window_manager.rs` | mode, floating, pre-fullscreen and saved geometry | fullscreen, tile, float, arrange, manage_finish | keys, clients, control socket |
| Seat: keyboards | `keyboard_group.rs`, `keyboard.rs`, `input_manager.rs` | groups, per key who took its press | key, regroup, attach, detach, focus, lock | input devices |
| Seat: focus | `seat.rs`, `layer_shell.rs` | focused, scheduled, sent, the stack, a borrowed keyboard | focus, manage pass, unmap, destroy, lock | windows, layers, X menus |
| Seat: pointer | `cursor.rs`, `cursor/button.rs`, `cursor/axis.rs`, `pointer_constraint.rs` | buttons, the op, a drag, hover, a constraint, played keys | press, release, motion, op_start, op_end, constraint commits | input devices, clients |
| Seat: touch and gestures | `touch.rs`, `cursor/gestures.rs` | routes of fingers, a claim, a stroke | down, motion, up, swipe, pinch | input devices |
| Seat: tablets | `tablet.rs`, `tablet_tool.rs` | the pen's mode and where a drag is measured from | proximity, axis, tip, button | input devices |
| Text input | `input_relay.rs`, `text_input.rs`, `input_popup.rs`, `osk.rs` | text inputs, input method, grab, popups, board | enable, disable, enter, leave, grab, hide | clients, focus |
| Camera, overview | `window_manager/camera.rs` | place, zoom, targets, ramp, coast, watchdog, frozen blur | pan, zoom, step, settle | frames, keys, fingers |
| Switching windows | `window_manager/switcher.rs`, focus cycle of `window_manager.rs` | the chooser's pipe and generation, a cycle's order and where it left off | alt-tab, focus-next, focus-window | keys, the chooser's thread |
| Desktop grid | `window_manager/grid_patches.rs`, latch in `xdg_toplevel.rs` | pending, acked and current patch, a hold, cells | step, settle, ack, commit | camera, the grid's client |
| Drag-selection | `selection.rs` | band, selected windows and images, reported images | press, band, group move, report | pointer, grid's client |
| Night light | `night_light.rs` | temperature, fade, timer, per output what was sent and who owns the table | tick, frame, modeset, gamma client, configure | timer, frames, control socket |
| Session file | `window_manager/session.rs`, `try_restore` of `window/placement.rs` | saved windows, entries to give back, plates that stand for them, last states, a clean exit | save, exit, cancel, restore, sweep | server, windows |
| Restarting apps | `app_restart.rs`, `window_manager/restart_app.rs` | restarts, kept entries, callers | start, poll, exit, map | control socket |
| Control socket | `ipc_server.rs`, `window_manager/ipc_commands.rs`, `screenshot.rs` | threads, queue, reply channels, a parked capture | read, queue, answer, time out | ccectl, scripts |
| Status and stream servers | `status_server.rs`, `stream_server.rs` | subscribers, bounded buffers, last states | publish, subscribe, tick, drop | bars, recorders |
| Configuration | `config.rs`, `config/`, `xkb_config.rs`, `libinput_*.rs` | parsed configuration | parse, apply, reload | server |
| Memory and registries | `listener.rs`, `reentry.rs`, `registry.rs`, `*/store.rs`, `wlr.rs`, `scene_handle.rs`, `event_source.rs` | slots, listeners, borrow marks, timers | connect, disconnect, borrow, insert, remove | everything |
| The rest | `window/`, `scene.rs`, `text.rs`, `global_shortcuts.rs`, ... | drawing and forwarding | | |

The parts interact in three ways: direct calls inside a handler (the lock manager
calls the idle manager when a lock completes), shared dirty flags that make one
idle callback run (`shared.rs`), and timers. Four helper threads post to the event
loop: the control socket's, the two servers' and the sleep lock's.

## Where it is hard, and what makes each part correct

| part | what is hard | what must hold |
|---|---|---|
| Session lock | the lock client dies at any step; frames, presents, modesets and surfaces of several outputs in any order; two timers; callers that wait | nothing but the client told `locked` opens the session; a complete lock hides the desktop; a lock that starts completes; a locked session without a client gets one |
| Transactions | clients answer late, in pieces or never; work asked for during a pass, by a pass, between passes | no wish is lost, every transaction ends, by the last answer it counted or by its timer |
| Toplevel configure | the client's own protocol steps interleave with passes; unmap, destroy, drags and decorations come between any two | assertions hold; every answer has a pass that adopts it; no window stays frozen or unfreed |
| Output configuration | three states per output; a pass commits what was taken earlier, the backend may refuse, monitors leave meanwhile | the hardware ends up as scheduled; a client told `succeeded` sees what it asked for; assertions hold |
| Idle manager, sleep lock | countdowns, leases and inhibitors race activity, the lock, logind's delay and a fallback timer; the plan directory comes and goes under its watch | countdowns measure from the last use; displays it darkened light up, others do not; the machine sleeps locked; no change of the plan is missed |
| Keyboards | keys held across focus changes, device removal, regrouping, the lock, a grab | whoever saw a press sees its release; groups count what their keyboards hold |
| Focus, text input | windows, layers, menus and input methods come and go in any order | the keyboard is with somebody alive; one field is active, under the focus |
| Pointer, touch, pens | the window pressed, dragged or carried dies; fingers are claimed; a constraint is ended later; a pen's tip and buttons go up in any order | nothing holds the pointer that is gone; clients hear of whole touches and drags |
| Switching windows | the chooser is a process whose end races the next press; slots are taken again; each step of a cycle raises a window, drawn only later | one chooser, and its pipe is at hand; it focuses a window it listed; a cycle comes to every window |
| Camera, grid | frames are lost; a patch is asked for, acked and committed while the camera flies on | every flight ends, with sharp buffers; no old picture at a new place, no gap |
| Xwayland | configures, reports and requests cross; an object changes its kind while it is mapped | X and the layout agree; no freed object is named; the learned minimum of a program with a floor is one |
| Window modes, selection | requests, passes, camera steps and lost outputs come between saving a geometry and using it; reports of images cross moves | a window's home outlives every mode; a group lands together |
| Night light | gamma clients, modesets, refused commits, a clock that jumps | the table on the screen is the one for the temperature; no frame without need |
| Control socket, screenshots | socket threads time out while the event loop answers; a parked screenshot and the output it waits for | every request is answered once; a late answer harms nobody |
| Restarting apps | exit, grace period, signals, windows that stay or come back | every caller hears; kept entries go to windows of the new process only |
| Session file | clean exit, cancelled exit, closing windows; restored apps come in any order, their titles late | the file keeps the windows of the session that was left; an entry is given out once, with its plate; stack and focus end as saved |
| Status and stream servers | slow, dead and late subscribers | whole lines in order; who stays ends current; the dead are dropped |
| Stores and listeners | callbacks free what is being walked | no handle reaches a freed slot |

`PROJECT.json` lists these hazards line by line, with the properties that watch
each of them.

## The modules

Each component is a module with one action per handler. A module `MCx` puts components
together for a run, a module `x_proofs` holds the theorems about it. `Lists` has the two
operators on lists (`Vec::retain`) that the provers must reason about. An operator that is a
`Mutant` in its comment is no part of the model: it is a plausible wrong version
of the definition below it, kept to show that a property notices.

### AbstractLock, SessionLock

`AbstractLock` is what a lock promises: it is open, closing or closed; it opens
only while closed and with the key, and the key is only given out when closed.

`SessionLock` is `lock_manager.rs` with the parts of `output.rs` and
`output_manager.rs` that feed it. The variables `state`, `lock`, `respawnTimer`,
`respawnAttempts`, `surfacesTimer` and `waiters` are the fields of `LockManager`;
`lockedTree` and `normalTree` the two scene trees; `power`, `lockRender` and
`surface` are per output. `flip` and `screen` have no counterpart in the code:
they say which frame is on its way to an output and what a person in front of it
sees. The code infers both from `lock_render_state`, and the properties ask
whether it infers right. `told` is what wlroots knows of the lock client.

| action | code |
|---|---|
| LockNow, LockCommand | `lock_now` (idle manager, lid, `ccectl lock`), `reply_when_locked` |
| NewLock, CreateSurface, MapSurface, DestroySurface | `handle_new_lock`, `handle_surface`, `handle_lock_surface_map`, `.._destroy` |
| LockDestroyed, Unlock | `handle_destroy`, `handle_unlock` |
| LockSurfacesTimeout, RespawnTimeout | the two timers |
| Frame, Present, Discard | `handle_frame` with `note_lock_state`, `handle_present` with `maybe_lock`, or with its early return for a frame that was not shown |
| CommitOutputs, Plug, Unplug | `commit_output_state`, `Output::create`, `handle_destroy` of an output |
| Draw | any damage |

`MaybeLock` takes the state as the calling handler has left it, since the code
calls it in the middle of handlers. `MayHappen` selects what the surroundings may
do, so that a run can ask what holds when, say, no client dies.

### Passes, Transaction

`Passes` is what the handlers that ask for a manage pass rely on: a wish is
dropped only by a pass that begins after it, every wish is met, and a pass that
waits for clients ends. Transaction is shown to implement it (`KeepsPasses`), and
OutputConfig is built on its actions and its fairness.

`Transaction` is the whole life of a layout transaction: `transaction.rs`, the
dirty flags and the idle callback of `shared.rs`, and the part of `window.rs` and
`xdg_toplevel.rs` in which a window is configured, acks, commits, maps, unmaps
and dies. `wm`, `count` and `timer` are `WindowManager.state`,
`InflightConfigures` and its timer; `windowing`, `rendering` and `armed` the
fields of `Pending`; `win` the window store, a record per slot: the window's state
(`st`), its membership of the render list, its saved buffers, its configure state
(`cfg`), and what its client has done. `grab`, `sizing` and `opFrame` are a move
or resize by the user. A pass that waits for nobody runs to its end inside one
handler, so `ManagePass` contains the render pass in that case.

What a layout plan asks of a window is reduced to what the code compares it with:
`Ask` is no size, a size and state already told, the size the client has already
committed, that size with other state that is new, or another size. `Sends`,
`Tracks` and `Configured` are `XdgToplevel::configure`: whether a configure is
sent, whether its answer is counted, and the configure state it leaves.

| action | code |
|---|---|
| IdleCallback | `handle_idle`: `manage_start` .. `manage_finish`, or `render_start`, `render_finish` |
| Timeout | `handle_timeout`, 100 ms |
| LayoutChanged | any other `dirty_windowing` or `dirty_rendering` |
| NewToplevel, InitialCommit, AckConfigure, Commit, Map, Unmap, Destroy | the handlers of `xdg_toplevel.rs` and `window.rs` of those names |
| NegotiateDecoration | `handle_decoration_request_mode` |
| OpStart, OpMotion, OpEnd, OpFrame | `Seat::op_start`, `op_update`, `op_end`, `step_op_frame` |
| ViewportFrame | `update_viewport_local` from a camera frame, with the loop of `arrange_views` that configures status bars |

A handler that calls `dirty_windowing` from within a pass that it runs itself is
the pass followed at once by `LayoutChanged`. An assertion of the code that fails
sets `failed` and ends the behaviour.

### OutputConfig

The three states of every output (`scheduled`, `sent`, `current`), the list that
passes commit (`listed`, `Sent.outputs`), the configuration a client waits for
(`asked` while scheduled, `answering` once a pass has it), and the hardware (`on`,
`shown`). A configuration is kept as what it asked of each output that nobody has
set anew since. `store` tells an output that has gone, but whose `Output` still
exists, from one that is plugged or not there. The mode of an output stands for
its mode, scale and adaptive sync together; positions and the automatic layout
are left out. `SetDisplays` lights any of the darkened outputs, where the code
lights those that it darkened itself (`idle_off`).

| action | code |
|---|---|
| Apply | `handle_manager_apply` |
| SetPower, SetDisplays, RequestState | `handle_power_manager_set_mode`, `IdleManager::set_displays`, `handle_request_state` |
| Plug, Unplug | `Output::create`, `handle_destroy` |
| BeginPass, WholePass | `manage_start`, `Output::manage_start`, `send_config`, and `commit_output_state` if nobody is waited for |
| RenderPass, FinishPass | `render_finish` with `commit_output_state` |

`Stop` is an assertion that fails, or the termination on a first modeset that
fails (`modeset_failed`).

### Power: Idle, IdlePlan, IdleInhibit, SleepLock

Four modules for what darkens, locks and suspends the machine.

- `Idle` (`idle.rs`): the two countdowns with the throttle of `rearm`, darkening
  and waking outputs (`idle_off`), lock before sleep and its fallback timer.
  One step of `Tick` is a second; events happen at whole seconds and a timer that
  is due fires before the next one. The session lock it asks is AbstractLock, the
  promise SessionLock is shown to keep.
- `IdlePlan` (`idle.rs`, inotify and poll): which timeouts are in force, when the
  directory of the power plan comes, goes and is replaced between looking at it
  and watching it.
- `IdleInhibit` (`idle_inhibit_manager.rs`, leases of `idle.rs`): what holds the
  machine awake; a change of `awakeFlag` is `FlipInhibited` of Idle.
- `SleepLock` (`sleep_lock.rs`, its side of `ipc_server.rs`): the thread between
  logind and the lock. Each of its calls that can block is an action; logind queues
  signals, waits for a holder up to its deadline, and refuses an inhibitor during a
  sleep. The request to lock is queued (`Ask`), run later by the main loop
  (`RunRequests`, `lock_now`) and answered when the lock is complete; the thread may
  give up on it before or after it ran (`AnswerLate`), and the command stays queued.
  `shown` and `late` remember, for `SleepsBehindLock`, whether the session was locked
  since the sleep began and whether the thread gave up.

### Services: Session, RestartApp, ControlSocket, StatusServer, StreamServer

- `Session` (`window_manager/session.rs`): windows open, close and die while the
  session is saved, a clean exit waits for them, and is cancelled or repeated. An
  entry of the file is its window; `App` says which are one app.
- `RestartApp` (`app_restart.rs`, `restart_app.rs`): closing, grace, SIGTERM, SIGKILL,
  exit, relaunch and the kept entries, with the callers that wait.
- `ControlSocket` (`ipc_server.rs`, `ipc_commands.rs`, `screenshot.rs`): one thread
  per caller against the event loop: queue, eventfd, time limit, commands that are
  answered later.
- `StatusServer` (`status_server.rs`): one thread writes lines to sockets that
  take half a line; a line is two bytes.
- `StreamServer` (`stream_server.rs`, the tick in `window_manager.rs`): an accept
  thread, bounded queues, a writer thread each. A frame is its window's number of
  commits.

### Input: Keyboards, SeatFocus, TextRelay, PointerHold, PointerGrab, Emulation, Touch, Gestures, Switcher, TabletTool

- `Keyboards` (`keyboard_group.rs`, `keyboard.rs` and what attaches them): the state
  `st` has the devices, the groups with their counts and consumers (`by`), and
  what each listener was told. `Change` is everything but keys: focus, lock, grab,
  menus, plugging, configuration.
- `SeatFocus` (`seat.rs`, `layer_shell.rs`, focus parts of
  `xwayland_override_redirect.rs`): windows, layers, menus and the lock compete for
  the focus; `ManagePass` takes up the scheduled focus. Only the focus of a window that
  is raised (`Stacked`, Floating or Tiled), or of any while one is fullscreen, wants a
  pass (`Restacks`); the modes of windows are fixed.
- `TextRelay` (`input_relay.rs`, `text_input.rs`, `input_popup.rs`, `osk.rs`).
- `PointerHold` (`pointer_constraint.rs`): constraints against focus, motion, and
  commits that move their region; a deactivation is flushed later.
- `PointerGrab` (`cursor/button.rs`, `Cursor::passthrough`, ops and drags of
  `seat.rs`): who is told of a press and of its release.
- `Emulation` (`cursor/axis.rs`): gestures played to a client as a held key.
- `Touch` (`touch.rs`), `Gestures` (`cursor/gestures.rs`): positions are reduced to
  what the thresholds decide.
- `Switcher` (`window_manager/switcher.rs`, `focus_cycle_order`): a window is a slot
  of the store and a generation (`win`), so that a chooser can name one that has gone.
  `stack` is the render list, `drawn` what `render_finish` made of it; `recent`,
  `cycle` and `active` are `focus_history`, `focus_cycle` and `ACTIVE_SWITCHER`, and
  `shown` holds one record per `cce-cloud --switcher` that was started. `Press` is
  `launch_window_switcher`, `FocusWindow` and `CleanUp` are its thread (the first
  through the control socket), `FocusNext` is `execute_action` with
  `note_focus_cycle`. The chooser (`End`) and the policy's step (`Step`) are external.
- `TabletTool` (`tablet_tool.rs`): `under` is what `Scene::at` finds under the pen,
  `onto`, `tip` and `buttons` are what wlroots keeps of the tool, `penMode` is
  `TabletToolMode` with the surface its coordinates were measured on. `Enter`,
  `Leave`, `Motion`, `TipDown`, `TipUp`, `ButtonDown`, `ButtonUp` and `SetCursor` are the
  handlers; `Restack` is any change of the scene under a pen at rest.

### Desktop: Camera, GridPatch, X11Geometry, X11MinSize, X11Surface, NightLight, Selection, WindowModes, Restore

One axis of the desk is enough for all of them; places and sizes are small
integers.

- `Camera` (`window_manager/camera.rs`, `cursor/axis.rs`): `Frame` is
  `step_camera_frame`, `Watchdog` what steps it when frames stop, `Settle` the
  timer that thaws and bakes the blur, `Poll` the settling of `focus-window --wait`.
- `GridPatch` (`grid_patches.rs`, the latch of `xdg_toplevel.rs`): a patch is
  `pending`, `acked` and `current`; `Step` moves the camera, asks for patches and
  decides about the cells; the policy that places cells (`NoneShows`) is external.
- `X11Geometry` (`xwayland_window.rs`): a window in two units, a mirror of what X
  reported, what was sent, and a queue of late reports and requests. A pass is two
  steps, with X events in between.
- `X11MinSize` (`learned_min`, `lowered_min`, `min_sizes.rs`): with programs that have a
  floor and programs that round to a cell. Requests are a queue: each is compared
  with what was configured last when it is heard.
- `X11Surface` (`xwayland_window.rs`, `xwayland_override_redirect.rs`): each object
  made for one X surface, and everything that names it: listeners, the surface's
  data, the scene tree, the registry, the seat.
- `NightLight` (`night_light.rs`): `Frame(o, lands, ok)` is `prepare` with the commit
  it belongs to; a temperature is its warmth in steps of `JUMP_K`.
- `Selection` (`selection.rs`, group moves of `cursor/button.rs` and `seat.rs`): the
  compositor's list of images (`desk`) and the grid client's (`grid`, `saved`), with
  lines and reports (`toGrid`, `toComp`) that cross.
- `WindowModes` (`window.rs` manage_finish, `window_manager.rs` arrange): a mode is
  a field until the arrange pass and manage_finish act on it; requests, camera
  steps and the loss of the output come between. Of the external policy it assumes
  that entering Tiled saves the box as the floating geometry, leaving it restores
  that, and Fullscreen is no tile.
- `Restore` (`window_manager/session.rs`, `try_restore` of `window/placement.rs`,
  `Window::map`): `queue`, `last`, `plates` and `timer` are `restore_queue`,
  `last_window_states`, `restore_placeholders` and their timer; `awaited` and `arrived`
  the two flags about the session's focused window; `vanished` the clients that may
  reconnect. All windows are of one app id; what tells them apart is their program,
  their titles, as values of which some resemble each other (`Alike`), and a parent.
  `NotifyAppId`, `NotifyTitle`, `SetParent` and `Map` come in any order a client may
  choose; each makes `TryRestore` as the code does; `Manage` links windows into the
  render list, `SaveState` is the part of `save_state` that keeps the last states,
  `Sweep` the placeholders' timer. `RemoveAt`, `SetToSeqs` and the like are SequencesExt's,
  written out in the module: whatever a module extends is in the view of every step of
  a proof about it. Where a saved place between ranked windows is not
  unique (`restored_stack_slot`), it is any.

### The MC modules

`MCPower`, `MCServices`, `MCInput` and `MCDesktop` hold several components that do
not share state. The variable `part` picks the one that runs in a behaviour; the
others are pinned to one initial state. All take the values of their
components from constants, with named assumptions: the theorems are about
`MCx!Spec` for all values that meet them, and the definitions at the end of each module
are the values its `.cfg` uses. SessionLock,
Transaction and OutputConfig are checked by themselves, with the values of their `.cfg`s.
A property of a composed module conjoins the properties
of its parts (`DesktopIsSound` is, among others, `Cam!CameraIsSound`), and a liveness
property says of each part that it comes back to its named rest (`Camera.AtRest`,
`Night.Followed`, ...). `PROJECT.json` names one mutant per property; the other
operators commented `Mutant` break the other parts, each tried under the run of its
module.

## The runs

Two outputs, windows or modes are enough for what the first seven are about: one
actor that answers, dies or is refused while the code waits for another, and two
that must agree. No guard of the models depends on there being more.

| run | instance | what it shows |
|---|---|---|
| LockSafety | 2 outputs, 1 caller, 2 respawns, everything may happen | the manager's bookkeeping: both timers match the state, the holder of a locked session and only it was told, no caller is forgotten, nothing else opens the session; a desktop that is switched off goes from every output unless a frame is lost; SessionLock refines AbstractLock |
| LockSteady | outputs stay on, clients do not die but create, map and destroy surfaces | a lock that starts completes, and once it is complete the desktop is off in the scene, and no screen shows it but one that was counted for its lock surface |
| TransactionCore | 2 windows, one a status bar, one dragged and resized, one shown again, one with late decorations, camera frames | a transaction is always timed; no work is lost; the render list, outstanding answers and frozen windows always have the pass that deals with them, but for answers and pictures of status bars that camera frames configure |
| TransactionQuiet | 2 plain windows | no assertion fails, a transaction ends with the last answer it counted or its timer and waits only for clients that can answer; late sizes are drawn; every window is configured, and freed once it has closed; Transaction implements Passes with its liveness |
| FindDragUnmapped | a window that can be dragged | finding 1 |
| OutputsRefused | 2 outputs, 2 modes, a backend that may refuse any commit, nothing set during a pass | the hardware follows the schedule, no configuration goes unanswered, and a success is on the screen |
| OutputsOverlap | 1 mode, a backend that accepts, outputs configured and pulled out during a pass | no assertion fails, lit outputs are listed, and an output that was unplugged is freed |
| Power | 2 outputs, 3 settings, countdowns up to 3 s, 2 leases, 2 plans, 3 queued signals | countdowns measure from the last use and are held while inhibited; a sleep waits only for a lock on its way and is called off by use; waking lights what was darkened; no change of the plan is missed; guarded sleeps find the session locked; all of it settles |
| Services | 2 windows and apps; 2 processes; 2 callers; 1 stream with 2 subscribers, queues of 1; 2 status subscribers, sockets of 1 byte | the file keeps what a logout closed; every caller is held in one place and answered; entries belong to processes that went; lines are whole and in order; readers catch up, the dead are dropped, exits and restarts end |
| Input | see the bounds | keys go where their press went; focus, constraints, ops, drags, touches and strokes name only what is there; the pointer is locked only where a constraint applies; one chooser at a time, which focuses only what it listed; a cycle comes to every window; a pen's drag stays with its surface; an exclusive layer gets the keyboard a pass is to give it, boards hide, pans and played keys end, and a chooser's pipe goes with it |
| Desktop | see the bounds | flights are driven and end; patches are drawn at their own anchor and cover before the cells go; X and the layout agree; the minimum of a program with a floor is one; no freed X object is named; the colour table is right; groups land together and images agree; a window's home outlives its modes; entries are given out once, with their plates, and stack and focus end as saved; plates go |
| FindRounderFloor | 3 sizes of a drag, cells of 8 | finding 27 |

Bounds. The respawn backoff has `RespawnSteps` = 2 steps instead of 5 (the theorems
hold for any number); window slots, outputs and modes are the constants above;
nothing else is bounded in the first seven runs. In Power only the queue of signals is
bounded (`MaxSignals`; the theorems hold for any number), in Services the commits of a window, the lines
sent and the callers. The parts of Input and Desktop run until a bound on the steps
from outside (`MaxEvents`, `MaxChanges`, `MaxTouches`, `MaxGestures`); what the
compositor does by itself (releases, passes, timers, frames, answers) is not
counted, so a behaviour always comes to its end. They are

| part | bound | also tried |
|---|---|---|
| Keyboards | 2 devices, 1 virtual, 1 key, 4 changes (any presses) | 6 changes, any (proved) |
| SeatFocus | 2 windows, one of them raised by the focus, 2 layers, 1 menu, none fullscreen, 5 events | 6 events, any (proved) |
| TextRelay | 2 fields, 2 surfaces of two clients, 1 popup, 8 | any (proved) |
| PointerHold | 2 constraints (one oneshot, one locking), 6 | any (proved) |
| PointerGrab | an app, a status segment, a grid, 5 | 6, any (proved) |
| Emulation, Touch, Gestures | 6; 3 fingers, 5; 7 | Touch 6, any (proved) |
| Switcher | 3 windows, one tiled, two that read alike, 3 | 5, any (proved) |
| TabletTool | 2 surfaces, 2 buttons, 6 | any (proved) |
| Camera | 3 places, 2 | any (proved) |
| GridPatch | 2 places, 3 zooms, 4 | any (proved) |
| X11Geometry | 3 kinds, 3 modes, scale 2, queue of 2, 2 | 3, any (proved) |
| X11MinSize | 3 drag sizes, 2 floors, 8 | any (proved) |
| X11Surface | 4 kinds, 3 objects, 8 | any (proved) |
| NightLight | 1 output, 2 configurations, a day of 8, 2 | 3, any (proved) |
| Selection | 2 windows, 1 image, 4 | 6, any (proved) |
| WindowModes | 2 drag places, 3 camera places, 4 | 6, any (proved) |
| Restore | 3 windows, one an X11 dialog, 2 programs, 2 session files, 4 | any (proved) |

and were raised until each property's mutants, and each finding below, showed up:
the longest needs five events. All state spaces are explored completely (from about
1,200 to 460,000 states). Runs with a failed assertion, a bound on events, or a
backend that may make the server terminate switch the deadlock check off, since
the program or the behaviour ends there.

Fairness. The event loop dispatches timers that have expired and idle callbacks
that are armed (`Timeout`, `IdleCallback`, `Watchdog`, `Settle`, `HideTimer`, `Sweep`, ...); a
frame that was scheduled is drawn and a committed frame is presented (`Frame`,
`Present`, `Step`), which wlroots does for every output that is on. All of it is weak
fairness of single actions: each stays enabled until it is taken. Helper threads run
(`SleepLock`, `Wake`, `Turn`, `WriteOut`, `Switcher.Thread`). Of clients nothing is assumed but where a
property is about an exchange with one: the grid's client acks and renders
(`GridPatch.Ack`, `Commit`), X reports and a client of X answers (`X11Geometry`), the
grid reads its lines (`Selection.Hears`), and a subscriber reads its socket; a process
that was killed exits. Nothing is assumed of the user, of callers or of monitors.
`MCx.Spec` states the same conditions for the part that runs. In OutputConfig the
fairness of passes is that of `Passes`, which TransactionQuiet establishes for
Transaction.

## What is proved

TLAPS checks the theorems for any sets of outputs, windows, surfaces, fingers, callers,
processes and session files, any number of events, signals and lines, and any backoff, timeouts and
sizes of queues; the assumptions on constants are the named `ASSUME`s of each module
(windows are finite, status bars are windows, `None` is no window, ...), which TLC
evaluates in the runs. Every safety invariant and every action property of the passing runs
is a theorem. Where one
needs a hypothesis on the surroundings, its run has the same instance, and the hypothesis is
tight: what it leaves out breaks the property and is among the findings.

Where several components are composed in an `MCx`, each has an inductive invariant
over its own variables, proved by one lemma per handler; the steps of the others leave
those variables alone (`PartSteps`).

`SessionLock_proofs`. The inductive invariant `IInv` conjoins the type invariant
with the six bookkeeping invariants and `OpenHasNoHolder`: none of them is
inductive alone. That the respawn timer runs only over a locked session without
a client needs that an open session has no client; that in turn needs that only
a told client can unlock; and what it was told needs `HolderWasTold`. From it
follow the type invariant, the six invariants (the run states them as
`WaitsFollowLock`, `LockerFollowsLock` and the first part of `SceneFollowsLock`),
`OnlyHolderUnlocks`, and the refinement of AbstractLock. `DesktopOff` shows `DesktopOffWhenLocked`, the scene's
half of `LockedHidesDesktop`, for every instance in which no lock client dies; with
clients that die it does not hold (finding 2). `LockHides` shows the whole of it for
`MayHappen \subseteq {"surface", "lost"}`. `HideInv` says what that rests on: an output
that counts as blanked shows no desktop and has none on its way (`BlankedIsBlank`), and a
lock completes only once every output is counted (`LockedIsCounted`). Deaths, modesets and
hotplug each break it (findings 2 and 3), and an output counted for a lock surface that
was never mapped is what the property excepts (finding 5). What holds through all of these
is the rest of `SceneFollowsLock` (`HiddenDesktopIsGoing`): a desktop
that is switched off goes, since a frame without it is due or on its way wherever it still shows. It is inductive by itself and needs no
hypothesis; it excepts an output whose last frame was lost, which is not drawn again.

`Transaction_proofs`. `IInv` has two sides: `FlagInv` relates the state of the
transaction to its counter, timer, flags and idle callback; `WindowInv(r, busy,
wanted)` says what a window may look like while a transaction is in flight or a
manage pass is wanted. It gets weaker as either becomes true, so a handler that
asks for a pass keeps it for free; the work is in the two passes, which make
it hold again with neither. Six invariants follow, with every optional
behaviour (drags, status bars, camera, decorations, remapping) allowed, those about
answers and frozen windows not for a status bar that camera frames configure outside
any transaction (`ConfiguredAside`, finding 9), and
`ImplementsPasses`: every step of Transaction is one of Passes or none. The last two
properties hold without some of those behaviours: `ClientsServed` needs `QuietInv`, which
ties the state of a window to what its client has heard and owes (`ClientInv`), for any
windows and any of them status bars; `EndsSound` needs `EndsInv`, by which a transaction counts each client it
waits for. What breaks them: drags, second mappings or late
decorations the assertions, second mappings and late decorations the waiting for answers, camera
frames the late sizes (`LateSizesDrawn` has this part with all but the camera), and
status bars the end with the last answer (findings 1, 7 to 10).

`OutputConfig_proofs`. `IInv` says how the three states of an output, the list
and the hardware agree: what no pass has taken yet implies that one is wanted
(`SentIsScheduled`), what a finished pass sent is current (`CurrentIsSent`), what is
current is what the hardware shows, and what is not listed is off. Every pass ends
in `commit_output_state`, so the step is proved once, from what a pass hands to
it (`PassInv`). It gives the type invariant, `NoStaleConfig`, `LitIsListed` and
`HardwareFollowsSchedule` with no condition: also for a backend that refuses while
outputs are reconfigured and unplugged during a pass, which no run combines.
`NoAssertionFails` and `SuccessIsShown` hold where the backend refuses nothing or
nothing overlaps a pass (`ApartInv`); without the condition the first does not hold
(finding 6).

`Power_proofs`. `SleepsAgreed`, `TimersFollow` and `WatchComplete`. Of the idle manager
three invariants that share few variables: `CountdownInv` (a fresh countdown is a full one),
`DisplayInv` (what is dark is marked, by whom), `AgreedInv`. `PlanInv` is about a watch that
can miss nothing: what inotify has to report it can report, a directory that is gone is part
of that, and who has looked since and has nothing to report knows what is there.
`InhibitInv` adds that the lease timer is the first to end (`TimerIsFirst`). In `SleepInv`
the thread never counts what it has missed, and need not: the last signal in the queue
tells logind's state (`LastTells`), so a thread that has read everything knows it
(`StepTold`), and until a guarded sleep begins the inhibitor is held, or the locked scene has
been shown, or the thread gave up on a request that is in the queue or being served
(`SleepIsHeld`; `RequestFollowed` says where a request is). `CountdownsEndInDark` is the
action property behind the displays' half of `PowerSettles`.

`Services_proofs`. `SessionKept`: what a logout closed is listed (`ByExitIsListed`), the file
is what was last saved unless that failed (`WrittenIsFile`), and nothing but an end stops the
saving for good (`ShutIsExit`). `CallersServed`: the places a channel can be in are apart
(`PlacesApart`), each caller that does not read is in one (`EachIsHeld`), a queued command has not
run (`QueuedIsFresh`); a process is restarted once at a time (`OneRestartEach`), and how far a restart
has come follows from its age (`InTime`), which is why none is overdue. `FeedsSound`, of the
status server, is an invariant about bytes: what a subscriber has read, what its socket
holds, what is kept back of a line, and what it is yet to be given, put together, are whole
lines in order (`Fed`), whatever the sizes; of the streams, that a tick runs while anyone is
subscribed or due.

`Input_proofs`. `PointerSound`: a surface has one constraint at most (`OneEach`) and what the
cursor holds still exists (`HeldIsThere`), so a deactivation is always of the one that is active, which
the oneshot constraints, destroyed by theirs, need; a press is heard until its release or an op
(`GrabInv`); what a pen holds down is down at the tablet, and no drag is remembered outside
of Down (`HeldIsNear`), with one lemma for the cases of `maybe_exit_down` (`ExitCases`).
`FingersSound`: `TouchInv` says of a claim which fingers are its, by its kind, and of
the clients' fingers that they are down; `GestInv` and `PlayInv` that a stroke or a played key goes with its gesture.
`LocksAsAllowed` is the action property about the pointer's lock.

`FocusSound` has three invariants. `FocusInv`: every handler of the seat is
a sequence of operators that each keep `Good`, what has been made of the focus so far (it
is on something alive, the keyboard with it or with a menu of its X11 window), whatever is
yet to come; what is scheduled is alive between handlers (`ScheduledIsLive`). `TextInv` adds
to `RelayIsSound` that popups are made by an input method that is there (`PopupsAreMade`).
`SwitchInv` has the stacks as lists of the living, each once (`WinInv`), the choosers (`ShownInv`), and for
`cycle comes to every window` a witness: the windows of a walk have places in the order
that follow each other round (`Places`), which a step of the cycle continues and any other
step ends (`WalkInv`).

`Keys_proofs`. `KeysSound`, for any keyboards, virtual ones and keycodes. A keyboard and a
group note `MaxHeld` keys each, 32 in the code. A full group drops a press, which the theorem
covers; a full keyboard does not note one that its group may count. `EveryPressIsNoted`, that
this never happens, is the theorem's hypothesis, and finding 18 shows that it is needed.
`KeysInv` is of four kinds: who is in which group, and that a group's references are its keyboards and the
seats it was made up for (`Linked`); a group knows who took a key exactly while it
counts it (`Taken`); what a client, an input method or a portal takes for held some group
will release there (`Released`); and a group counts no key more often than its
keyboards hold it (`Counted`). In the middle of a handler the first is broken: a group that was just
made has a reference that is nobody's yet, a keyboard that left has one that is nobody's any
more. `Frame` and `Owes` say so, and every handler that links is proved through them.
That a free slot is there for a new group (`FreeSlot`) is counted from the references.
What the code does to each key a keyboard holds, or each keyboard of a seat, is a fold
over a set; `SetsUp` is induction over its subsets and `TurnsGo` one step of the fold.

`Desktop_proofs`. `DeskSound` and `DesktopMoves` rest on an invariant for each of the nine
parts, and a lemma for each of their handlers.
- `CamInv`: windows that are not where the camera shows them have a pass coming
  (`ArrangeIsComing`), on which the answer to a waiting caller rests.
- `GridInv`: a patch that is pending, rendered or committed is newer than the one after it
  (`ChainInOrder`); the patches sent for one view are counted against the moves left
  (`SendsAreFew`), which is why there is no storm.
- `NightInv`: the timer runs while a schedule does, and fires before the factor moves on
  (`TimerRuns`); what each output shows and whether a frame is due there, from what its client and the last
  commits did (`OutputKept`).
- `SelInv`: a carried group remembers where it was (`GroupFits`).
- `SurfInv`: what names an object, by how far it got (`Names`, `WindowsFit`). Listeners are
  moved one at a time; `Fits` says what is known in between.
- `MiniInv`: a program with a floor asks for no size but floors it has had (`FloorsHold`), so
  what it teaches is one of them (`MinimaFit`); if its requests are heard before the next drag
  begins, it is settled which (`InTimeSettles`). Nothing is claimed of a program that rounds:
  it can be taught a minimum (finding 27).
- `GeomInv`: what X has is what the last report under way says (`EndsIn`); a report under way is of a size
  somebody asked for (`Sayable`), and so is every size that may become the window's (`SizesAsked`);
  sizes X has are on the grid of the scale (`OnGrid`), where the way to logical pixels and back
  loses nothing (`Pixels`).
- `ModesInv`: the place a window was given is its box, or its home while it covers the screen, and its
  floating geometry while it is tiled or will be again (`Kept`); the camera shows it or a pass is due
  (`Covers`), and one that reopens at a spot is on its way there, or the camera is (`Reopens`).
- `BackInv`: the render list holds what is linked, once, its ranked windows in the saved
  order (`StackFits`); a saved place is of a window that was restored, and what the user moved
  stays (`ComingKept`); no title has more plates than entries still waited for
  (`PlatesFit`). What is saved holds one slot for each title and program (`AllSaved`, by
  induction over the windows).

Assumptions of `MCDesktop` that say more than a type. `GeometryAssumption`:
the size a window maps with is a whole number of logical pixels; one that maps with another and without an output keeps it to the pixel, and
no size of the layout is that. `RestoreAssumption`: session files have one slot for each title and program, as
`SaveState` writes them, windows are finite, and dialogs are windows.

Induction. The library's induction theorems take an operator as a parameter, which the
installed provers cannot instantiate, but the sets of a well-founded order have least
elements (`WFMin`): a set of numbers that holds zero, and with each the next, holds them all
(`LeastNatural`, `CountUp`). What a fold or a recursive
function gives is proved by that, for a list or a set of any size. `SelectSeq` is opaque to the provers: the modules proved about
take `Only` and `Drop` of `Lists` instead.

Only model-checked: liveness and everything that rests on fairness
(`LockCompletes`, `ClosedAreFreed`, `GoneAreFreed`, the fairness half of
`KeepsPasses`, and the `..Settle(s)` of the last four runs), since the prover handles
neither fairness nor ENABLED.

## Findings

Two have a run of their own and an entry in `PROJECT.json`: 1 (FindDragUnmapped) and 27
(FindRounderFloor). The others were met on the way; in brackets is how to see one: a
constant to change or a property to add to a passing run.

1. `camera.rs`, `seat.rs` (FindDragUnmapped, `DraggedIsManageable`): nothing ends a
   drag when its window unmaps, and the next frame or release hands `manage_finish`
   a window that it declares unreachable. `Window.closed`, which should prevent it, is never set.

Session lock

2. `lock_manager.rs:609`: a lock client that dies before its surfaces are shown leaves
   the desktop enabled in the scene; the session becomes Locked with the desktop on the
   screen (LockSteady with "destroy" in `MayHappen`; against `output.rs:712`).
3. `output_manager.rs`, `commit_output_state`: the frame of a modeset is not noted, so an
   output switched on still counts as blank (LockSteady, with "modeset" or "power").
4. `output_manager.rs`: switching off or unplugging the last output a lock waits for
   calls nothing that completes the lock (LockSteady, with "power").
5. `output.rs:718`: a lock surface that was created and never mapped counts as shown
   for its output (LockSteady, without the exception that `LockedHidesDesktop` makes).

Outputs and transactions

6. `modeset_failed`: the destruction of an output that left during a pass is
   overwritten (OutputsOverlap with `Fails`: `AssertionsHold`); and so is what a newer
   client configuration scheduled, which is then answered `succeeded`
   (`SucceededIsShown`).
7. `handle_decoration_request_mode` sends a configure while the window is Ready and a
   transaction is in flight; a client that maps on it fails the assertion in
   `Window::map` (`Decorating`: `ClientsAreServed`). A decoration configure newer than a
   counted one supersedes it: the client never acks the counted one, and each later
   pass counts it again and waits 100 ms.
8. A toplevel that unmapped with a configure in flight and shows again commits while
   Ready: `send_frame_done` asserts Mapped; and `configure_sent` survives the unmap, so
   one whose plan is unchanged is sent no configure and waits (`Remapping`).
9. A configure sent outside the count (`window_manager.rs:1644`, `camera.rs:175`,
   `seat.rs:1410`) takes its answer off the count, and the transaction ends before a
   counted client answered (`StatusBars` or `Draggable`: `EndsWithLastAnswer`). The camera
   frame's also freezes the picture of a status bar whose transaction timed out, and no
   pass is due that thaws it (`StatusBars` with `Camera`: `FrozenBarWillThaw`).
10. A camera frame clears the rendering flag (`window_manager.rs:1796`), also when
    somebody else set it (`Camera`: `LateSizeIsDrawn`).

Power and services

11. `idle.rs:268` against its doc: a plan file that is there at the start is in force
    only after a change (`Plan!PlanIsInForce`).
12. `idle.rs:509`: an output the idle manager darkened, that a power client lit and
    darkened again, is lit by the next activity (`Idle!StaysAsClientLeftIt`).
13. `stream_server.rs:28`: a frame is to be shared by all subscribers of its window; the
    first in the list finds the window dirty and cleans it, so the others, with room
    or not, see the change only with a keepalive (`OneFrameForAll`).
14. `session.rs:466`: only `Window::destroy` looks whether a clean exit is done; one whose
    last window has unmapped, its client still there, is cancelled by the timer although
    nothing holds it (`CancelledWhenHeld`).
15. Restarts: entries that are not mapped yet are not saved; `restart_closing` is not
    reset when a restart is cancelled (`restart_app.rs:78`); a restart that cannot
    relaunch, or has no timer, leaves its entries; the old process's own new toplevel
    can take an entry during the grace period (`restart_app.rs:166`).

Input

16. `seat.rs:805`: an enter lists every pressed key, whoever took its press
    (`Keys!ShortcutsStayOut`); the client is never told of that release.
17. `keyboard_group.rs:738` against `:404`: while the session is locked modifiers go to an
    input method's grab and not to the lock screen (`LockHearsModifiers`).
18. Regrouping the only keyboard leaves the seat without one until a synthetic is made
    (`SyntheticIsLast`); a key held across a regroup takes another keyboard's count
    with its release (`LastReleaseCounts`). `keyboard.rs:331`: a keyboard that
    holds 32 keys does not note the next, but its group may count it; against
    `keyboard.rs:142` the key is not released when the keyboard goes (Keyboards by itself,
    with two of hardware, two keys, no modifiers and `MaxHeld = 1`: `NothingSticks`).
19. `touch.rs:17` says that every finger is the compositor's during a gesture; one that
    lands on a client beside an edge swipe is not claimed (`EveryFingerIsClaimed`).
20. A release can reach another client than its press (`cursor.rs:114`,
    `ReleaseReachesClient`); an op that a mode change interrupts does not put back what
    it set (`button.rs:1185`); crossing played gestures lose the keyboard's repeat
    (`axis.rs:333`, `RepeatIsKept`); a finger's lift can release the mouse's press
    (`touch.rs:78`, `MouseKeepsItsPress`).
21. `switcher.rs:243`: of two windows that the chooser shows alike, the first gets the
    focus, whichever was taken (`Switch!TakenIsAsked`).
22. `window_manager.rs:919` against `:200`: a click, the switcher or a chord is said to
    start a cycle afresh; one that ends on the window the cycle left off at does not
    (`Switch!ClickEndsCycle`). `:1939` against its comment: with nothing focused,
    `focused_window` can be a minimized window, which is not on screen
    (`Switch!FocusedIsOnScreen`).
23. `tablet_tool.rs:308`: a tip that comes down takes its coordinates from the surface
    under the pen, but goes to the one that has the focus, which is another if the scene
    changed under a still pen, or if a button kept the drag of another (`Pen!DragIsMeasured`).
24. `seat.rs:886`: `focus_requested` is never set, so the focus of a window takes the
    keyboard from an exclusive layer surface, against `seat.rs:553`, and only if the window
    is tiled or floating does it ask for the pass that gives it back (SeatFocus by itself,
    with one window that no focus raises and one layer surface: `ExclusiveHoldsKeyboard`).

Desktop

25. `window_manager.rs:1786`: a zoom that goes back before it settles leaves the blur
    baked for another zoom (`Cam!SettledIsSharp`); an action in the middle of a wheel
    zoom leaves the mode of the other zoom (`Cam!ModeFollowsZoom`).
26. `xwayland_window.rs`, `window.rs:2268`, `:2893`: a ConfigureNotify from before a newer
    configure, that comes before the render pass or the client's next commit, is taken
    for X's size and sent to X again (`Geom!DrawnSizeIsReal`); `resize-window` is lost
    if a commit comes before the next arrange (`ipc_commands.rs:869`).
27. `learned_min`, `xwayland_window.rs:255` (FindRounderFloor, `RoundersHaveNone`): a program
    that rounds its size to a cell is held to a minimum it does not have, after two drag
    sizes that round alike, or a request that is heard after the next size was sent. The
    late request also mistakes the floor of a program that changes it (`HeardInTime`).
28. `xwayland_override_redirect.rs:382`: a menu that is made a window while it borrows the
    keyboard keeps it (`Surf!KeyboardIsLent`); `close_requested` is never reset, so a
    window that once refused a close and later dies is not counted as vanished.
29. `night_light.rs:663`: a gamma client that comes and goes between two generations is
    never noticed (`missed`); a commit that is refused on the frame that takes the
    output back loses the table until the next temperature (`refused`); removing the
    block while a client holds the output makes every frame a commit
    (`NoRedrawStorm` without `config # None`, 3 events).
30. `selection.rs:38`: leaving the overview in mid-band leaves `anchor`; a tiled window
    carried away and back stays Floating (`seat.rs:1441`); an image report in flight at
    the grab, or a grabbed window destroyed in mid-move, leaves images unsaved
    (`Agree` without `torn`).
31. `window.rs:2099` and arrange (`spoiled` of WindowModes exempts them): tiling out of
    fullscreen other than by leaving it saves the screen's size as the floating
    geometry, against the comment at `window_manager.rs:2970`; a session saved while
    fullscreen writes the output's size, so a relaunched window leaves fullscreen at
    the screen's size (`session.rs:312`); losing the output counts as leaving.
32. `placement.rs` (try_restore): an xdg dialog that sets its parent after its app id has
    taken an entry by then (`Back!NoDialogTakes` with an xdg dialog).
33. A window that had no entry when it mapped is moved by its own last save with its next
    title, also after the user put it somewhere (`Back!PlacedStay`).
34. A window whose app id comes before its title is lent another window's entry, and does
    not change it for its own when the title comes (`Back!OwnEntryIsKept`).

## What is not modelled

- The placement policy (the external crate cce-window-manager): what it decides is an
  input. Centring and cascading of new windows (`window/placement.rs`).
- Starting the saved programs again behind the Secret Service, and quoting their
  command lines (`window_manager/session.rs`); how two titles resemble each other.
- Configuration, key tables and libinput settings: parsing and copying.
- Stores, listeners, handles (`listener.rs`, `reentry.rs`, `registry.rs`, `*/store.rs`,
  `wlr.rs`): sequential structures; which callback frees what is in the modules that
  use them.
- Popups' positions, exclusive zones, pressure and tilt of a pen, drawing,
  effects, text, the scene graph and renderer (vendored C), colour and sun arithmetic.
- X11Geometry: several scales, Wine's margin (never active: `Window::is_wine` is false),
  failures of allocation. Touch: the thresholds.

The lock screen client, logind, wlroots, Xwayland and the grid's client are modelled
from how the code uses them: clients ack the last configure they were sent, wlroots
lets only a told client unlock, a backend accepts or refuses a commit as a whole, X
applies a configure at once and reports it late.

## The plan

Done: SessionLock with AbstractLock, Transaction with Passes, OutputConfig, Power, Services,
Input and Desktop, with proofs of all their safety properties.
Left, in this order:

1. Composition: Idle with SessionLock itself in place of AbstractLock; X11Geometry on
   the passes of Transaction.
2. Camera frames in WindowModes and the timeouts of a transaction there; a second window.
3. Relaunching with the session: `RestartApp` and `Session` on the entries of `Restore`.
