# LarkSnap: specifications, checks and proofs

LarkSnap watches a camera, runs a detector on its frames, saves a snapshot when
something is found and sends it to a Feishu chat, from which it can also be
controlled.  It is one Python process with many threads.  This directory holds
TLA+ models of its core, the TLC configurations that check them and TLAPS proofs.
Line numbers below are those of `src/src/larksnap/` unless a path is given.

## 1. The system

| Component | State it keeps | Operations | Talks to |
|---|---|---|---|
| `GatewayController` (`gateway/controller.py`) | `_state`, the adapters, the pipeline, the services, the close thread and its event | open, close, wait_closed, start/stop detection and recording, initialize, stop, fatal error | everything; called by the Qt thread, the initialize thread, the chat thread, drain threads |
| `Pipeline` (`gateway/pipeline.py`, `gateway/frame_queue.py`) | running and paused flags, sockets, retry counter, latest frame and results | start, stop, pause, resume; four worker threads and a drain thread | camera, detector; calls the controller back with results and fatal errors |
| `WorkerPool` (`utils/worker_pool.py`) | bounded queue, shutdown flag | submit, shutdown | runs the blocking work of the detection path and of the recorder |
| `SnapshotService` (`gateway/snapshot_service.py`) | clock per label, enabled flag, counter | save_snapshot, set_enabled, reset_cooldowns | called from pool threads |
| `NotificationService` (`gateway/notification_service.py`) | enabled flag, counters | handle_results | notifier, pool, event bus |
| `VideoRecorder` (`adapters/recorder/`) | recording and draining flags, writer, writes in flight | start_recording, stop_recording, wait_drained | a frame consumer, the pool, a finalizer thread |
| `ConfigService` (`config/service.py`) | the configuration model and its file | set, subscribe | controller (live changes), chat commands |
| Runtime state (`config/state_persistence.py`) | a JSON file | save, load, clear | controller, at close and open |
| `EventBus` (`gateway/event_bus.py`) | handlers | subscribe, publish | everything, synchronously on the publisher's thread |
| Feishu adapter, WebSocket client, commands (`adapters/notifier/`) | access token, connection, commands | send, retry, reconnect, dispatch | the chat service |
| Service runners (`service/`, `main.py`) | running flag, signal handlers | run, stop | controller |
| Main window (`ui/main_window.py`, `main.py`) | menu, status panel, overlay, dialogs | commands of the user, slots of the events | controller, on the Qt thread; hears the event bus |

What is hard: open_camera runs without a lock for its whole length while any other
thread may call the gateway; closing runs on a background worker that other
threads wait for through an event; every stage of the pipeline is a thread that
`stop` can only ask to end and waits for with a timeout; the snapshot throttle is
used by four pool threads at once; a read failure travels through a queue and the
event bus back into the controller, which may by then be in another session.
Events reach the window in two ways, at once on the Qt thread and through its
queue from every other, so that they are handled in another order than they were
published.  One access token, one HTTP client and one configuration file are shared
by the pool workers, the thread of the chat commands and the thread that opens and
closes the camera.

## 2. The modules

| Module | What it models |
|---|---|
| `CameraLifecycle` | What a user of the gateway gets: one phase and whether capture resources are held. |
| `GatewayController` | The controller's lifecycle at the granularity of critical sections and calls; implements `CameraLifecycle`. |
| `WorkerPool` | The bounded pool. |
| `SnapshotService` | The per-label throttle under concurrent use. |
| `Pipeline` | Producer, consumers, subscriber, drain thread, start and stop. |
| `DetectionDispatch` | Results, snapshot, notification: composes `WorkerPool` and `SnapshotService`. |
| `FeishuNotifier` | The token and its lock, alerts with retries, replies, the search for a chat, in time. |
| `ConfigService` | The configuration in memory, in its file and in the running services; `set` and the second writer. |
| `RemoteControl` | The thread of the chat commands, with the opener and the pool workers: composes `FeishuNotifier` and `ConfigService`. |
| `Presentation` | The main window: slots, commands, overlay, dialogs, and the event bus that feeds it. |
| `VideoRecorder` | The recorder around its lock. |
| `MC*` | Instances for TLC. |
| `*Proofs` | Theorems about the module of the same name. |
| `GatewayResourceProofs` | Theorems about what `GatewayController` holds, and its refinement. |

### GatewayController

`state` is `_state`; `CanSet` is `_set_state`, which succeeds exactly on
`_ALLOWED_TRANSITIONS`.  A method call is a path through control points
`pc[t]`, with one step per critical section of `_state_lock`, per assignment of a
shared attribute and per call into a component.  What an open_camera creates
is a *session*; `camera`, `pipeline` and `services` hold the session the
controller refers to, and `camOpen`, `running`, `paused`, `snapOn`, `notifOn` and `rec`
say what became of each session's objects, so that an object the controller has
lost sight of is still in the model.  `closeThread`, `worker` and `closeDone` are
`_close_thread`, the close workers and `_close_done`.  `saved` is the runtime state
file.  What may fail (`Failures`) is: the camera does not open (`camera`), another component does not
initialise or start (`component`), the state file cannot be written (`save`), or it cannot be decoded (`load`):
`load_state` catches what a missing or malformed file raises, but not the UnicodeDecodeError of a file that is
not UTF-8.  That one leaves open_camera through its outer handler when the camera is already on, so that
everything is released while the state is CAMERA_ON, and IDLE is assigned and not set.  `CameraLifecycle` has a phase for it,
`undoing`, entered by `Undo` from CAMERA_ON and left for idle with nothing held; `Undoing` in `GatewayController`
says when the state is to be read like that.  A bad file stays as it is, so that a later open fails in the same way.

Callers outside the controller are methods too: `select` is
`MainWindow._on_select_camera` (close, wait, open), `fatal` is
`_on_pipeline_fatal_error` on a drain thread, which publishes CAMERA_READ_FAILED and so calls itself again before it looks at
the state (`FatalCheck` loops), `initialize` is what `main.py` runs on a
background thread.

Simplifications: testing an attribute against None and using it is one step,
so that the AttributeError of a reference that vanishes in between is not modelled
outside open_camera; events and component states that are published are left out;
an open_camera whose budget (`MaxOpens`) is used up is not begun.

### WorkerPool

A step is one operation on the queue or the flag.  `entered` and `taken` record the
history of the queue.  `Join` may time out only on a worker that runs a task:
a worker waiting in `get` wakes within 0.5 s and a join lasts 2 s.  `submit_callable`
and its executor are left out; nothing calls them.

### SnapshotService

`save_snapshot` reads the flag (`Enter`), the clock (`Stamp`), and then decides, writes
and refreshes the clocks inside `_cooldown_lock` (`Decide`), and counts
(`Count`).  Time passes between any two of these.  `Disk` names what imwrite may do:
write, raise, or return False, which the code ignores.  `trigger` is the history of the times at which a label
triggered a save, and `reordered` remembers that a save was decided with a time older than the clock of one of its labels.
A reset of the cooldowns starts both afresh.  `SaveOnNewClass` is a parameter; the program leaves it at its
default (`controller.py` 662-673), which is what the runs use.

### Pipeline

Frames are numbers.  `producer`, `consumer[c]`, `subscriber` and `drain` are control
points of the five threads; `phase` is where `start` or `stop` is, one phase per
component that is started, stopped or joined, in the order of the code.  The
producer's socket can be open, closed but still referred to, or gone, because
`stop` closes it and drops it in two steps while the producer is sending: the three cases are a
send, a ZMQError that counts as a failed read, and an AttributeError that ends the
loop.  While nobody stops, an exception that is no CameraError is slept over and not counted (`frame_queue.py` 247-255).  `backoff` has the values of the code in milliseconds; a backoff above
two seconds outlasts the join of `stop`.  PUSH gives each frame to one
consumer that has room (`Targets`), the choice left open; a frame nobody has room
for is dropped by both drop policies.  The blocking policy is not modelled.  The results of a
detection that found nothing are not sent on, as the subscriber ignores them.

### DetectionDispatch

The module declares the variables of `WorkerPool` and `SnapshotService`, takes both with
`INSTANCE`, and lets every step on them be one of theirs: a worker takes a task from
the pool (`Pool!Take`), runs it as a sequence of steps with `point[w]` as its place
in the task, and ends it (`Pool!Finish`).  A task is a detection
(`_dispatch_detection`: `EnterSave`, `SaveSnapshot`, `HandleResults`, `SubmitAlert`,
`PutAlert`) or an alert (`_dispatch_aggregated`: `Send`).  A detection remembers whether the state was
DETECTING when its result came in, as the code does; the flag of the snapshot
service and the switch of the notifier are read when the code reads them.
`Toggle` and `ApplyToggle` are the two halves of start_detection and stop_detection;
`Disconnect` is the close worker's release of the notifier, taken while no
toggle is half done (the gateway's own module is about that race).  `fate[k]` is a history
of what became of the snapshot saved by task k.  The save interval is 0, so
that every frame may be saved and time can stand still: the interval is what
`SnapshotService` is about.  The session and the pool are the same throughout; a second
session has its own services and reaches the tasks of the first through the pool alone.

### FeishuNotifier

A thread that uses the adapter is at one of the points of `at[t]`: it waits for the lock
(`token`), for an answer (`refresh`, `upload`, `post`, `companion`, `reply`, `list`) or for
the pause between two attempts.  `goal[t]` says what for.  Time is counted as what is
left: `trusted` is `_token_expire_time` minus now, `valid` is how long the server will
accept the token.  The server counts from when it issued the token, the adapter from when the answer came; `lag` is
how long that answer was on the way.  `held[t]` is the token that t works with: how long it is still accepted (`left`), and how much of the
margin is spent on it (`spent`), by the lag first and then by holding it.  `since[t]` is how long t has paused or waited for a token.  A request
lasts for any time, because `httpx.Client(timeout=30.0)` bounds each phase of a request and not the request.
`Tick` needs every thread to be waiting, so that computing takes
no time; `Rest` is time that passes while nobody does anything.
`_send_image_message` takes a token before
`_upload_image` takes one (`goal` is `image`, then `upload`) and goes on with its own.
What each exception does is in the model: a `NotifierError` in the upload falls
back to text, any other error does not; a `RequestError` in an attempt is retried, any
other ends the sending; `send_text` and the search for a chat catch everything.
`PostFailed` includes the answer that is lost after the message has arrived.
Formatting may fail, as a template may name keys that the adapter does not have.

### ConfigService

One option stands for all, and comes in three kinds, as a running program comes to work with a new value in different ways: `pushed`, copied by
`_on_config_changed` (`Notify`); `shared`, read by an adapter from the very object that `set` assigns to, as the
Feishu adapter does (`controller.py` 1260), so that it changes at the assignment and also when the save then fails;
and `unused`, which nothing takes over, whether the reply says that a restart is needed or, for some, that it is applied.  The file is the value of the option, or `Torn`
when it is cut off, and whether it holds the tag of a Python tuple (`tagged`): `yaml.dump` writes one for
`detector.mock.confidence_range`, and `yaml.safe_load` refuses it, so that `PersistRead` and the next start of the program cannot read
what `set` has saved.  `open(path, "w")` empties the file (`SaveOpen`, `PersistOpen`) and the dump
fills it (`SaveDump`, `PersistDump`), and either may fail.  Before that, the directory may fail to be made, which is no
ConfigError (`SaveEscapes`).  When two writers are in the file at once,
the longer text may stick out behind the shorter.  `live` is the option as the running services
have it; `BuildServices` copies it from memory, as open_camera does.  `clobbered` records that `_persist_chat_id` wrote
back an option older than what it found.  Exceptions of subscribers, which `_notify` logs, are left out: the one subscriber there is catches its own.

### RemoteControl

One session of the gateway, opened and closed at any moment, and one command after the
other on the thread of `FeishuWSClient`, which may be on before the session, because it
outlives the session that started it, and may die.  A command is one of the five classes of behaviour
that `_handle_command` has, the alias `state` among them, which the parser accepts and no branch handles.  `step` is where the thread is: learning the chat
of the sender (`set_chat_id`), handling, changing the configuration, replying; `SetEscapes` is the exception that ends the
handling without a reply.  `told`
remembers whether there was a snapshot service when `set` was called.

### Presentation

The gateway is `GatewayController`'s, cut down to the steps that publish or that the
window sees.  `todo[p]` is what a publisher has still to publish; `PublishDirect` is
an event on the Qt thread, whose slot runs in the middle of the gateway call, and
`PublishQueued` one on any other thread, which appends to `queue`; `HandleEvent` is the event loop.  A
camera status is stamped when it is published and shown when its slot runs; the menu
is computed from the state of the moment (`UpdateActions`).  A modal dialog runs the
event loop of its own: `dialogs` is the stack of them, `held` how many lie below
the gateway call that is under way.  `hidden` is a window in the tray, whose overlay
`hide_overlay` does not hide.  `lost` records the two reasons for which the
window is not told the truth for good: an open that failed in the background, and
a hide without effect.  The state file may be one that cannot be decoded: `RestoreBreaks` is the open that fails with the
camera on, and ends as the others do.

Simplifications: commands come after the background open has begun and while no event is
waiting; `/init` in the chat and hiding the window count as commands; what a publisher
publishes in one go enters the queue at once, with one stamp; the `QTimer.singleShot` of
the background thread, which has no event loop, does not fire.  The notification and
recording entries, the other lines of the panel, the preview and its timer, and texts are
left out.

### VideoRecorder

`lock` is `_lock` where it is held over several steps, which only `stop_recording` does;
every other critical section is one step that needs it free.  `pending` is the queue of
the pool; `consumer` and `running` tell the consumer the recorder knows from those
whose loop goes on.

## 3. The checks

Runs that must pass:

| Run | Instance | What it shows |
|---|---|---|
| `gateway_one_opener` | one thread opens, switches device, toggles and records; another closes or reports a fatal error at any moment; two devices, two opens, every failure, a state file that cannot be decoded included | the state, the resources and the flags agree (`ClosingHasWorker`, `OneTeardown`, `IdleHoldsNothing`, `NothingLeaks`, `OpenMeansRunning`, `DetectorLockstep`), and `CameraLifecycle` is implemented, whose steps are those of `_ALLOWED_TRANSITIONS` and `Undo` |
| `gateway_desktop` | the Qt thread initializes, selects, toggles and quits; the drain thread reports fatal errors and waits; fair scheduling, no recording | every close frees everything and ends (`ImplementsFairLifecycle`), every open ends, every waiter is let go |
| `pool` | two producers, two callers of shutdown, two workers, one place in the queue | order, no task run twice, no task begun after shutdown has returned, accepted tasks run until a shutdown begins, shutdown ends everything although sentinels are refused |
| `snapshot` | two threads, two labels, an interval of two ticks, three saves, the mode the program selects, a disk that fails in either way | as long as no save has been decided with an older time than the clock it turns, the saves that a label triggers are an interval apart, whichever labels share a frame (`SpacingInOrder`) |
| `pipeline` | four failures allowed, pipes with one place, two frames, any step of start may raise, a stop at any moment, a camera and a detector that may hang | results in order, fatal errors reported once and only with a reason, and always unless stopping; stop is bounded, releases everything, and nothing begins work afterwards |
| `dispatch` | two pool threads, a queue with one place, two results, two toggles, a disk and a chat service that may fail, the session closing and the pool shutting down | a message is asked for only for a saved snapshot and once; a worker never waits for the pool it runs on; every saved snapshot is sent, fails, is refused or waived, unless a shutdown begins |
| `chat` | one pool worker with an alert, one command, a chat that may have to be found, an upload, two attempts with a pause and a companion, in a token of two ticks with a margin of one; requests that take any time, a client that may be disconnected, a file that may fail and a chat thread that may die at any moment | a token that is refused for its age has been in use for longer than the margin (`TokenFresh`); it is asked for once (`NoNeedlessRefresh`); what counts as sent has arrived (`SentMeansDelivered`); what `/config set` replies is so for the options that reach the services (`ReplyIsTrue`); every command comes to an end (`CommandsEnd`) |
| `ui` | the background open with every way it fails, one command, a fatal error, a command from the chat, two close threads, a window in the tray, a state file that may be unreadable | when all is settled the menu is that of the state (`MenuInStep`); no overlay stays (`OverlayEnds`), but in the cases below |

Runs that TLC must find violated, each a disagreement between the code and its
own documentation (quoted in PROJECT.json under `findings`):

| Run | What happens |
|---|---|
| `recorder_stop` | stop_recording takes its own non-reentrant lock twice (through `self.duration`) and never returns; a close during a recording never reaches IDLE. |
| `snapshot_stale_clock` | In default mode, a save decided with a time read before the lock turns a label's clock back, and the label triggers twice within the interval. |
| `pipeline_picture` | The frame that is shown and sent with a result ("the source frame", `notification_service.py` 259) is another than the one the detector has seen: PUSH deals the frames out over the two consumers instead of copying them. |
| `ui_switch` | When the window switches devices, the events of the open are shown in its calls and those of the close afterwards, from the queue: the panel stays at idle while the camera runs. |

Bounds.  Two opens are needed for a session to be confused with its successor, and
two close workers for a close to overlap the end of another; three of either only
repeat this.  Two devices are needed to switch.  Three saves with an interval of two
ticks in a window of four leave room for a trigger, a stale decision and a second
trigger.  A queue with one place is both the full and the empty queue.  Two
frames are the least that can be out of order, or be handed to different
consumers; four failures reach the backoff of 2250 ms that outlasts a join (the
code allows five).  Two results and two workers are enough for both workers
to submit to the one place of the queue at once while a result arrives; two
toggles switch detection on and then either switch off, so that a
flag is read before and after it changes.  In `dispatch` the pool shuts down
only after the session is closed, the order of `stop()`.
In `chat` one worker, the chat thread and the opener are three users of the token, so that one refreshes while
another waits for the lock and a third finds the new token; a token of two ticks is the shortest that is trusted for one tick and
accepted for another, so that it runs out in the hands of a thread that retries.  Two values are what a write changes; `pushed` and `shared` are the kinds of which
`ReplyIsTrue` says something beyond the file.
In `ui` one command after the background open is enough for a close, a switch, a reopen after a fatal error
and an answer to a dialog to meet a close that is still publishing; a fatal error reaches the window once, as a second
echo only repeats the dialog (with `Echoes = 2`, 4.9 million states, `MenuInStep` holds as well).

Deadlock checking is off because all these programs may stop:
threads end and nobody has to call anything.

Fairness.  `GatewayController`: every thread that is inside a method goes on, and
every close worker does; they are ordinary threads that wait only for locks and
with timeouts.  No call has to be made.  `WorkerPool`: the same; tasks are assumed to return.
`RemoteControl`: threads go on and time passes, and every request ends: each phase of it has a timeout, and an answer that trickles
for ever is what is excluded; nobody has to open, close, send or ask.  `Presentation`: threads go on and the event loop turns; nobody has to click, answer a dialog or
write to the chat.  `VideoRecorder`: whoever can go on does.
`Pipeline`: every thread goes on except in read_frame and in the
detector, which may hang.  `DetectionDispatch`: threads go on, and `send_message` returns, as
retries are bounded and requests end.  The liveness of the gateway is checked without recording,
since a recording is what defeats it.

`AcceptedRuns` ends with "or a shutdown begins": the comment in
`controller.py` 1095 says that stragglers get a chance to run, but a worker leaves
its loop on the flag without emptying the queue.

Other passing properties too have conditions that say where the code ends.
`OpenMeansRunning` and `ImplementsLifecycle` know the open_camera that fails after CAMERA_ON, on a state file that is not UTF-8:
until its outer handler is through, CAMERA_ON means nothing, and then IDLE is assigned, which `_ALLOWED_TRANSITIONS` does not have,
although the docstring of `GatewayState` (109-111) says that all transitions go through `_set_state`.
`SpacingInOrder` ends with the first save that is decided out of order, and `snapshot_stale_clock` shows why.
`TokenFresh` lets a token be refused once the margin is used up.  The margin of 300 s covers an alert with the default of three
attempts and pauses of 5 s as long as each request takes seconds, but `max_retries` and `retry_interval` have no bound in the configuration, nor has
a request that trickles, and nobody asks for another token in between.
`SentMeansDelivered` bounds the copies of an alert by `max_retries` and not by one: a lost answer is
retried.  And its converse does not hold, `False` does not mean that nothing arrived.  `ReplyIsTrue` lets the file lose an option again that
was saved, as `_persist_chat_id` reads, changes and writes the same file without the lock of the
service; and it says that a success is running only for the options that reach a service.
`OverlayEnds` and `MenuInStep` except an open that failed on the background
thread: it publishes CAMERA_FAILED before the state is IDLE, or publishes nothing when it was not
the camera that failed, so that the loading overlay stays and the menu offers what it offered in
OPENING, although `main.py` 139 says that the window will show the error.

Behaviour met while modelling that no run reports, because the project keeps the
number of its runs small.

- *Gateway.*  Two openers at once let the outer handler of a failed
  open_camera release the other's session (`controller.py` 749); start_detection and
  stop_detection on two threads can interleave and leave the flags apart (985, 1016).  Adding a second opener to
  `gateway_one_opener` shows both, as violations of `OpenMeansRunning` and `DetectorLockstep`.
  A state file that is not UTF-8 makes open_camera fail
  (`state_persistence.py` 117-124 lets UnicodeDecodeError pass), and every later one until the file is deleted; when the window
  starts the detection in the moment between CAMERA_ON and the failure, everything is released and the state stays DETECTING, because the outer handler
  sets IDLE from OPENING and CAMERA_ON only (751).  stop() cannot close a camera that is being opened, so the camera comes up after stop()
  has returned and shut the pool down (1086), where 1075 says "close camera (stops everything)".  A fatal error of an old pipeline that is handled after
  a reopen closes the fresh session (1232).
  A close during OPENING is refused only after it has overwritten the saved
  runtime state (805); wait_closed can see the event of an earlier close (954).  open_camera with another device
  closes and never reopens (601), as the close it has begun is still running, although 568 promises a
  close and reopen; the window does not use it.
- *Snapshots.*  `cv2.imwrite` may return False, which nobody looks at (`snapshot_service.py` 443): the save is counted and announced, the clocks turn, and a
  message is sent without its picture, although 247-249 says that a failed write is not counted and 98 that True means a file.
  A save that has passed the check of the flag writes after the toggle (308).
- *Recorder.*  A file that cannot be opened leaves its FrameConsumer running, and the next start replaces it.  Frames are
  written by the workers of the pool, so that two of them may be written out of order.  The recorder connects to an
  endpoint of the controller's making (198), which is not one the pipeline binds.
- *Chat.*  `/state` is accepted by the parser as an alias (`command_registry.py` 196) and no branch knows it, so that it is dropped silently.
  When the directory of the configuration cannot be made (`loader.py` 56, outside the try), the OSError passes by the `except ConfigError` of `_render_config`
  and the `/config set` is never answered.
  `/start` and `/stop` before there is a service are acknowledged and do nothing.  `/config set`
  is carried out while its reply is rendered, and therefore only when there is a notifier.  Its values
  pass through shlex, which strips their quotes, so that a JSON array of strings does not round-trip (comment at 1426-1431; not modelled).  The
  client of the chat is not started again after it has died.
- *Alerts.*  A template with a key that only NotificationService knows raises KeyError in the adapter (`feishu_adapter.py` 333,
  382): a text alert is never sent, and an image is sent and reported as an error.  A network error in the upload does not
  fall back to text.
- *Configuration.*  `/config set` answers "applied" for every path outside `RESTART_REQUIRED_PREFIXES` (`service.py` 48-56), but
  nothing takes over `gateway.frame_queue_maxsize` or `notifier.type`, among others.  A save that fails leaves the new value in memory (151-161), where the
  adapter that shares it works with it at once and the next open_camera takes it, and may leave the file cut off; the comment at 157-159 says that
  neither failure must leave the two in a divergent state.  A file that `set` has saved holds `!!python/tuple`, which `yaml.safe_load` refuses: a chat
  id learned afterwards is not persisted, and the next start of the program cannot load its configuration.
  The settings dialog changes the model and writes the file without the service (not modelled).
- *Window.*  An overlay that is to be hidden while the window is in the tray stays (`main_window.py` 452).  Each
  level of the recursion of CAMERA_READ_FAILED (`controller.py` 1232) queues a dialog of its own.  The
  answer "reopen" does nothing while the camera is still closing.  A read failure that is handled after a switch stops
  the preview of the new session.  A failed open does not refresh the panel.
- *Camera.*  OpenCV's messages are silenced by pointing descriptor 2 at the null device and back (`opencv_adapter.py` 66-92).
  Two threads that do so at once, an open in the background and the window refreshing its list of cameras, can each save what the other has set, so
  that standard error stays silent from then on.

## 4. The proofs

| Theorem | For every value of the constants |
|---|---|
| `GatewayControllerProofs!TypeCorrect`, `ClosingIsAttended` | the type invariant; `ClosingHasWorker` |
| `GatewayResourceProofs!TeardownIsUnique`, `IdleIsEmpty`, `NothingIsLost`, `OpenIsRunning` | what the gateway holds: `OneTeardown`, `IdleHoldsNothing`, `NothingLeaks`, while no two open_camera calls overlap, and `OpenMeansRunning`, while besides nobody toggles the detection during an open that is taken back |
| `GatewayResourceProofs!GatewayImplementsLifecycle` | the refinement of `CameraLifecycle`, under the same conditions |
| `GatewayResourceProofs!DetectorInStep` | `DetectorLockstep`, while no toggle overlaps another or an open_camera |
| `GatewayResourceProofs!OneOpenerIsSerial`, `OneOperatorIsSerial` | which applications meet these conditions |
| `GatewayResourceProofs!OneOpenerIsSafe`, `OneOperatorIsSafe` | the properties for these applications, without a condition |
| `WorkerPoolProofs!TypeCorrect`, `NoLateStartHolds`, `FifoHolds`, `RunsOnceHolds` | the safety properties of the pool |
| `SnapshotServiceProofs!TypeCorrect`, `SpacingInOrderHolds` | the type invariant, and `SpacingInOrder` |
| `SnapshotServiceProofs!CountsFilesHolds` | the counter is the number of files, if no write fails silently |
| `PipelineProofs!TypeCorrect`, `StopReleasesHolds`, `QuietAfterStopHolds` | the type invariant, and what `stop` guarantees once it has returned |
| `PipelineProofs!ResultsInOrderHolds`, `PictureIsAnotherHolds`, `FatalTruthfulHolds` | `ResultsInOrder`; that what `pipeline_picture` shows once happens always; what is reported as fatal |
| `DetectionDispatchProofs!DispatchIsPool`, `DispatchIsSnap` | the composition takes only steps of `WorkerPool` and of `SnapshotService` |
| `DetectionDispatchProofs!TypeCorrect`, `MessagesAreSavesHolds` | the type invariant; messages are asked for by saves, once each |
| `RemoteControlProofs!OneRefreshAtATime`, `SentIsDelivered`, `TokenIsFresh` | the token and the alerts: `NoNeedlessRefresh`, `SentMeansDelivered`, `TokenFresh` |
| `RemoteControlProofs!TypeCorrect`, `ReplyHolds` | the type invariant of `RemoteControl`; `ReplyIsTrue` |
| `PresentationProofs!TypeCorrect`, `MenuInStepHolds` | the types of the window; `MenuInStep` |

With these every safety property of the passing runs is proved for all instances.

Assumptions are those named in the modules: natural bounds, at least one worker and
one place in the queue, threads distinct from close workers, a margin below the life of a token.  Where a theorem needs more, its
hypothesis says so: `SerialOpens`, `CalmOpens` and `SerialToggles` of the gateway (below), `NoSilentFailure` of the counter.

*ClosingIsAttended.*  The property is inductive together with types once split into frames: a step either leaves the
state, the control points of the close section and the workers alone,
or it is one of the few that move the obligation on: CloseEnter sets CLOSING and enters the
section, CloseSpawn hands the obligation to a new worker, WorkerSetIdle ends it together with the state.

*What the gateway holds.*  `Held` is the contents of the controller at every control point: `Stage` says for the thread
inside open_camera what it has taken so far and what its two handlers have given back, `Freeing` the same for the close
worker, `Empty` and `Up` what IDLE and the open states stand for, and `Lone` that one thread at most tears down, and only in
CLOSING.  Most steps are `Aside`: they touch no resource and stay outside the two sections.
The condition `SerialOpens` says that no two threads are between the claim of OPENING and the end of open_camera's
handlers.  The claim alone does not give it: `_set_state` admits one opener at a time, but an open that failed sets IDLE
and then passes through the outer handler (749), which releases whatever the controller refers to, and by then that may be
the session of the next opener.  So the theorems are exactly about programs without a second opener at that
moment, and the condition is not empty: `OneOpenerIsSerial` proves it of every program in which one thread
opens, whatever the other threads do, and `OneOpenerIsSafe` draws the conclusion; `OneOperatorIsSafe` does for the properties about the open states and the flags, when the thread that opens is also
the one that toggles.  That is the desktop once
the background thread of `run_with_qt` has opened; before, the window and that thread are two.
`OpenMeansRunning` and the refinement need more, since an open_camera may fail when the camera is already on, and release it: a
detection that is started at that moment would stay DETECTING with nothing behind it.  `CalmOpens` says that no toggle overlaps an
open_camera; `Live`, the invariant on top of `Held`, says that CAMERA_ON and DETECTING stand for `Up` unless an open is being taken back, and that
meanwhile the state is not DETECTING.
`SerialToggles` plays the same part for the flags (985, 1016), where two toggles at once leave them apart: in the
program, those of the window and of `initialize` on the background thread.
The refinement follows from the same invariant: a step that frees does so in a state in which `CameraLifecycle` may
`Free`, the phase `undoing` included, and IDLE is entered when `Empty` holds.

*The pool.*  `NoLateStart` needs `JoinedWindDown`: after the joins of a closer have passed a
worker, that worker has ended or is running its last task, and the flag is set for
good, so its next look at the flag ends it.  `RunsOnce` follows from `Fifo` and
`OffersAreNew`: tasks are numbered when they are submitted, an offer is larger than
every task that has entered, and so what entered is free of duplicates.

*The throttle.*  The condition under which a frame is saved compares the time with the clock of the label, and the property with
the last save the label triggered.  `ClockCovers` relates the two: as long as no save is decided out of order, the clock of a label is at least as late
as the last save it triggered, be it that save's time or that of a later one which the label only shared.  A save with an older time breaks
it, and the property with it (`snapshot_stale_clock`).

*Stopping the pipeline.*  The type invariant needs more than types: no thread is at work on a
frame of an empty pipe, and the preview consumer never detects (`TypeInv`).  What
`stop` guarantees is built up one phase at a time: `StopInv` says, for every
component that stop has passed, that its flag is down and its thread has ended or is in the
one call that stop has given up waiting for.  No step undoes it, as threads read
their flag before they begin anything.  At the end of the phases `StopReleases`
is what `StopInv` says; `QuietAfterStop` is about a step from such a state.

*What the pipeline hands over.*  `PictureIsAnotherHolds` follows from `Dealt`: a frame that was sent is on the side of the
detection consumer (`FoundSide`: its pipe, its hands, its results on the way) or on that of the preview consumer (`ShownSide`),
and the two never meet, as a send picks one pipe.  It is a theorem about what the code does, not about what it should do.  `ResultsInOrder` is a chain of bounds (`OrderInv`): along the way
of a frame, from what was handled back to the last number that was read, each place holds numbers
that rise and lie above the place before; dropping and taking only shorten the chain.  `FatalTruthful` needs where the one
report can be (`FatalInv`): in the queue, in the hands of the drain thread, or published.  The errors that stop provokes can bring the
count of failures to its limit, but then the drain thread has already been told to end, and publishes nothing.

*The counter.*  `CountInv` is `CountsFiles` with the set of threads about to count being finite, which holds for any set of threads,
as each of them entered by a step of its own.  The hypothesis `NoSilentFailure` is what the code takes for granted of imwrite.

*The dispatch.*  Nothing about the two parts is proved twice.  `NextIsPool` and `NextIsSnap` say that a step of the
composition is one of `WorkerPool` or leaves it alone, and of `SnapshotService` alike; with that the theorems about
them become `PoolInv` and `SnapTypesAlways`.  The invariant on top (`Inv`) is about what ties them together.  `WorkInv` says where
a worker is in its task, and that a task still to be alerted has no alert yet; it needs that no two workers hold one
task (`RunsOnce`).  An alert that has not been sent belongs to a snapshot that has not been sent about (`FateInv`), since
no two alerts are about the same (`AlertInv`) and an alert runs once.  The number of messages is a balance (`DebtInv`): alerts
there are, and workers that owe one, are together at most the writes; a worker runs up the debt when it writes, and pays it when it submits.

*The window.*  `MenuInv`: the menu is that of the state, or somebody will see to it.  `Will` names who that can be: the Qt
thread in a gateway call, which ends in an update; the background thread until it has published; a close worker that has
not published; an event on its way, other than that of a chat_id; a dialog about a failed open.  A step that changes the
state appoints one of them, and each of them ends in `_update_action_states` or appoints the next.  That the first claim of the
background thread never fails needs `Untouched`: before it nobody does anything.

*The chat.*  `NextIsNotifierOp` reduces a step of the program to an operation of the notifier or a
stutter.  `NotifierInv` says of each thread which errand it is on (`Errand`), how many copies
may have arrived by then (`Copies`) and that a refresh is the owner of the lock with no token trusted
(`Refreshes`); a step touches one thread (`OneThread`).  `TokenIsFresh` is an account: of a token in use, what the server still grants and what is spent of the margin
are together more than the margin (`Granted`), and each tick takes from the one what it gives to the other (`AgedIsGranted`), so that when nothing is granted any
more the margin is spent.  A trusted token enters with a balance, as it is accepted for the margin longer, less the time its answer was on the way (`TrustInv`).
The delicate case is an image, which takes one token, goes back to the lock for a second, and
posts with the first: `HeldInv` is about the first one from then on.  Nothing is assumed of the number of attempts, their pauses or the length of requests.
`ReplyHolds` follows the file through `set`: after the dump it holds the value, or the
opener has just emptied it having read the value there, or an older option was written back (`FileInv`); and the services by the kind of the option
(`ServicesInv`), as a shared one is there from the assignment on and a pushed one from `Notify` on.

Left to TLC: everything that is a liveness property, as neither fairness nor ENABLED can be reasoned about with the provers
at hand: `ImplementsFairLifecycle` beyond its safety part, `OpenCompletes`, `WaitersReturn`, `AcceptedRuns`, `WorkersExit`,
`ShutdownReturns`, `FatalReported`, `StopReturns`, `DispatchReturns`, `AlertsAccounted`, `CommandsEnd` and `OverlayEnds`.  So
are the four properties that the code violates; of the recorder nothing is proved, as what it promises does not hold.

## 5. Not modelled, and the plan

Next, in order:

1. Proofs: that a step of `RemoteControl` is one of `FeishuNotifier` or of `ConfigService` as a theorem, with the
   invariants of each stated apart, as `DetectionDispatchProofs` does; the step-wise safety parts of the liveness properties,
   such as that a backoff, a join or a retry is taken a bounded number of times.
2. Modules: the recorder after `stop_recording`, as it would be once its lock is repaired, is in `VideoRecorder` but not
   reached; the runtime state file with its atomic replace; `ServiceRunner` with signals; the settings dialog
   as a third writer of the configuration.

Not planned: layout and painting in `ui/`, the numeric inference of the detector adapters,
log and error texts, message layout, the opening of a camera by trying one OpenCV
backend after the other, which is one call that succeeds, fails or takes long.
