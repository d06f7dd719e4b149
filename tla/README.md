# laylit: verification project

laylit colors an EVision keyboard by the active Windows input layout. It runs
either as one interactive process, or as a Windows service that keeps one
*session helper* process running in the session shown on the physical console;
the helper then does the coloring. These TLA+ modules model the parts of that
program where processes, goroutines, callbacks and timers meet, check them with
TLC on small instances, and prove the results that matter most with TLAPS for
every value of the constants.

Paths below are relative to `src/internal/`.

## 1. Inventory

### 1.1 Components, their state and operations

| component | source | state | operations |
|---|---|---|---|
| session supervisor | `entry/supervisor.go` | the helper held, the retry timer, `retrySession`, `retryAll` | query the console, start, stop, select on context, notification, helper exit, retry |
| session helper, service side | `entry/session_windows.go` | process handle, lifecycle pipe, `done` channel | create the process, read HELLO, await READY, Stop, terminate, wait |
| service handler | `entry/service_windows.go` | service status, `notifications` (capacity 1), `runDone` | session change, stop, exit code |
| automatic runtime | `app/runtime.go` | `appliedLayoutID`, the two channels, the device | discover, configure, open, apply, subscribe, read again, select, close |
| layout listener | `layouts/windows/source.go` | window, `lastID`, `stopped`, `loopErr`, two channels of capacity 1, `closeOnce` | message loop, publish, replace, Close |
| Alt+Shift hook | `layouts/windows/keyboard_hook.go` | `altDown`, `shiftDown`, `chordSeen` | observe a key, post a message |
| TSF listener | `layouts/windows/tsf.go` | COM objects, registration | start, callback, close |
| layout resolver | `layouts/windows/resolver.go` | the window and layout of the last TSF notification | resolve, activate, clear |
| EVision device | `devices/evision/`, `devices/devices.go` | the open HID handle | inspect, choose the interface, open, send a report, read its acknowledgement, close |
| commands | `entry/main.go` | one device for one call | info, set, off, interrupt |
| layout probe | `cmd/layout-probe` | window, TSF objects, hook | start, message loop, close |
| HID transport | `hid/` | device set, handles, overlapped requests | enumerate, open, write and read with a timeout, close |
| layout configuration | `config/` | one file, replaced through a temporary one | load, reconcile, save |
| session helper main | `entry/helper.go` | the runtime's goroutine, the pipe | HELLO, READY, STOP, exit code |
| session pipe protocol | `sessionipc/protocol.go` | a connection, its write lock | frames, one goroutine per frame |
| remote log sender | `logger/remote.go` | the pipe, a 250 ms write deadline | send a record, give up |
| asynchronous log handler | `logger/handler.go` | a bounded queue, counters | enqueue, flush, shut down |
| the rest | `color/`, `logsettings/`, `winconsole/`, `service-cfg.bat` | none that outlives a call | parsing, settings, consoles |

### 1.2 How they interact

    service control manager --requests--> serviceHandler.Execute
        Execute --notifications (cap 1), context--> sessionSupervisor.Run
            Run --CreateProcess, pipe (HELLO, READY, STOP), TerminateProcess--> session helper
                session helper runs Runtime.Run
                    Runtime.Run <--events (cap 1), errors (cap 1)-- subscription.messageLoop
                        messageLoop <--window messages-- Windows, keyboard hook, TSF
                    Runtime.Run --report, acknowledgement--> keyboard

`Run` of the supervisor is one goroutine; every helper process adds one
goroutine that waits for it. The listener has a goroutine locked to its thread,
on which the hook and TSF call back, and a goroutine that watches the context
and closes the listener, concurrently with the `Close` deferred by
`Runtime.Run`.

### 1.3 Hard behaviour and the properties that answer it

`PROJECT.json` lists each hazard with its line; in short:

* *supervisor*: a start or a stop fails half way; the console moves during a
  start; notifications arrive during a backoff; the service is stopped during a
  switch; a terminated process does not die. It must never hold two helpers,
  never sleep with nothing to wake it, never bypass the backoff, never report a
  clean end over a running helper, and settle when the world does.
* *service handler*: the notification channel holds one value, and the send does
  not block. No session change may be lost; a stop must end the service.
* *runtime and listener*: the layout changes between the first read, the
  registration and the second read; two caches (`lastID`, `appliedLayoutID`)
  deduplicate in series; the buffered value is replaced while the reader takes
  it; any call may fail; close is called from two sides. No change may be lost,
  the keyboard must show the newest layout, and no return may leave a listener, an
  open device or a hook that still forwards to a listener.
* *hook*: the chord is counted from key events, with one flag per modifier. Every
  switch Windows makes on Alt+Shift must lead to a read.
* *layout source*: four sources of a layout with a precedence, each of which
  Windows may leave untold; TSF tells of a switch late, and of another window
  than the one it was made in. The layout published must be the focused one, and
  a listener that has stopped must publish nothing more.
* *listener thread*: ten steps of a start, any of which may fail after the others;
  each return has its own list of calls that undo them, and Windows may refuse such a
  call; TSF may refuse to let go of a callback. Nothing may dangle.
* *HID device*: a keyboard that answers late or never, requests that complete
  while they are cancelled, an enumeration that fails half way, an unplugged
  keyboard. Success must mean the color is shown, an answer must belong to its
  report, and every call must return.
* *helper, pipe, log*: three events race in the helper's select, frames are
  handled in any order, a write deadline may cut a frame in two.

## 2. Modules

| module | models | kind |
|---|---|---|
| `SingleAgent` | what the supervisor promises | abstract specification |
| `SessionHelper` | what one session helper promises to the service | abstract specification |
| `ColorKeyboard` | what an opened keyboard promises to who colors it | abstract specification |
| `Supervisor` | `sessionSupervisor.Run`, `startSessionHelper`, `windowsHelperProcess`, the helper processes | component |
| `Service` | `serviceHandler` with `Supervisor` | composition |
| `Subscription` | the listener: `messageLoop`, `publish`, `replaceLayout`, `Close`; the hook and TSF as its callbacks | component |
| `Runtime` | `Runtime.Run` and `sendReport` with `Subscription` | composition |
| `KeyboardChord` | `keyboardChordState` with the keys and the switch Windows makes | component |
| `LayoutResolver` | `layoutResolver` and `readWindowsInputContext` with focus and layouts; extends `KeyboardChord` | component |
| `ListenerThread` | what `messageLoop`, `tsfListener` and the layout probe take from Windows and give back | component |
| `LayoutSource` | the listener's messages and callbacks with the two above, from the start of its thread to the end | composition |
| `HIDDevice` | `Registry`, `Provider`, `Device` and `windowsConnection` with Windows' requests and the keyboard | component |
| `HelperPipe` | `serveSessionHelper`, both ends of the pipe (`sessionipc`), `RemoteLogSender`, `windowsHelperProcess` | component |
| `LogHandler` | `PlainHandler` of the logger with its callers | component |
| `ConfigFile` | `FileRepository`, `Reconcile` and the start's use of them, with a user, crashes and losses of power | component |
| `MC...`, one for each component that is run | symmetry sets for TLC, where there are any | |
| `Supervisor_proof`, `Service_proof`, `Runtime_proof`, `LayoutSource_proof`, `HIDDevice_proof`, `HelperPipe_proof`, `LogHandler_proof`, `ConfigFile_proof` | theorems | proofs |

### Supervisor

`pc` is where Run's goroutine is. `"reconcile"` is the head of its loop;
`QueryFails`, `ReconcileUnusable`, `ReconcileSame`, `ReconcileHeldBack`,
`ReconcileSwitch` and `ReconcileStart` are the branches of lines 69-119, each with
everything it does up to the next point where something else may run. `"stop"`
and `"kill"` are the two waits inside `Stop` (before and after
`TerminateProcess`), `"finalStop"` and `"finalKill"` the same waits at shutdown.
`"check"` to `"reap"` are the waits and failure points of `startSessionHelper`.
`"select"` is the select of lines 121-153, each ready case an action.

`helper`, `timer`, `retrySession` and `retryAll` are Run's variables of those
names (`timer` stands for `retryTimer` and its channel), `child` is the process a
start has created and not yet returned. `proc[h]` is `"alive"`, `"exited"`, then
`"gone"` once the waiting goroutine has closed `done`; helper identities are
reused after that. It is `"lost"` when that goroutine closed `done` because its wait
for the process failed (`WaitFails`, `entry/session_windows.go:385-403`): the
process lives, but Run takes its helper for ended (`Finished`) and cannot terminate
it any more (`Tracked`). `orphans` are live processes no variable of Run refers to any
more, which the code allows where the wait after `TerminateProcess` gives up and
the start returns an error, and after a failed wait. `cooling` is a history variable, read by no
guard: the session whose backoff must still be respected.

The frames on the pipe are abstracted to "the expected HELLO came" and "READY
came", each of which may fail at any time, so every time-out of the start is a
step that may be taken whenever it is waited for. `restartBackoff` is a timer
that fires at an arbitrary later moment.

### Service

Adds `Execute`'s goroutine: `HandleSessionChange` (a send that does not block to
a channel of capacity 1), `HandleStop` (cancels Run's context) and `RunDone` (the
exit code). The manager delivers any number of session changes and stops;
pending requests of one kind are one element of `requests`.

### Subscription and Runtime

`listener` is where `messageLoop` is. One variable, `messages`, holds the kinds of
message posted: `"resync"` for every message or callback that makes the listener
read the layout (Shell hook, `WM_INPUTLANGCHANGE`, the hook's own message, TSF)
and `"close"` for `WM_CLOSE`. The three channel operations of `replaceLayout` are
three steps, with the reader between them. `Registers` makes the window able to
receive from the moment `Subscribe` returns; a failed registration is
`SubscribeFails` of `Runtime`, after which no listener exists. `hook` is the
keyboard hook: when `UnhookWindowsHookEx` fails (`keyboard_hook.go:48-52`) it stays
installed as an `"orphan"`, which Windows still calls but which finds no
subscription to post to. `closeChannels` closes `events`, `errors` and `done` in
three steps.

`rpc` is where `Runtime.Run` is; `stage` tells its three calls of `applyLayout`
apart, which treat a failure differently. A color stands for the layout it was
chosen for: `shown` is what the keyboard displays. `SetColor` is a write and an
acknowledgement that fail independently. A call that takes a context may fail
when `cancelled`, and by itself when its fault is in `Faults`:

| fault | what fails |
|---|---|
| `startup` | a call of the start: list, current, configuration, open, subscribe, second read, `Ready` |
| `tsf` | the start or the close of the TSF listener |
| `resolve` | the read of the layout after a notification |
| `post` | `PostMessage` of the hook or of `Close` |
| `getMessage`, `unhook` | `GetMessage`, `UnhookWindowsHookEx` |
| `write`, `ack`, `deviceClose` | the write of a report; its acknowledgement, or a write that ends after its call has failed: the keyboard shows the report all the same; the close of the device |

`missed` and `failed` are history variables, read by no guard: a change whose
notification was reported as failed, and an application of `target` that was
reported as failed. The properties exempt what the code reported; they do not
exempt what it lost silently.

### KeyboardChord

`down` is the set of keys physically down; `observe` is the code's, with `altDown`
and `shiftDown` per modifier. Windows switches the layout at the latest when all
keys are up. The module leaves Shell messages out on purpose: it asks whether the
hook alone is enough, which is what the hook exists for. `unread` and `tangled`
are history variables: Windows has switched since the last read; two keys of one
modifier have been down together since then, a case the flags cannot follow (see
"What the models show about the code").

### LayoutResolver, ListenerThread and LayoutSource

`LayoutResolver` adds the other threads and windows: `focus` is the focused
thread, `ForegroundOf` maps it to the thread of the foreground window that
contains it, `layout` and `others` are their layouts. A thread stands for its
window as well, so a context key (`hwnd`, `tid`) is one value. `ReadContexts` is
what `readWindowsInputContext` may return: the full answer, no foreground window,
no focused window, or no layout of a thread. `Resolved` is the precedence TSF,
focused thread, foreground thread, last valid one.

`ListenerThread` has the resources of a thread: `phase` is the step its start comes
to, `held` what it has taken and not called Windows to take back, `refused` what it
called for and Windows kept. Each step may fail. `Returns` is what the code calls
itself on the return of that step, `Deferred` the deferred calls that have been
registered by then, so a thing no list names stays in `held`; a failure of TSF
undoes TSF and goes on with the hook. `program` is laylit or the diagnostic tool
`cmd/layout-probe`, which takes the same things and one sink more, but undoes them
in one function that looks at what there is (`ProbeClose`). Any call of `GiveBack`
may be refused, among them `UnhookWindowsHookEx`, and a class whose window is left
cannot be unregistered. `advised` are the sinks TSF may call, `orphans` those kept
because TSF did not let go of them.

`LayoutSource` composes the three: the user presses keys, switches the layout by
the language bar, moves the focus; the Shell sends messages at any time, TSF tells
of a switch at any later time or not at all; the thread handles one message or
callback at a time. One notice of TSF is on its way at a time. `Current` is also
called by `Run`, in its own goroutine. `handleLayoutNotification` reads and publishes in one
step: the thread does nothing else in between, and a switch between the read and
the publication is one after it for everybody. A layout that is published stands
in `lastID`; what becomes of it is in `Subscription`. `unsure` is a history
variable: the last read was not answered in full, or the focus or the layout
moved since without a message.

### HIDDevice

`pc` is where the user of the keyboard is: `"start"` to `"caps"` are
`Registry.Open` (or, in mode `"inspect"`, `Registry.Inspect`), with the handle of
the device set, the handle each interface is queried through, and that of the
device in `handles`. A failing step closes what its own function and those
it returns through close (`Leave`), no more. The device set is a snapshot, so an
interface in it may be gone. `"idle"` is between calls; `"begin"` to `"drain"` are the steps of
`overlappedIO` for the write and for the read of a report: ctx and event, the
request, the timeout, the wait, the wait for a cancelled request. A wait that fails
(`WaitFails`) is an action of its own, which no fairness forces. A report is the
number of its call. `writes` and `reads` are the requests Windows still holds,
which may be of calls that returned long ago; `owed` and `input` are the
acknowledgements the keyboard has yet to send and those not read. Each is a set of
calls, and since calls are made one after another the oldest of them is the first
of the queue (`First`). Windows serves the requests of a handle in order; a request
that is cancelled ends, but may be quicker than its cancellation. A deadline may pass
at any time during a call.
`listed`, `ackOf`, `clean` and `gaveUp` are history variables. The mutex of
`Device` is always free because a device has one user at a time, and every report
and buffer has the length the caller was told, so the branches for other lengths
cannot be reached.

`KeyboardSpec` is the abstract keyboard, `ColorKeyboard`: a call is `busy` while
`pc` is inside one, its `answer` is `outcome`, and `shown` is `shown`. It has no
requests, deadlines or acknowledgements; a report may be shown after its call has
failed, but never after a newer one, and a nil holds until the next call.

### HelperPipe

What `Supervisor` takes as one process, seen from inside: the helper after its
HELLO. `hpc` is where `serveSessionHelper` is: its select (`"select"`), the two
waits for the runtime and for `Serve`, and the deferred calls of
`runSessionHelper` (`"return"`). `runtime` is the goroutine of `run`, which calls
`Ready` once and is otherwise the subject of `Runtime`. `serve`, `stopFrame` and
`command` follow a STOP from the pipe through its handler goroutine to the
channel; `sender`, `enabled` and `queue` are `RemoteLogSender`.

The pipe toward the service is the sequence `up` of *writes*: READY is one write,
a LOG frame two (its header and its metadata, `WriteFrame`), so that a frame can
be cut between them. A write is all or nothing, and blocks while the pipe holds
`Capacity` writes. `reader` says whether `ReadFrame` of the service expects a
header or the rest of a record; when other bytes come where metadata is expected,
where the frame ends is left open (more is missing, it is complete, or what
follows is no header). The service sends nothing but STOP, so the branch of the
handler for other frames cannot be reached and is left out. A deadline that has
passed and a write to a closed pipe end a record's send; READY has no deadline.

`owner` is who holds the helper in the service: `startSessionHelper` (`"await"`),
the supervisor (`"held"`), `Stop` before and after `TerminateProcess`. Windows
closes the ends of a process that ends or dies. `asked` and `cut` are history
variables, read by no guard: a STOP was written, a record was cut.

`HelperSpec` is the abstract helper, `SessionHelper`. Its `work` is how far the
runtime is (`Work`: starting until READY is written, serving, ended), `announced`
is `ready`, `exit` is `exit`, and `hold` is what the service does with the helper
(`Hold`: it awaits it, holds it, has released it, or has asked it to stop). Who
looks from outside sees no frames, goroutines, locks or channels, only that the
helper is held after its runtime serves, exits by itself after its runtime has
ended, exits with 0 only when asked, and is still once it was terminated.

### LogHandler

`enqueue` is the look at `closed` (`Enqueue`) and the send that does not block
(`Accepted`, `Refused`), because `Shutdown` may come between them; a refused call is
counted one step after its send failed (`CountDropped`), because `run` may swap the
counter, answer a Flush or end between the two. `handle` is two steps, the swap of
the `dropped` counter and the entry. The code discards the error of `Write`
(`logger/handler.go:178`): a record ends in `written` or in `unwritten`, a count in
`reported` or in `unreported`, and nobody is told which. An entry is told apart by
its caller and the number of its call; the text is left out. `trace` is a history
variable: the order in which entries went into the queue, where `stop` was closed,
and how many calls had been refused and counted by then. A time-out of `Flush` or
`Shutdown` may fire at any time, so their return is always possible.

### ConfigFile

A config is a function from layout identifiers to a name and a color;
`Invalid` is any file `Load` refuses, `Torn` one of which only a part was written.
`Start` is `Load` and `Reconcile` (nothing else reads or writes between them);
`Save` is one step per system call, each of which may fail or be the last one of
its process. `durable` and `synced` say whether a content was flushed: after a loss
of power one that was not is `Torn`. The replacement itself is atomic, which is
what `MoveFileEx` with `MOVEFILE_WRITE_THROUGH` is used for. A crash leaves the
temporary file behind, but nobody reads that, so it is the same step as a call
that fails. `changed` is a history variable: for each save under way the entries
that somebody else has added or recolored since its load.

## 3. Runs

| run | instance | what it shows |
|---|---|---|
| `supervisor` | 2 sessions, 3 helper identities; abandoned helpers may survive (`AbandonStuck`), waits may fail (`WaitFaults`) | `OneSupervised`, `WaitJustified`, `ReturnLeavesOnlyTerminated`, `BackoffRespected`, refinement of `SingleAgent` |
| `two_helpers` | 2 sessions, 2 helpers, no failing wait | *violation* of `AtMostOneHelper` |
| `service` | 2 sessions, 1 helper identity, the same faults as `supervisor` | `NoLostSessionChange`, `ExitCodeTruthful`, `StopTerminates`, `Converges` |
| `runtime` | 2 layouts, every fault but `ack` | `NoLostChange`, `NewestShown`, `ReturnReleases`, `Follows`, `ShutdownCompletes` |
| `stale_color` | 2 layouts, fault `ack` | *violation* of `NewestShown` |
| `graceful_stop` | 2 layouts, no fault | *violation* of `GracefulStop` |
| `layouts` | 1 Alt key, 2 Shift keys, 2 layouts, 3 threads in 2 windows, laylit and the probe, every fault | `ChordResynchronizes`, `WrongOnlyByTSF`, `NothingDangles`, `StoppedIsFinal` |
| `hid_device` | 2 RGB interfaces, 1 other one, `MaxCalls` 3, every fault | `HandlesOwned`, refinement of `ColorKeyboard`, `AcknowledgementsPair`, `BuffersReleased`, `CallsReturn` |
| `helper_pipe` | a pipe of 2 writes, 2 queued records, every fault | refinement of `SessionHelper`, `CleanExitWasAsked`, `ReadyLostOnlyByCut`, `HelperEnds` |
| `lost_ready` | the same, only the deadline fails | *violation* of `ReadyNotLost` |
| `log_handler` | 2 callers, a queue of 2, `MaxCalls` 2, failing writes | `FlushCoversAll`, `ShutdownDrains`, `ShutdownEnds` |
| `config_file` | 2 processes, 2 layouts that come and go, 2 names, 2 colors | `NeverTorn`, `SaveKeepsColors` |

All state spaces are finite without a state constraint. The queues and the pipe
are bounded by the code; the bounds of the models are `MaxCalls` of `LogHandler`, the
calls one caller makes, `MaxCalls` of `HIDDevice`, the reports sent to one device,
and the one notice of TSF on its way in `LayoutSource`. The two run with
`CHECK_DEADLOCK FALSE` do end: a thread that has unwound, a device that is closed.
`TypeOK` of each module is checked by its run too.

*Why the bounds are enough.* Two sessions are the one a helper serves and the one
the console moves to; a third would only be another "not this one", and the
third console state, nobody logged on, is always there. Three helper identities
are one that Run holds or starts and two orphans; an identity is reused when its
process is gone, so any number of starts is covered. With a single identity
(`service`) an orphan keeps Run from creating a process until it ends, which
only delays Run. Two layouts make every comparison with `lastID` and
`appliedLayoutID` come out both ways, and an older value that returns after a newer
one is told from it. A pipe of two writes
can be full with one frame, with a cut frame and READY, and with the end of one
record and the start of the next; a queue of two can be full, be drained by one,
and be empty. Four calls at a log queue of two suffice for two entries in the queue
and one in the hand of `run`, so that a third is refused and the stop finds two to
drain, or for a Flush behind two entries, or for a Shutdown between any two steps.
Two layouts in `config.json` are one that an edit or another save touches and one
that must survive, which may be absent from Windows. Three
threads are two in one window, which differ only in the focus, and one in another;
two Shift keys are what it takes to have two keys of a modifier down, two layouts
to have a wrong one. Three calls of a device are one whose acknowledgement comes
late, one that reads it, and one more that is off by one. Two candidates among the
interfaces are enough to be ambiguous. Symmetry is used for
safety only: identities are compared with one another and with nothing else.

*Fairness.* `ServiceFairness` and `FairSpec` give weak fairness to the program's
goroutines and its timer, none to Windows, to the manager or to a helper that
ends by itself, and none to a helper that was terminated (`StopTerminates` does
not need it). Strong fairness is given to single cases of a `select`
(`TakeCancel`, `TakeRetry`, `TakeHelperDone`, `TakeDone`), because Go chooses at
random among the ready ones, to `HandleStop`, which stands in line with session
changes, and to `DispatchClose`, because a thread's message queue is served in
order. Every wait on a device or a helper has a time-out in the code, so each
step that ends such a wait is part of the weakly fair ones. No fault is forced: a
step that is possible only because something fails is outside of every fairness
condition, or a successful one is possible beside it. So `Follows` has weak fairness for
`Dispatches`, not for `GetMessageFails`, and an idle listener may stay idle for ever;
`CallsReturn` has it for `InputOutput`, not for `WaitFails`; `HelperEnds` has none for
`RuntimeFails`, `StopTerminates` none for the supervisor's `WaitFails`. `FairSpec` of
`HelperPipe` is weak fairness for the goroutines of the helper alone: `HelperEnds`
must hold for a service that stops reading, hangs or dies. It asks only for the
end of a helper that was told to stop or whose service has let go of the pipe.
`FairSpec` of `HIDDevice` is weak fairness for the goroutine that uses the device,
for time, and for the end of a cancelled request, which is what `CancelIoEx` is
for; the keyboard need not take a report nor answer it.
`LogHandler` has weak fairness for the goroutine of `run` and for the two
statements inside `stopping.Do`. `Converges` is
conditional: it assumes (`EventuallyCalm`) that mishaps stop at some point, failing
waits among them, and that a process ends on which `TerminateProcess` was called or
whose connection was closed after its wait.

## 4. What the models show about the code

Four runs end in a violation:

1. `two_helpers`. `startSessionHelper` forgets a process that outlives
   `helper.Stop` (`entry/session_windows.go:116-121`; `terminateAndCloseProcess`,
   447-451, likewise). Run then starts another after the backoff, so two helpers
   may drive the keyboard, which `entry/supervisor_test.go:37-38` excludes. The
   same situation on the path of a *switch* is handled: Run keeps the helper and
   retries the stop.
2. `stale_color`. When only the acknowledgement is late the keyboard already has
   the new color, but `appliedLayoutID` keeps the old layout; going back to that
   layout is deduplicated (`app/runtime.go:108`) and the wrong color stays.
3. `graceful_stop`. After a cancellation the listener may close both channels
   before Run's select looks at the context; Run then returns an error although
   the test of sequential changes expects nil (`app/runtime.go:130`).
4. `lost_ready`. A log record whose 250 ms deadline passes between header and
   metadata leaves half a frame in the pipe; READY, written next on the same
   connection, is read as the rest of the record (`logger/remote.go:99`). The
   service terminates the helper when the startup time is over, which
   `entry/helper_test.go:123` excludes. `ReadyLostOnlyByCut` and its proof show
   that this is the only way to lose READY.

The passing properties carry exemptions, each a place where the code does less
than one would ask, named by a variable of the model:

* `tangled` (`ChordResynchronizes`): with left and right keys of one modifier down
  together, a release of either clears the flag of both, and a chord completed
  then posts no message (`layouts/windows/keyboard_hook.go:91`).
* a TSF notification of the focused window (`WrongOnlyByTSF`): it wins over what
  Windows answers as long as the window keeps the focus, and a late one is bound to
  the window that has the focus when it comes (`layouts/windows/resolver.go:77`,
  96); `README.md` of the repository says the listener reads the actual layout.
* `unsure` (`WrongOnlyByTSF`): without the Shell's message of a switch, or with an
  answer Windows does not give, an old layout stays until the next notification.
* `changed` (`SaveKeepsColors`): a color picked between the load and the save of a
  start is overwritten, and so is what another process saved meanwhile, although
  `README.md:97` of the repository says that existing colors are preserved. A start
  judges `config.json` once, when it loads it (`app/runtime.go:39`), and its save
  replaces what is there by then (`config/repository.go:98`): in the model `Spoil` may
  come between `Start` and `Replace`. A mistake the user makes in that time neither
  stops the start nor stays in the file, although `README.md:100-102` of the
  repository says an invalid file "is never silently rewritten". `SaveKeepsColors`
  speaks of files that are valid when they are replaced (`Present`).
* an `"orphan"` (`ReturnReleases`) and `refused` (`NothingDangles`): a hook that
  `UnhookWindowsHookEx` did not remove stays until the process ends, and what else
  Windows refused to take back; the code makes each such call once.
* *handed to the writer* (`FlushCoversAll`, `ShutdownDrains`): a record or a count
  whose `Write` failed is not in the log, and a Flush answers true all the same
  (`logger/handler.go:178`). A call that is refused but has not returned may be
  counted after the last swap, and is then never reported (118-119).
* an orphan (`OneSupervised`): a helper whose wait failed, or that an abandoned start
  left, may run beside the one Run supervises.
* `loopFailed` (`NothingDangles`): after a failed `GetMessage` the window of laylit
  is not destroyed, and its class cannot be unregistered. The probe frees a sink
  TSF did not let go of; laylit keeps it.
* `clean` (`AcknowledgementsPair`): once an acknowledgement was late, every later
  call reads that of its predecessor (`devices/evision/device.go:52`). A nil still
  means that the keyboard shows the report (`SuccessIsShown`), because a read is
  only begun after the write was completed.
* `gaveUp` (`BuffersReleased`): when the deadline passes between the request and
  its wait, or the wait fails, the request is cancelled but not waited for, and
  Windows may write into the buffer of a call that has returned
  (`hid/transport_windows.go:305`, 310).
* `CallsReturn` holds by the deadline alone: the wait does not look at the
  cancellation of its context, which `hid/hid.go:22-23` asks for, so a shutdown
  waits for up to two seconds.

## 5. What is proved

All proofs are checked by tlapm for every value of the constants; the only
assumptions are the named `ASSUME`s of the modules (special values are distinct
from ordinary ones, Boolean constants are Boolean, Alt and Shift keys are
different keys).

`Supervisor_proof`:

* `InvariantHolds`: the inductive invariant `IInv`. `TypeOK` and `OneSupervised`
  alone are not inductive: whether `createProcessInSession` may add a process
  depends on where Run is. `IInv` adds `Owned` (a live process is Run's helper, the
  child of the start in progress, or an orphan; terminated processes are live,
  orphans are terminated), `Control` (what each value of `pc` says about `helper`,
  `child`, `seen` and `outcome`) and `Terminated` (a process waited for after
  `TerminateProcess`, or left behind by a return, was terminated).
* `TypeCorrect`, `Supervision`, `CleanReturn`: the properties `TypeOK`,
  `OneSupervised` and `ReturnLeavesOnlyTerminated`, each a consequence of `IInv`.
* `NoRetryLost`: `WaitJustified`, which is inductive relative to `IInv`.
* `NoBackoffBypass`: the action property `BackoffRespected`. The invariant it needs
  is `Backoff`: while a backoff is owed no helper is held and the armed timer
  holds back that session, so the one step that enters a start,
  `ReconcileStart`, is refused by `HeldBack`.
* `NeverTwo`: with `AbandonStuck = FALSE` and `WaitFaults = FALSE`, that is if an
  abandoned helper does end after `TerminateProcess` and no wait for a process fails,
  `AtMostOneHelper` holds. Together with the run `two_helpers` this locates the flaw:
  these are the only ways to two helpers.
* `Refinement`: `Spec => AgentSpec`. The initial state maps to the initial state;
  `StepKinds` sorts the steps into those that leave the mapped variables alone,
  returns, process creations, exits and abandonments, and `RefinementStep` maps
  each to a step of `SingleAgent` or a stutter.

* `ServiceOfSessionHelper`: `ProtocolRespected`. Each live process is awaited, held or
  released by Run (`Hold`), and moves between these as `SessionHelper` allows: held
  only after it was awaited, never again once it was released, terminated only when
  released or when its HELLO does not come. This is what `HelperPipe` assumes of the
  service, so the two sides of the pipe fit. It needs `Untouched`: no process is
  terminated while it is expected to become ready.

`Service_proof`, for every set of sessions and helpers, reuses the supervisor's
invariant:

* `ServiceSupervises`: `ServiceSpec => Spec`, so every theorem of `Supervisor_proof`
  holds inside the service.
* `ServiceInvariant`: `SInv` adds `Asked` (only Execute cancels Run, and Run ends only
  when cancelled), `Watched` and `Reported` (a zero comes from a nil).
  `NoLostSessionChange` speaks of the select only; `Watched` says the same wherever
  Run is but at the head of its loop. That is needed for the one way to the select
  without a look at the console and without a retry: a helper that was stopped
  because nobody was logged on, while somebody logs on.
* `ServiceTypes`, `ChangesArrive`, `ZeroMeansDone`: `ServiceTypeOK`,
  `NoLostSessionChange` and `ExitCodeTruthful`.
* `ServiceKeepsPromises`: `AgentSpec` and `BackoffRespected` of the service, for every
  order of its controls: a service is a `SingleAgent` too.

`Runtime_proof`, for every set of layouts and of faults:

* `InvariantHolds`: `IInv` is the types with `Control` (what the place of Run says
  about listener and device), `Channel` (what the listener published last is in the
  channel or Run has taken it, and nobody takes it before the second read),
  `Followed` and `Applied`.
* `NothingMissed`: `NoLostChange`. `Followed` extends it to the whole of Run after the
  second read, and before that to what the listener has published: the value that
  waits in the channel may be older than the layout Run reads.
* `ShowsNewest`: `NewestShown`, if `"ack" \notin Faults`. Together with the run
  `stale_color` this says that a report the keyboard takes although its call fails
  is the only way to a color nobody knows to be wrong.
* `TypeCorrect`, `Released`: `TypeOK` and `ReturnReleases`. The second needs `Hooked`:
  the hook is active exactly from the registration to `uninstallKeyboardHook`, and an
  orphan stands in `loopErr`, which `Close` returns, and so in the result of Run: the
  channel of errors alone would not do, because Run has stopped reading it by then.
* `AlwaysTold`: if `"post" \notin Faults`, `NeverTold` is never true. It is the
  exception in `ShutdownCompletes`, so a failed `PostMessage` of `Close` is the only
  thing that can keep a cancelled Run from returning. The invariant (`Subscribed`,
  `Told`) says that a listener somebody has begun to close has its `WM_CLOSE` on the
  way, or has taken it.

`LayoutSource_proof`, for every set of keys, layouts and threads, every assignment
of threads to windows and every set of faults:

* `ChordFollowed`, of `KeyboardChord` alone: the hook suffices, from an invariant
  that ties `altDown`, `shiftDown` and `chordSeen` to the keys physically down as
  long as no two keys of one modifier were down together. Its lemmas are stated for
  single steps (`PressStep`, `ReleaseStep`, `ReadStep`, `ElsewhereStep`), so that the
  composition can use them.
* `InvariantHolds`: `IInv` joins the invariant of the chord, types, `ThreadIInv`
  (`NothingDangles` with `Held`: at each step of the start, what the thread may hold is
  covered by the calls made should that step fail) and
  `Fresh`: outside the message loop nothing of TSF is remembered, before it nothing
  has been published. One lemma for each step of `Next`.
* `ChordAmongOthers`, `ShowsFocusedLayout`, `GivesBack`: `ChordResynchronizes`,
  `WrongOnlyByTSF`, `NothingDangles`. `WrongOnlyByTSF` needs no strengthening but
  the chord's: whatever changes `layout` sets `unread`, `unsure` or `resync`, and a
  full read resolves to the focused layout unless TSF told another one.
* `Final`: `StoppedIsFinal`; of the steps that are possible after the loop only
  `Current` and a late callback touch the resolver, and neither `tsf` nor `lastID`.

`HIDDevice_proof`, for every set of interfaces and faults and every number of calls,
from `MaxCallsAssumption`:

* `InvariantHolds`: `IInv` is the types with `Found` (what was found and what is still
  to be queried is the device set), `Calling` (where a call is, and which report and
  acknowledgement it has), `Taken` (after a write that ended well no request is
  pending and the keyboard shows this call's report), `Held` (as long as no call
  gave up without waiting, Windows holds at most the request of the call in
  progress) and `Paired` (as long as no call failed after its write, the keyboard
  owes at most the acknowledgement of this call). One lemma for each step.
* `NothingLeftOpen`, `NilMeansShown`, `OwnAcknowledgement`, `NoBufferLeft`:
  `HandlesOwned`, `SuccessIsShown`, `AcknowledgementsPair` and `BuffersReleased`; and
  `TypeCorrect`. `SuccessIsShown` holds even after a failed call: Windows serves the
  writes in order, so a late one is always served before one that ends well.
* `Refinement`: `Spec => KeyboardSpec`. Besides `IInv` it needs `InOrder`: all that
  Windows still has to write is newer than what the keyboard shows. `BeginStep`,
  `AnswerStep` and `ShowsStep` map to the three actions of `ColorKeyboard`; every
  other step is a stutter of it (`QuietStep`).
* `DrainEnds`: `overlappedIO` waits without a deadline only for a request that is
  complete or that `CancelIoEx` was called for. With fairness for the end of a
  cancelled request this is why `CallsReturn` holds.

`HelperPipe_proof`, for every capacity of the pipe, every size of the queue and
every set of faults:

* `InvariantHolds`: `IInv` is `TypeOK` with `Waited` (run is started and has
  returned before `serveSessionHelper` goes on), `Verdict` (a STOP anywhere was
  written by the service, a runtime without error was cancelled, a cancellation
  comes after the select), `Locked` (who holds the write lock is in the middle of a
  frame) and `Framed` (without a cut, the reader's place, the pipe and the sender's
  place together are whole frames).
* `NeverBeforeRuntime` and `CleanExit`: `ExitAfterRuntime` and `CleanExitWasAsked`.
  The second needs `Verdict`: the select may take the end of the runtime, and only
  because nothing has cancelled it at that point is its answer an error.
* `ReadyDelivered`: `ReadyLostOnlyByCut`, inductive relative to `IInv`: READY can be
  misread only where the reader expects metadata, and `Framed` excludes READY there.
* `Refinement`: `Spec => HelperSpec`. It needs, besides `IInv`, that READY is nowhere
  before the runtime has started (`Announced`) and that a helper that has finished
  has closed its end (`Disconnected`), so that no STOP is written to it any more.
* `StopNotLost`: a STOP that was written is in the pipe, with its handler or in the
  channel until the select of `serveSessionHelper` has taken something; a connection
  closed under the select wakes it; and it goes on to wait only for a run that was
  cancelled. It is the safety part of `HelperEnds`.

`LogHandler_proof`, for every set of callers, every size of the queue and every
number of calls, from `LogQueueAssumption` and `MaxCallsAssumption`:

* `InvariantHolds`: neither property is inductive, since both speak of the past.
  `IInv` says where everything that ever went into the queue is now. `Fresh` and
  `Distinct`: an entry about to be offered is new, so an entry has one place in
  `trace`. `Accounted`: what stands at a place of `trace` was handled, is in the hand
  of `run`, waits in the queue, or is the stop (`Handled`, `InHand`, `Waiting`,
  `Stops`). `Ordered`: these come in this order in `trace`, and the queue in its
  order. `Counted`: what was announced and what is still in the counter are `lost`,
  and `run` has announced what was counted before the entry it is handling. `Stopping`, `Control` and `Drains`: one
  call closes `stop`, and `run` leaves its loop only with all that precedes the stop
  handled.
* `FlushMeansAll` and `ShutdownMeansAll`: `FlushCoversAll` and `ShutdownDrains`; and
  `TypeCorrect`.
* `StopComes`: a handler that is closed was told to stop, or the one `Shutdown` that
  closed it is about to, which is the safety part of `ShutdownEnds`.

`ConfigFile_proof`, for every set of processes, layouts, names and colors, from
`DefaultColorAssumption` and `ContentsAssumption` (the marks for a file that is
absent, invalid or torn are no configs):

* `InvariantHolds`: `IInv` is `TypeOK` and `NeverTorn` with `Flushed` (what a process
  is about to put in the place of `config.json` is its whole value, flushed, and so
  the file is durable whenever it is there) and `Kept` (what a process is going to
  save agrees with `config.json` on every entry nobody changed since it loaded the
  file). `ReconcileKeeps` is the lemma about `Reconcile` that `Kept` needs of a load.
* `Whole` and `ColorsKept`: `NeverTorn` and `SaveKeepsColors`. `Kept` survives the
  save of another process because `changed` then holds the entries that save added or
  recolored: between two processes that both loaded the file the last to save wins,
  and of these entries of the first nothing is claimed.
* `ReconcileSettles`: `Reconcile` reports a change exactly when it makes one, and
  what it returns it would not change again: a second start saves nothing.

Only model-checked: the liveness properties (`StopTerminates`, `Converges`,
`Follows`, `ShutdownCompletes`, `HelperEnds`, `CallsReturn`, `ShutdownEnds`), whose
fairness conditions, being about `ENABLED`, the prover does not handle. What they need of
the states is proved, for every value of the constants: for the last four that what
a process waits for is on its way (`AlwaysTold`, `StopNotLost`, `DrainEnds`,
`StopComes`), for `Converges` that no session change and no retry is lost
(`ChangesArrive`, `NoRetryLost`), for `Follows` that no layout is (`NothingMissed`,
`ShowsNewest`). Every other property of a passing run is a theorem, `NewestShown` under
the condition named above.

## 6. What is not modelled, and why

* Bytes of reports, frames and log lines; parsing of colors, flags and settings;
  paths and strings of interfaces; names of layouts: data that no property here
  tells apart, or straight-line I/O.
* The duration of time-outs: each may expire at any moment it is waited for.
* The registry of loggers (`Configure`, `Shutdown` of all handlers), the rotation of
  log files, and `logsettings`, which reads and writes one file at the start.
* The order of log records, and a frame header cut in the middle (20 bytes).
* Tokens and security descriptors of the helper; the installation script.
* The reference count of the TSF sink: only "freed or not" is told apart. A `WM_QUIT`
  that a thread which failed to start leaves behind on its thread.
* What the layout probe prints, and its copy of the chord state.
* The instant between a read of the input context by `Current` and the lock of the
  resolver: it can only leave an older layout in `lastValid`, which no full read
  looks at.

## 7. Plan

In order of weight for the system:

1. `Supervisor` composed with the runtime of each helper as `SessionHelper` has it:
   while Run holds a helper its runtime has served, and a helper that ended without
   `TerminateProcess` has ended its runtime first.
2. `Runtime` over `ColorKeyboard` in the place of its own write and acknowledgement,
   with reports that are shown after their call has failed.
3. The files behind the log: `RotatingWriter`, the registry of handlers and
   `logsettings` with the end of the service.
