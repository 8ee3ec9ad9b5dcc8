# Europa.vim: formal models

TLA+ models of the parts of Europa.vim whose state is shared by concurrent
calls, with the TLC configurations that check them on small instances and
TLAPS proofs about them. Europa.vim is a Vim and Neovim plugin that edits
Jupyter notebooks: Vim script sends commands to a Deno process
(`denops/europa`), which keeps one session per notebook buffer, talks to a
Jupyter server over HTTP and WebSocket, and draws into Vim buffers. Paths
below are relative to `denops/europa` unless they start with another
directory of the repository.

## How to run

    tlc -workers 2 -config ExecutionCalm.cfg MCExecution     # one row of "Runs"
    tlapm ExecutionProofs.tla                                # one proof module

`PROJECT.json` lists components, runs, theorems, hazards, findings, and for
every definition that models code the source lines it stands for.

## Inventory

### What makes the program hard

Everything runs in one JavaScript thread, so two pieces of code never run at
once. But every command is an `async` function that suspends at each `await`
(an RPC to Vim, an HTTP request, a WebSocket frame, a timer), and most commands
come from Vim as `denops#notify`, which does not wait. Calls therefore
interleave at their awaits over the same objects. Three habits of the code
decide what can go wrong:

- **Mutable runtime.** `KernelRuntime` is one mutable object per buffer:
  `execState`, `cellStates`, `pendingRequests`, `socket` and `abort` are read
  before an await and written after it, by several calls.
- **Captured session.** Sessions are immutable records in a store: a call reads
  one at its beginning and stores a successor at its end, computed from what it
  read. A call that ran in between is overwritten.
- **Promise continuations first.** When a promise resolves, what awaits it runs
  before the next event. Several "simultaneous" steps are thus ordered, and
  some races that look possible are not.

There is no persistence but the notebook file and the mirror file; the one
crash the code prepares for is that of the backend, whose Jupyter server a
watchdog then ends. Otherwise failure means a request refused or timed out, a
socket lost, a drawing RPC that throws, a process that has to be killed.

### Components

| Component | State | Operations | Talks to | Must hold |
|---|---|---|---|---|
| Cell execution (`session/pending-requests.ts`, `dispatcher/exec/`, `kernel/execute.ts`) | `execState`, `cellStates`, `pendingRequests`; per run the generator's buffer and flags | `runCell`, `runAll`, `cancelCell`, restart's abort, the `execute` generator and its `finally` | socket, batch scheduler, viewer | one request at a time; cell states mirror requests; no output lost or mixed; every run ends |
| Message dispatch (`kernel/message-dispatch.ts`) | handlers by parent id, listener of the current socket | subscribe, unsubscribe, swap of the socket | execution, comm, kernel info | the socket in use is heard |
| Server pool (`kernel/server-pool.ts`) | `active`, `inflight`, refcounts | `acquire`, `release`, `killAll` | clients, server process | counts are exact; nobody's server is killed |
| Kernel client lifecycle (`kernel/server-client.ts`, `session-api.ts`) | handle, Jupyter session id, runtime | `start`, `shutdown`, failure paths | pool, connection | every acquire is released once |
| Sessions and kernel commands (`dispatcher/kernel.ts`, `notebook.ts`, `session/state.ts`) | `SessionStore` by buffer | `startKernel`, `shutdownKernel`, `open`, `save`, `cleanup`, `atexit` | client, undo history, view | every live kernel can be reached from a session |
| WebSocket connection (`kernel/ws-reconnect.ts`, `ws-handshake.ts`, `restart.ts`) | sockets, listeners, abort controllers, `connectionState`, retries | loss, reconnect loop, `restart`, `shutdown` | dispatch, execution | all places agree on the socket; none is leaked; the state shown is true |
| Interrupt and watchdog (`kernel/interrupt.ts`, `watchdog.ts`) | parent pid, child process, `aborted` | interrupt; poll the parent, SIGTERM then SIGKILL | server process | Jupyter ends when the backend does |
| IOPub batch scheduler (`render/iopub-batch.ts`) | queue, timer, flush in flight | `enqueue`, `flushNow`, `dispose` | execution, view | no message stranded; every caller resumed |
| Undo history (`session/undo-history.ts`, `dispatcher/undo.ts`) | two stacks, a request queue, in-flight flag | `push`, `requestUndo`, `requestRedo`, `processOne`, rollback | cell operations, view | a line of notebooks that undo and redo walk; the cap; every keystroke served |
| Cell operations (`notebook/cell.ts`, `dispatcher/cell/`) | notebook, viewer, `modified` | insert, delete, move, split, join, change type, save a cell's edit | undo history, view, mirror | distinct ids, outputs stay with their cells, the undo entry is what was replaced |
| Structural snapshots (`notebook/structural-snapshot.ts`) | none | take, restore, compare | undo | restoring keeps outputs |
| Comm protocol (`kernel/comm/`) | registry of comms, handles, grace queue of early messages | open, message, close, `closeAll` | dispatch, restart, lifecycle | each comm ends once; messages come in order, and all that were not lost; registry and kernel agree |
| LSP mirror and edit buffers (`lsp/`, `dispatcher/_mirror.ts`, `dispatcher/cell/edit.ts`) | mirror file and buffer, stale flag, scratch buffers, who is registered for a cell | open, refresh, write back, reload, wipe | cell operations, undo, language servers | what is written back is what the user wrote; no unsaved edit is replaced; file and buffer go together |
| Wire protocol (`kernel/wire/`) | none | encode, decode | connection | decode inverts encode |
| Server process and authentication (`kernel/server-process.ts`, `auth.ts`) | child process, port, token | spawn, read the banner, probe, kill | pool, watchdog | a handle names a server that serves; calls return |
| Rendering (`render/`) | the plan: lines, ranges of cells, clickable places | build, merge and truncate outputs, partial update | view | ranges and places are those of the lines |
| View (`view/`, `dispatcher/view.ts`) | viewer and edit buffers, the cached plan, the cursor | `applyRenderPlan`, jumps, previews, BufWinEnter | all commands | viewer and plan show the notebook; what is clicked leads where it says |
| Notebook files (`notebook/`) | none | parse, serialise | sessions | round trip (covered by the golden tests) |
| Configuration, editor scripts, contracts and schemas | editor variables; none; types | read; notify; none | all | type declarations and thin wrappers |

The `hazards` of `PROJECT.json` are the places where one of these is hard to
test, each with the properties that cover it, the hypothesis under which they do,
or the reason why none does.

## Modules

| Module | Models | Uses |
|---|---|---|
| `Execution` | runs of cells on one kernel | |
| `ServerPool` | the pool of Jupyter servers and the clients that hold them | `SharedServer` (abstract) |
| `KernelLifecycle` | sessions, clients and the calls on them, **composed with** `ServerPool` | extends `ServerPool` |
| `ServerProcess` | one server: the spawning call, the watchdog, Jupyter | |
| `KernelConnection` | the socket of one client, its reconnection and restart | |
| `NotebookCells` | the pure operators on cells and snapshots | |
| `Editing` | cell operations, undo and redo, save and re-rendering of one notebook | `NotebookCells`, `Timeline` (abstract) |
| `MirrorText` | a notebook as one Python text, and the way back | `NotebookCells` |
| `Mirror` | the mirror and the scratch buffers beside operations and undo | `MirrorText` |
| `RenderPlan` | a notebook as lines, ranges and clickable places; lookups in them | |
| `Display` | the viewer of a running notebook: batches, whole redraws, cursor | `RenderPlan` |
| `WireProtocol` | the two subprotocols as encode and decode | |
| `Comm` | comms of both sides, their grace queue, lost sockets, restarts and the end | `WireProtocol` |
| `SharedServer`, `Timeline` | abstract specifications | |
| `MCExecution`, `MCKernelLifecycle`, `MCEditing`, `MCMirror`, `MCDisplay` | constants and symmetry for TLC | |
| `ExecutionProofs`, `KernelLifecycleProofs`, `KernelConnectionProofs`, `EditingProofs`, `ServerProcessProofs`, `CommProofs`, `MirrorProofs`, `DisplayProofs` | theorems | the module in question, TLAPS |

Conventions. One action is what the event loop does without suspending: from
one `await` to the next, with every call made in between. Where a continuation
must run before the next event, events are guarded (`Quiescent` in `Execution`,
`resumed` in `Display`, `tasks` in `Comm`) or the continuation is part of the
action that resolves its promise. A constant `Races`, `Overlap`, `Faults`,
`Meanwhile` or `Leftovers` says what the environment or the user may do; a run
with the least of it shows what holds for a careful user, a run with more shows
what survives, and the theorems hold for every value unless they say otherwise.
A definition whose name starts with `Bug` is a plausible mistake in the
definition that follows it: no specification uses it, and putting it in that
definition's place makes a property fail.

### Execution

`rt` is the `KernelRuntime`; `run[m]` the `execute()` generator and the loop
that consumes it for request `m`; `all[a]` a `runAll` call; `restart[r]` a
`restartKernel` call; `epoch` the generation of `runtime.abort`. The kernel
answers requests in order, prints, then sends `status:idle` on iopub and
`execute_reply` on shell: two queues, which `"idleFirst"` lets overtake each
other. `RunCellQueue`, `RunCellSend` and `RunCellRedispatch` are the three
outcomes of `runCell`; `RunAll`, `RunAllNext`, `RunAllStopped` and `RunAllEnd`
the entries, steps and ends of `runAll`; `LoopTake`, `LoopWait`,
`FinishNormally` and `FinishAborted` the generator and the `finally` block;
`Restart...` the await points of `restart.ts`. What a cell shows is the set of
requests whose output it contains.

### ServerPool and SharedServer

A handle is made per spawn, so that a release that finds another handle under
its key is seen. `AcquireActive`, `AcquireJoin` and `AcquireSpawn` are the three
branches of `acquire`; `SpawnEnds` and `SpawnFails` resolve the promise for all
its waiters at once. `SharedServer` says what the head comment of
`kernel/server-pool.ts` promises: a server is up while somebody holds it. The
mapping takes `holders` from the clients that hold a handle and `up` from
`active`; it is claimed until `killAll`, which is how Vim ends.

### KernelLifecycle

A client is one `startKernel` call: `life` says how far its `start()` and
`shutdown()` are, `sess` what `SessionStore` has for the buffer, `call` the
sessions that the other calls captured. `Overlap` is a set of pairs
`<<running, new>>` of kinds of calls that may be under way together on a
buffer. `Released(c)` is what `release` does to
the pool when client `c` calls it, and has no guard: `release` finds the handle by
key and would take a second release of one client from another. `RefinesPool`
says that no step does so: a client acquires once, and releases once what it
holds, whichever shutdowns, closes, failures and exits overlap.

### ServerProcess

Three processes. `call` is how far `spawnJupyterServer` is: `Read(s)` takes a
chunk of a stream into the `buf` of its `findStartupLine`, `Probe` is a HEAD
request of `waitForHttpReady`, `Abort` and `ProbeTimesOut` its two time limits. The second is looked at
only between two fetches, which have no timeout (`server-process.ts:46-49`):
`FetchReturns` says when a fetch is sure to return.
`dog` is the watchdog: `Fork` starts Jupyter, `Listen` installs the SIGTERM
listener (a SIGTERM before it ends the watchdog), `StopPolling` ends the loop,
because of the flag or of a dead parent, and `EndJupyter` is the SIGKILL after 5 s.
`Kill`, `Killed`, `KillTimesOut` are `killChildProcess`. Text is a sequence of
marks, written whole by Jupyter and read in any pieces.

### KernelConnection

A socket is known in `KernelRuntime.socket`, in the client's `wsSocket`, and by
the listeners on the socket; a controller in `KernelRuntime.abort` and in the
client's `_abort`. The module keeps all of them, names controllers by
generation, and models the loop of `attachReconnect` (`LoopBegins` the flush,
`LoopConnects` the sleep, `LoopFails`, `LoopSucceeds`, `LoopBreaks`), the
restart (`Begins`, `Refused`, `Throws`, `Accepted`, `OpenFails`, `Opened`,
`Done`, `Unanswered`) and `Shutdown`. `watch` counts close listeners, because
the code attaches two after a reconnection. `linked` holds the
controllers whose abort reaches `info.state`: a restart makes a new controller at
once and links it only when its socket is open.

### Comm and WireProtocol

`handle[id]` is a `CommHandle` with what its subscribers were told, `registry`
and `grace` are those of the comm service, `kernel` the comms that are open in
the kernel. `inbound` and `outbound` are the frames under way, encoded and
decoded by `WireProtocol` (with protocol v1 or without, so that buffers are
kept or dropped). `tasks` is the microtask that follows an await of `sendComm`:
`OpenReturns` and `CloseReturns` run before any message. A socket that closes takes
with it what is under way in both directions (`Discard`), and what the kernel says
before the next one listens is lost too (`KernelSays`): the channel URL names no
session for which the server could keep it (`server-client.ts:189`). `Disconnect` is the loss,
`Reconnect` and `GivesUp` the two ends of the loop. `Restart...` are the
awaits of `dispatcher/exec/restart.ts`, with the snapshot of comms it closes:
`RestartFails` is the handshake that times out, where `closeAll` is called,
`RestartBreaks` the one that fails otherwise, where it is not. `End` is `closeAll`,
`Shutdown` the closing of the socket. Auxiliary: `said[id]` counts what the kernel
has sent on a comm, to compare with what is told; `gaps` names the comms of which
a message was lost, `astray` those of which an open or a close was.

### Editing, NotebookCells and Timeline

A notebook is a sequence of cells, a source a nonempty sequence of lines.
`NotebookCells` translates `notebook/cell.ts` and
`notebook/structural-snapshot.ts`, `Editing` their callers. A call keeps the
notebook it captured (`base`) and what it computed (`new`). `EditPushes`,
`EditCommits`, `EditRenders`, with `EditThrows` and `EditHalfDrawn`, are the
awaits of `dispatcher/cell/*.ts` and `_operator.ts`; `UndoStarts`, `UndoPops`,
`UndoRenders`, with `UndoRefused`, `UndoThrows`, `UndoRedraws` and
`UndoBroken`, those of `processOne`; `Finish` takes the next request from the
queue. `Timeline` is what undo promises: a line of notebooks, one of which is
present. Its refinement mapping hides an entry that is pushed but whose
notebook is not stored yet, and puts back one that is popped but not answered.

### Mirror and MirrorText

`MirrorText` translates `lsp/mirror.ts`, `normalize.ts` and `writeback.ts`: a
cell becomes a marker and its lines, lines that are not Python become comments,
and each line has a provenance that tells the comment from one the user wrote.
In `Mirror`, `mirror` is `session.lspMirror`, `file` and `buf` its file and its
buffer, `scratch[id]` the buffer of one cell, `reg[id]` who is registered for a
cell. The commands (`InsertCell`, ... `Undo`, `Redo`, `EditInMirror`,
`EditInScratch`, `SaveMirror`, `SaveScratch`, `Close...`, `Reload`, `Reopen`) are
taken one at a time; those that call `refreshMirror` go on through its awaits
(`Refresh`, `Replace`, `UpdateRegions`, `Finish`). `typed` records what the
user has made of each cell, to compare with what is written back. A mirror of a
notebook without code cells keeps file and state when its buffer is wiped, for
there is no cell to find it by. Ids are positive and no line that a user writes
looks like a marker (`MirrorAssumption`).

### Display and RenderPlan

`RenderPlan` translates the line accounting of `render/builder.ts`,
`dispatcher.ts`, `text.ts` and `image.ts`, and the lookups of `view/`: a line is
what it stands for, so that two plans differ when the user could see it. In
`Display`, `queue`, `timer`, `flush` and `disposed` are the fields of
`IopubBatchScheduler`; `awaiting` and `resumed` hold the callers of `flushNow`
in the order in which their promises resume them. `FlushHidden`, `FlushBuild`,
`FlushSvg`, `FlushHook`, `FlushFails` are the awaits of `_runFlush`; `Run...` the
loop of `runCell`; `Op...` a cell operation from its flush to `restoreCursor`;
`Hide`, `Show`, `ShowBuild`, `ShowDraw` the window and `onBufWinEnter`. Cells are
shared objects: an operation keeps those it does not make, as in the code.

## Runs

Every property of a passing run has a mutant of the code that violates it.

| Run | Instance | Shows |
|---|---|---|
| `execution_calm` | 2 cells, 1 `runAll`, 1 restarter, 3 requests, 1 restart, 1 loss, no races | requests, cell states and `execState` agree (`Lockstep`, `SentHasRun`); outputs of two runs do not mix; a restart finds no request when it clears the cell states |
| `execution_races` | as above with 2 requests, `idleFirst`, `slowFlush`, fairness | no output is missed whichever of reply and idle comes first; no aborted run stays registered; every run and every `runAll` ends |
| `server_pool` | 2 keys, 3 clients, 3 handles, exit, fairness | counts are exact, the pool implements `SharedServer`, acquires are answered and deserted servers die |
| `server_process` | 1 line before the banner, any chunks, fairness | no banner is read past; a handle names a serving server on the port it bound; Jupyter ends with the backend; every call returns, but one whose probe a listening Jupyter leaves unanswered |
| `lifecycle_calm` | 2 buffers, 2 clients, 4 calls, no overlap on a buffer, faults of the session request and the installation | no live kernel and no held server without a session or call that will end it; one kernel per buffer; `atexit` closes every session's kernel |
| `lifecycle_overlap` | 1 buffer, 2 clients, 2 calls, any overlap, all faults, fairness | each client acquires the pool once and releases once; every call ends, or waits for a request that the server does not answer |
| `connection_calm` | 5 sockets, 2 loops, 2 restarters, 2 retries, 2 restarts, 1 loss, no races, fairness | the socket in use is heard, no other is open, the state shown at rest is true (after restarts that got as far as a socket), reconnections and shutdowns end |
| `editing_calm` | a file of 1 cell, 2 calls, cap 2, 3 edits, 4 calls in all; only save and re-rendering overlap; fairness | undo and redo walk the line of `Timeline` whatever throws; cap, ids, outputs, viewer and `modified` are right; everything ends |
| `mirror` | 2 code cells, one of a magic, 3 ids, 1 scratch, 2 operations, undos or sessions, 1 change by the user | the mirror is in step; a `:w` writes back what the user wrote; unsaved edits stay; file, buffer and registrations go together |
| `display_calm` | 3 cells (code, markdown, one to insert), streams, an SVG, a traceback, at most 3 output lines, 4 events, 1 failing flush, fairness | no message is stranded; buffer and cached plan show the notebook; jumps, previews and the cursor land; every caller of a flush returns |
| `comms` | 1 comm of each side, both subprotocols, 2 messages, 2 restarts or losses | each comm ends once; messages come in order, once, and all that were not lost; registry and kernel agree at rest but for comms whose open or close was lost; no handle outlives a socket that Europa closed for good |
| `mirror_frozen` | 2 cells, scratches left over, 3 operations; **violation** of `FrozenStaysOut` | a cell with an open scratch is deleted, which freezes the scratch by a line added to it so that it cannot be saved; the cell comes back by undo and is edited again: the buffer is found by its name, and a `:w` writes the line of the freeze into the cell (`view/viewer.ts:545`) |

### Counterexamples kept for the reader

Seven more configurations each check one property that a comment or a test of
the repository states and that the code breaks. They are not among the runs of
`PROJECT.json`; TLC finds the behaviour in seconds.

| Configuration, module | Property | What the repository says, and the behaviour |
|---|---|---|
| `ExecutionIdleFirst`, `MCExecution` | `OneAtATime` | `tests/spec/main/dispatcher/exec/run-cell_spec.ts:302`: "(j) busy execState: second runCell rejected, execute_request NOT sent". `status:idle` frees `execState` before `execute_reply` ends the run; a second cell starts; the first run's `finally` frees `execState` under it; a third request is sent beside the second (`dispatcher/exec/run-cell.ts:157`) |
| `LifecycleReopen`, `MCKernelLifecycle` | `OwnSessionRemoved` | `dispatcher/notebook.ts:31`: "`:e` on the viewer re-fires BufReadCmd → `open`, and replacing the session without this teardown would leak the kernel". The same `:e` also fires `cleanup`; the slower of the two teardowns removes the session that `open` has just added (`dispatcher/notebook.ts:102`) |
| `LifecycleCloseInStart`, `MCKernelLifecycle` | `NoOrphanKernel` | `dispatcher/kernel.ts:105`: "bailing out without shutdown would leak a live kernel and a pinned server entry that no SessionStore record can address". The viewer is closed while the kernel starts: the update of the removed session does nothing, raises nothing, and the kernel stays alive (`dispatcher/kernel.ts:103`) |
| `ConnectionLostTwice`, `KernelConnection` | `NoStraySocket` | `kernel/ws-reconnect.ts:28`: "a new reconnect loop is re-attached to the new socket automatically so no recursive plumbing is needed at the call site". The call site (`server-client.ts:273`) attaches a second one; when the socket is lost again two loops each open a socket, and one is left open (`kernel/ws-reconnect.ts:119`) |
| `ConnectionRefused`, `KernelConnection` | `FailedHandshakeIsDown` | `kernel/restart.ts:185`: "The dispatcher's catch leaves runtime.info.state as "disconnected" so sendComm and execute would already reject". A restart is refused, which says "idle" and leaves a new controller that is not linked to the state (`restart.ts:138`, `server-client.ts:426`); the next restart aborts that one, so the state stays "idle"; its `kernel_info` is not answered, its socket is closed, and the state says "idle" on a closed socket |
| `CommBuffers`, `Comm` | `BuffersTravel` | `doc/europa-kernel.txt:222`: "Binary buffers travel byte-for-byte through both wire codecs (v1 binary offset-table and default text JSON)". With the default subprotocol a `comm_msg` with buffers reaches its subscriber without them: `decodeDefault` gives none, and to the kernel `sendComm` refuses any (`wire/protocol-default.ts:28-48, 61-70`, `server-client.ts:494`). `InOrder` states what each subprotocol carries |
| `EditingOverlap`, `MCEditing` | `SnapshotPrecedes` | `contracts/undo-history.ts:132` (under `src/`): "`snapshot` always describes "the state to restore when this entry is applied"". Two cell operations without waiting: the second overwrites the first, and its undo entry is older than what it replaced (`dispatcher/cell/_operator.ts:67`) |

### What the hypotheses leave out

What TLC finds when a hypothesis of a passing run is dropped; no document claims
the contrary.

- `Execution`, `runInRestart`: `runCell` refuses `busy` and not `restarting`. A
  request sent after a restart aborted the old ones goes to a kernel that is
  being replaced: it may hang, and the end of the restart clears its cell
  state. `EveryRunEnds` and `RestartFindsNoRequest` are claimed without it.
- A run whose socket was lost, or that was sent while there was none, waits for
  ever unless a restart aborts it: nothing aborts requests when the retries are
  used up. `EveryRunEnds` excludes it (`hist.cut`).
- `Editing`, `Overlap`: an edit or an undo that overlaps a save breaks
  `CleanMatchesDisk`; one that overlaps a re-rendering breaks `ViewerCurrent`;
  two edits, or an edit during an undo, break the refinement of `Timeline`, and
  the latter also lets the history outgrow its cap by one. Re-rendering clears
  `modified` (`view/viewer.ts:357`), so unsaved edits may be shown as saved;
  `wiped` marks it and `CleanMatchesDisk` excludes it.
- `KernelLifecycle`, `Overlap`: a second `startKernel` on a buffer that has a
  kernel orphans the first.
- `KernelConnection`, `Races`: a loss during a restart, a restart during a
  reconnection, two restarts at once, a second loss after a reconnection, or a
  shutdown while the POST or the socket of a restart is awaited, or while a loop
  runs on the controller of a restart that failed, may each leave a socket open or
  a state that is not true. A shutdown during the `kernel_info` of a restart, or at
  rest after a failed one, is explored. `CurrentIsHeard` is proved with all of them.
- `KernelConnection`, restarts that end before their socket is open. These are not
  races, and the run explores them one after the other; `StateTruthful` says by
  `Linked` and `BothLinked` where it holds. A refused restart says "idle" whatever
  its socket is (`kernel/restart.ts:156`), one that gets no answer leaves
  "disconnected" on an open socket, and both leave a controller that is linked to
  nothing (`restart.ts:138`; linked only in `onSocketReopen`,
  `server-client.ts:426`), so that the next restart changes no state when it
  aborts: see `ConnectionRefused`.
- `Mirror`, `Meanwhile`: what is typed between the test of `&modified` and the
  `setbufline` of a refresh is lost (`view/viewer.ts:610`); a wipe of the buffer
  during a refresh brings the state of the mirror back without its file.
  `Leftovers`: a scratch that is open, or frozen, when its cell is edited again
  is taken up as it is (`mirror_frozen`).
- `Display`, `Overlap`: an operation or `onBufWinEnter` builds its plan, a flush
  draws and caches a newer one, and the older one is drawn over it: `Shown`
  fails until the next redraw. After a failed flush the lines above the next
  batch stay old until a whole redraw (`failed`).
- `Comm`: a comm whose `comm_open` or `comm_close` went down with a socket, or was
  said while there was none, that the kernel opened between the snapshot of a
  restart and the reset, that was left by a kernel that restarted unnoticed or by a
  handshake that failed otherwise than by its timeout (`exec/restart.ts:108` calls
  `closeAll` for one code only), or that was closed before it was opened, may be
  registered though the kernel has forgotten it, or the reverse; `astray` marks it
  and `Agreement` excepts it. A comm opened after `closeAll` (`late`) is never told
  of its end. When the reconnect loop gives up, or makes no attempt
  (`ws-reconnect.ts:75, 127`), nobody calls `closeAll`: every handle stays open
  on a closed socket (`conn` is "lost") until a restart or the end, and
  `Terminated` claims nothing there. A socket lost, or a shutdown, while a restart
  awaits is left to `KernelConnection`.
- `ServerProcess`: a SIGTERM before the watchdog listens leaves Jupyter behind
  (`JupyterEnds` is about a watchdog that lives); a Jupyter that ignores SIGTERM
  outlives a `kill()` whose SIGKILL of the watchdog comes before the watchdog's
  own of Jupyter, both being due after 5 s. A Jupyter that listens and does not
  answer holds a HEAD request, and `spawnJupyterServer` with it, for ever:
  `EveryCallEnds` is claimed while `FetchReturns`.
- `KernelLifecycle`: `POST` and `DELETE /api/sessions` have no timeout
  (`session-api.ts:67`, `server-client.ts:347`), nor has the opening of the
  WebSocket (`ws-handshake.ts`), nor a spawn whose probe is held:
  `EveryCallEnds` says of each call that it ends or that such a request is
  pending (`Unanswered`).

Seen while reading, and outside the models: the mirror's slug is not unique for
paths with `__`; `splitCell` called from the mirror takes the line of the mirror
for that of the cell (`dispatcher/cell/split.ts:42`); after the banner nobody
reads Jupyter's output, so a full pipe blocks it (`kernel/server-process.ts:291`).

## Bounds, and why they are enough

- `Execution`: two cells are what it takes for one to be queued behind the
  other, three requests for a stale `finally`, a run under it and a third
  request beside it. One restart and one loss meet every await of a run. The
  channels hold what three requests produce, without a bound of their own.
- `ServerPool`: one client to spawn, one to join, one to come after the last
  release; two keys to mix them up; one handle per spawn, three in all, so a
  key is respawned twice.
- `ServerProcess`: one call, as the handle is not shared below the pool. One
  line before the banner lets a chunk end inside a line, at its end, and after
  the next one has begun.
- `KernelLifecycle`: a second buffer is needed only to share a server; a second
  client on one buffer is the restart of a kernel after its shutdown; two calls
  are what overlap, four are a shutdown and a cleanup on each buffer, or an
  `open` before and after. Buffers, calls, clients and handles are symmetric,
  and symmetry is used in the runs that check no liveness.
- `KernelConnection`: a loss, two retries and two restarts make five sockets.
  Two retries distinguish the first, a middle and the last attempt.
- `Comm`: comms do not touch each other but through the registry, the grace
  queue and a restart's snapshot, for which one of each side is enough. Two
  messages can be reordered, and one can come before and one after the
  `comm_open`. Two events are a restart or a loss after another.
- `Editing`: a cap of two is reached by three edits; four calls are an edit, an
  undo, a redo and a failure of any of them. One cell, whose edit gives it a
  second line, becomes two by an insertion or a split; moves and joins need the
  second.
- `Mirror`: two code cells so that text can move between them, a third id for a
  cell that is inserted or split off; one cell is a magic, whose comment must
  come back as it was. Two operations are one and its undo, or one on top of
  another while the buffer holds unsaved edits.
- `Display`: the sequence of a run, a message, a flush and an operation, in any
  order, takes four events; the messages stand for one that goes on a line, one
  whose drawing waits for a conversion, and one with a place to click. Three
  output lines make the cap bite. The cell with outputs from disk has two
  streams that are merged when drawn, so that places shift.

`CHECK_DEADLOCK FALSE` in every configuration: a user who asks for nothing more
is not a deadlock, and the bounds end every behaviour.

## Fairness

Weak fairness, of what the runtime or a timeout guarantees, and never of the
user, of a socket's loss, or of its return:

- promise continuations and timers run (event loop). In `Display` this is
  written out, `[]<>~SchedulerReady \/ []<><<Scheduler>>_vars`, with a state
  predicate for `ENABLED`, which would have TLC build a plan to decide it;
- an RPC to Vim is answered;
- the kernel works through its queue, and an open socket delivers;
- the sleep and the connection attempt of a loop, a `kernel_info` and the POST of a
  restart end, by success or by the timeout that the code gives them, the model
  choosing which. What has no timeout may hang, and has no fairness: the answers to
  `POST` and `DELETE /api/sessions`, the spawn and the first socket (`ServerStep` in
  `KernelLifecycle`), the socket a restart opens (`rs[r].pc # "open"` in
  `KernelConnection`), the probe of a Jupyter that listens and does not answer
  (`FetchReturns` in `ServerProcess`);
- in `ServerPool` a spawn ends. This is an assumption on Jupyter, that it answers
  on the port it listens to or exits; `EveryoneServed` is about the pool, given that;
- the watchdog runs; a process sent SIGKILL dies, and one that heeds SIGTERM
  exits on it.

That the kernel finishes a cell is assumed: a cell that computes for ever is a
run that does not end, rightly. `Comm` and `Mirror` have no fairness: nothing is
claimed of them but safety.

## Proofs

All proofs hold for every value of the constants that satisfies the named
assumption of the module: any number of cells, clients, sockets, calls, losses
and restarts, and any notebook. Some theorems have one more hypothesis, which
says what the user or the network does not do, and which the passing run of the
same property has too; without it their statements are false, as the runs with
races and overlaps, or a trace of TLC, show:

| hypothesis | theorems |
|---|---|
| `"runInRestart" \notin Races` | `RestartsFindNothing` |
| `Races = {}` | `StatesInLockstep`, `OneRunShown`, `SentAlone`, `StateIsTrue` |
| `Overlap = {}`, `"handshake" \notin Faults` | `CarefulUserLosesNothing`, `TeardownRemovesItsOwn` |
| `{"edit", "undo"} \notin Overlap` | `HistoryIsCapped` |
| `Alone`: no kind of call overlaps an edit or an undo | `UndoWalksTheLine`, `ViewerShowsTheNotebook`, `UnmodifiedIsSaved`, `UndoRestoresTheReplaced`, `OutputsStayWithTheirCells` |
| `~Meanwhile` | `UnsavedEditsStay`, `MirrorInStep`, `MirrorFileGoes` |
| `~Overlap` | `BufferShowsTheNotebook`, `CursorStaysInItsCell` |
| `~Overlap`, `OnePicture`: the image formats of a bundle are one picture | `MarksLeadWhereTheySay` |

- **`ExecutionProofs`.** For every set of races: `TypeCorrect`,
  `NoOrphanedRequest` (`SentHasRun`), `AbortedRunsUnregistered`,
  `NeverStuckBusy` (`BusyHasRun`), `OutputSeen` (`OutputsComplete`). Inductive:
  `IInv == TypeOK /\ OneRunPerCall /\ Generations /\ SentHasRun /\
  AbortedUnregistered`. That a sent request has a run depends on ids not being
  handed out twice and on no run being newer than the current controller
  (`Generations`): otherwise a late `finally` block could complete another run's
  entry. `OneRunPerCall` is why the end of a run moves its `runAll` call and no
  other. `NeverStuckBusy` is a second induction over it: `execState` becomes
  `busy` only with a run or a call that resets it. `OutputSeen` is a third: what
  the kernel has printed is shown or on its way, in the order of the channel,
  ahead of the idle that ends the run (`Printed`). `RestartsFindNothing` is a
  fourth: while a restart is under way nothing is registered (`NoneInRestart`).
  The calm theorems share a fifth: `Ordered` (who may stand where), `Jobs` (each
  entry of the kernel's queue is the run that sent it), `Paired` and `Assigned`
  (entry, run and cell belong together), `OwnOutput` (a cell shows the run it was
  last given to).
- **`KernelLifecycleProofs`.** The pool first, as it is extended here:
  `CountersExact` (`RefcountExact`), `ServerUnderHolders` (`HoldersServed`),
  `PoolRefinesShared` (`RefinesShared`): every step until `killAll` is a `Take`,
  a `Drop` or a stutter of `SharedServer`. The count is exact through a spawn
  because a key in flight has no entry and no holders (`Phases`), and a release
  kills the right handle because a handle is registered under one key
  (`Registered`). That sessions use the pool as it asks (`SessionsUsePool`,
  `RefinesPool`) is shown of what they do and not of what `release` refuses, for it
  refuses nothing: a client that has released, or has not yet acquired, is at a
  stage from which none of its calls releases, whatever overlaps (`Stages`, without
  `Calm`). So what is proved of the pool holds under the sessions (`ServersCounted`).
  Then the sessions themselves: `CarefulUserLosesNothing`
  (`NothingLeaks`) and `TeardownRemovesItsOwn`. Inductive: `Stages` (which parts
  a call has made at which step), `Kernels`, `OneCall` (of a session at a
  time), `Slots`, `Captured` (what a call captured before an await is still
  what the session has), `Awaited`, `Exiting`.
- **`KernelConnectionProofs`.** `TypeCorrect` and `AlwaysHeard`
  (`CurrentIsHeard`) for every set of races. Inductive: `TypeOK`, that a
  connection attempt has its socket (`Attempts`), and that runtime, client,
  message listener and close listeners name the same socket (`Heard`).
  `StateIsTrue` (`StateTruthful`), for restarts that follow one another whether
  they are refused, unanswered, fail or succeed, rests on `Calm`: one worker at a time
  (`OneWorker`), the loop or the restart that is under way stands where the
  state shown says (`LoopsStand`, `RestartsStand`, `Controllers`, `Reports`), and
  at rest one socket is open, the current one (`AtRest`, `OneSocket`).
- **`EditingProofs`.** `EveryUndoIsServed` (`QueueServed`), whatever overlaps or
  throws. `HistoryIsCapped` (`CapKept`): undo, redo and rollback move entries
  without regard to the cap, and only `push` enforces it, so the proof counts
  the entry that is popped and not yet answered together with the stacks
  (`Kept`), and shows that nothing pushes meanwhile (`Apart`). Under `Alone`,
  `UndoWalksTheLine` (`RefinesTimeline`): the stacks are the past and the
  future of a line of notebooks, an edit extends the line and cuts what was
  ahead, undo and redo walk it, and a failed one stays where it was.
  `ViewerShowsTheNotebook` (`ViewerCurrent`), `UnmodifiedIsSaved`
  (`CleanMatchesDisk`), and `UndoRestoresTheReplaced` (`SnapshotPrecedes`: each
  step back is to what the step forward replaced). Inductive: `AInv ==
  Work /\ Line /\ Drawn /\ Filed`. `Work` says that one call changes the
  notebook at a time and from what it now is (`Solo`, `Based`); `Line` that
  neighbouring entries of the history, and the notebook between the stacks, fit
  (`Pushed`); `Drawn` and `Filed` what the buffer and the file lag behind by.
  Restoring a snapshot is an inverse on structures, whatever a structure is.
  `OutputsStayWithTheirCells` (`OutputsKept`) opens that structure up. Inductive,
  with `AInv`: `Books == Counted /\ Stored /\ ToStore /\ Stacked /\ Restored`. Every
  notebook that is stored, on disk or about to be stored is a `Book`: its ids are
  distinct and among those given so far, only code cells have outputs, and each
  cell is an `Heir` of the notebook it replaces, if that has a cell of the same id
  and type. Each operator of `NotebookCells` makes a `Book` of one (`InsertCellIs`
  to `ChangeCellTypeIs`). Snapshots have no outputs; what makes a rollback
  harmless is that the outputs of a restored notebook are a function of the
  notebook the undo captured (`From`), so that restoring twice from it agrees with
  restoring once. That the ids of a file are distinct is an assumption (`IsFile`):
  nbformat requires it, and no code in the source repairs it.
- **`ServerProcessProofs`.** `NoBannerIsMissed` (`BannerNotMissed`) and
  `AHandleServes` (`ReadyServes`), for any text before and after the banner, cut
  into any chunks. Inductive: `IInv == Ranges /\ OnePort /\ InStep`. What a
  reader keeps of a stream is exactly what it has read since some line end, and
  what it has read holds no whole banner (`InStep`), so a banner cut in two is
  seen with its second half; only banners
  that Jupyter wrote name a port, and all name the one it bound (`OnePort`).
- **`CommProofs`.** For any comms, messages, restarts and losses:
  `HandlesCloseOnce` (`ClosedOnce`), `NoHandleOutlives` (`Terminated`),
  `RegistryAgrees` (`Agreement`), `SubscribersGetAll` (`InOrder`). Inductive:
  `IInv == Shapes /\ ClosedOnce /\ Fresh /\ OpensOnce /\ Drained`. A handle is
  in the registry exactly until it has fired; this is disturbed if a `comm_open`
  replaces a handle, so the proof shows that an open under way is the only one
  of its comm and comes before its handle (`OpensOnce`), which needs that a
  comm not yet opened has none (`Fresh`). `Drained` says that once Europa has closed
  the socket for good, or called `closeAll`, the registry has only comms that came
  late or whose open was refused. `RegistryAgrees` follows each comm from the kernel
  through the channel to the registry (`Spoken`), and says where it stands as long as
  no open or close of it was lost (`Synced`). `SubscribersGetAll` follows the messages
  of a comm: what is told or waits in the grace queue, then what is under way, are
  messages of the kernel at rising positions (`Flow`), and all of them as long as none
  was lost (`Whole`); each step of the channel, the queue, a loss or a handle keeps
  both (`FlowSays` to `FlowTakes`, `Queues`, `Untold`). It needs that a message is
  decoded to what was encoded: for the seven parts of a `comm_msg` the folds in
  `WireProtocol` are given explicit solutions.
- **`MirrorProofs`.** `RegistrationsLive` (`NoDeadRegistration`), whatever the
  user does meanwhile, and `UnsavedEditsStay` (`EditsKept`).
  Inductive: `IInv == Shapes /\ Registered /\ Known`, where `Registered` holds
  at the awaits of a refresh too; `Clean`, that what a refresh is about to
  replace has no unsaved edits, is a second induction over it.
  `RoundTrip` is about the text alone: a notebook written as one Python text and
  read back is the notebook, for any number of cells and any lines that do not
  look like markers. It goes by induction on the cells: the text built from the
  first `n` cells has for each code cell its marker and, below it, its lines
  with their provenance (`Layout`), and the scan of it opens exactly these
  blocks (`OpenedBy`). `MirrorInStep` (`InStep`) and `MirrorFileGoes`
  (`FileGoesWithBuffer`) add what the commands make of it. Inductive:
  `Linked == Cells /\ Held /\ Link`. `Cells` says that the notebook and every
  entry of the history have distinct ids given out so far; `Link` that file,
  state and buffer are of the present notebook at rest (`Settled`) and at each
  await of a refresh (`InReplace`, `InRegions`). An edited buffer agrees with the
  notebook only as far as `Fits` says: the user has left the markers of all code
  cells or of none. This is what the wiping of the buffer depends on, as a
  cell is found by its marker.
- **`DisplayProofs`.** `NoMessageIsStranded` (`NoStrand`), for any overlap and
  failures: what is queued has a timer, or a flush whose end sets one.
  Inductive: `IInv == Shapes /\ NoStrand`. `BufferShowsTheNotebook` (`Shown`) and
  `CursorStaysInItsCell` (`CursorKept`), for any notebook whose cells and outputs
  have the types of `schema/notebook.ts`. Half of the module is about what
  `buildRenderPlan` computes, without a state: the folds of `RenderPlan` are given
  explicit solutions (`RangesShow`: each range spans lines that are all of its
  cell; `FitsFresh`, `FitsDrawn`: two plans whose first cells
  agree agree on the lines of these, so that replacing the lines from the topmost
  changed cell on is as good as replacing all). The other half is the induction:
  `ViewInv == Shapes /\ Records /\ Typed /\ OpWaits /\ Alone /\ Sole /\ Faithful
  /\ Cursor`. `Faithful` says that the plans that are cached, drawn or about to be
  drawn fit the notebook but for the cells that are dirty, which are those of
  the batches to come and of a run that has not yet heard (`Dirty`); a plan that
  awaits its SVG conversions has the pictures of every cell that is not.
  What is dropped while the buffer is hidden is redrawn by `Show` from the whole
  notebook. The hypothesis is needed: an operation that changes the order of the
  cells while a plan is being built shifts the pictures to other cells.
  `MarksLeadWhereTheySay` (`ClicksLand`): while nothing is under way the cached
  plan is `buildRenderPlan` of the notebook (`QuietPlan`), so that where a mark
  leads is a fact about that operator. The folds keep, output by output and cell
  by cell, that each mark is on a line that shows what it names (`Marked`), that
  the place of an image is that of an output as it is merged (`Placed`), and that
  each source range spans the source lines of a cell with its count (`Sourced`); a
  mark whose cell or line is gone is `missing`. `OnePicture` is needed because the
  placeholder takes the format that `g:europa_mime_priority` puts first and
  `previewOutput` an SVG, then a PNG, then a JPEG: only if they are one picture
  does the command open what the placeholder stands for. `AlikeCells`, that the
  outputs of every cell keep to it, is inductive beside `ViewInv`.

`BusyHasRun`, `QueueServed` and `HoldersServed` are proved and no longer checked
by a run of their own: `Lockstep`, `WorkEnds` and `RefinesShared` say more.

Only model-checked: liveness (the prover treats neither fairness nor
`ENABLED`); what comes back from an edited mirror (`SaveFaithful`,
`FrozenStaysOut`).
Inductions are over the number of cells or lines, by the least counterexample
(`WFMin` and `NatLessThanWellFounded` of the library): the induction theorems that
take a predicate cannot be used with these provers.

## Not modelled

- Outputs beyond what their lines and their merging depend on, metadata,
  attachments, undo hints, folds, highlights, popups, markdown decoration, and
  every wording.
- Interrupt: one REST call that changes no state here; its effect, a cell that
  ends in an error, is an answer of the kernel in `Execution`.
- `ExternalServerClient`: the same lifecycle without a process of ours. The
  Windows branches, the listing of kernelspecs, tokens, the search for a
  project root.
- `setbufvar` and `getbufvar` of an existing buffer are taken not to fail.
- After `killAll` the pool is claimed nothing of: Vim is leaving.
- A reused pid, or a zombie parent, which deceives the watchdog's probe.
- `Mirror` takes commands one at a time; that two of them overlap is
  `Editing`'s matter, and an overlap with a refresh of the mirror is not explored.
- Notebook files, configuration, editor scripts, type declarations:
  conversions, reads of editor variables and thin wrappers, without state that
  other parts share.

## Plan

Written, in this order: `Execution`, `ServerPool` with `SharedServer`,
`KernelLifecycle` over it, `KernelConnection`, `NotebookCells` and `Editing`
with `Timeline`, `MirrorText` and `Mirror`, `RenderPlan` and `Display`,
`WireProtocol` and `Comm`, `ServerProcess`.

Left:

1. theorem: `SaveFaithful`;
2. `Display` and `Execution` as one: a run's flush is the scheduler's promise,
   which `Execution` takes as a step that ends;
3. `Mirror` with commands that overlap.
