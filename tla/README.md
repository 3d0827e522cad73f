# Zeus plughost: formal model

The sidecar (`src/src`) hosts VST3, VST2 and CLAP audio plugins for the Zeus radio server, in a
process of its own so that a plugin that crashes does not take the server with it. Blocks of audio
arrive in a shared-memory ring, go through a chain of eight plugin slots and leave in a second ring.
Commands, replies and events go over a framed Unix socket. Plugins may have editor windows, which a
GUI thread owns.

This directory models that program in TLA+, checks the models with TLC on small instances, and proves
with TLAPS, for every instance, the safety properties those runs check. Liveness stays with TLC. Every
definition is translated from the C++ source; `PROJECT.json` ("map") names the lines each one stands for.

## 1. Inventory

Threads of the sidecar: the **audio** thread (`main`, in `RunPassthrough`), the **reader** (the
`controlReader` lambda of `main.cpp`, which runs every command), the **GUI** thread (started by the
first editor), one **drain** thread per VST3 host, and the **heartbeat** (logging only). The **host**
is the Zeus server: it writes the input ring, reads the output ring, sends commands and listens.

| Component (source) | State | Operations | Hard behaviour | What makes it correct |
|---|---|---|---|---|
| Ring (`ipc/shm_ring.*`) | `head`, `tail`, slots in shared memory | AcquireSlot, PublishSlot, ReadSlot, ReleaseSlot, CreateNew, OpenExisting | 64-bit counters that wrap, masks, two processes | a slot has one owner; a published block is whole |
| Wakeup (`ipc/wakeup_*`) | a named semaphore | Signal, Wait with timeout | posts accumulate up to SEM_VALUE_MAX, waits time out | no published block is stranded |
| Audio loop (`audio/passthrough.cpp`) | stop flags, statistics | RunPassthrough | waits on a semaphore, drains a ring, both polled in rounds | every block forwarded once, in order, or dropped when the output is full |
| Plugin chain (`vst3/plugin_chain.cpp`) | slots, gates, scratch buffers | LoadSlot, UnloadSlot, SetSlotBypass, SetChainEnabled, Process | Process takes no lock | an open slot is populated; the output is the composition of the plugins that ran |
| Format hosts (`vst3/plugin_host.cpp`, `vst2`, `clap`) | `active` pointer, plugin | Load, Unload, Process | pointer swapped while the audio thread uses it | a plugin is never inside process when it is terminated |
| Parameter bridge (`plugin_host.cpp`) | coalescing record, queue of fires, pending changes | performEdit, DrainLoop, SetParam, destructor | three queues' writers on four threads, bounded queues | the host and the processor learn the last value |
| GUI thread and windows (`vst3/gui_thread.cpp`, `editor_window.cpp`) | request queue, windows | RequestShow, RequestHide, Stop, idle loop | requests with timeouts, operator closes, callbacks | views outlive their windows; replies find their caller; stop ends |
| Control pipe (`ipc/control_pipe.cpp`) | socket | Open, Send, TrySendNonBlocking, Recv, Close | partial reads and writes, timeouts, three writers | frames are delivered whole and in order; replies are not dropped |
| Run loop and frame (`vst3/host_run_loop.cpp`, `host_plug_frame.cpp`) | timers and descriptors plugins registered | register, unregister, dispatch, resizeView | handlers that unregister during dispatch | only registered handlers are called; window, frame and view agree on the size |
| View wrappers (`clap/clap_view.cpp`, `vst2/vst2_view.cpp`) | created, shown, attached | constructor, attached, removed, destructor, Idle | four places that release, and attaching may fail half way | what was created is destroyed, once, before what it stands on |
| `main.cpp` | stop flags, threads | handshake, command dispatch, shutdown | order of joins and destructors | nothing is used after it is destroyed |

Interactions. The host and the audio loop share the two rings and post each other's semaphore. The
audio loop calls `PluginChain::Process`. The reader calls the chain's operations and posts requests to
the GUI thread, and waits for their replies. The GUI thread calls into plugins, and back into `main`'s
callback, which releases the view in the chain and sends an event. Plugins call `performEdit`, which
queues a fire for the drain thread, which sends it. All senders share one socket under
`controlSendMutex`.

`PROJECT.json` lists the hazards of this code line by line, each with the properties that cover it or the reason why none does.

## 2. Modules and how they correspond to the code

Each MC module gives a component its small sets of values; each `.cfg` is one run.

| Module | Code | State | Actions |
|---|---|---|---|
| `ShmRing` | `shm_ring.h/.cpp` | a ring as a value: `head`, `tail`, slots | operators `CanAcquire`, `Publish`, `CanRead`, `Release`, with counters modulo `Wrap` |
| `AudioPath` | `passthrough.cpp`, `wakeup_linux.cpp` | two rings, two semaphores, the loop's place, the host's two threads, the stop flag | one per call of `RunPassthrough`; a store into a slot is two steps with `Torn` between |
| `BlockPipe` | (abstract) | what is pending, what is ready | `Submit`, `Forward`, `Drop`, `Collect`: what the data plane promises |
| `PluginChain` | `plugin_chain.cpp`; load, swap, teardown and process of the three format hosts | gates, format, pointers, life of each host; the audio thread's locals | each store of a load or unload is a step, each load of `Process` is a step |
| `ParamBridge` | `HostComponentHandler` and the pending queue in `plugin_host.cpp` | coalescing record, two queues, the places of four threads | `performEdit` in its parts, `DrainNext`, `SetParam`, the audio thread's drain, the destructor |
| `EditorSession` | `gui_thread.cpp`, editor commands and the end of `main.cpp`, views of the three formats | queue, local batch, windows, views held, running flag, what the host was told | a command in its steps, a request in its steps, the operator's close, the end |
| `ControlFrame` | the frame format of `control_pipe.cpp` | none | `Header`, `Encoded`, `Length`, `Decoded`, `Acceptable`; `Bytes`, the stream that frames make, is for the properties |
| `ControlSend` | `sendFrame`, `trySendFrameLossy`, `ControlPipe::Send`, `TrySendNonBlocking` | mutex, each thread's call, bytes in the socket | `Lock`, `Refuse`, `Blocking`, `Probe`, `TrySend`, `Send`, `SendFails`; the host reads and closes |
| `ControlReceive` | `main.cpp` from connect to exit, `ControlPipe::Open`, `Recv`, `RecvAll` | place of `main`, reader, heartbeat, the Recv in progress, flags | startup, each outcome of a receive, commands, signal, shutdown; the host binds, writes and closes |
| `PluginLife` | `Load`, `Unload` and `TearDownActive` of the three format hosts, `EditorWindow::Attach` and `Detach`, the view wrappers, the commands around them | what is held of the plugin in a slot; the places of control and GUI thread and what each has yet to release | tables of what each place takes and lets go, in order; `Take`, `Skip`, `Fail`, `Publish`, `ReleaseOne`, the same for an attach, both closes |
| `EditorLoop` | the round of `GuiThread::ThreadMain`, `EditorWindow::OnEvent`, `OnEditorIdleTick` and the host extensions of `ClapPlugin`, `HostRunLoop`, `HostPlugFrame` | sizes and resize events, registrations, the round and the callback in progress, a CLAP knob | each stage of a round, each callback; what a plugin calls from within one |
| `HostedPlugin` | the two together | both | a close ends the round's interest in the slot, an attach starts it, a request waits for the top of a round |
| `ControlFrameTheorems` | | | lemmas about sequences of sequences, division and the framing |
| `AudioPathProofs`, `PluginChainProofs`, `ParamBridgeProofs`, `EditorSessionProofs`, `HostedPluginProofs`, `ControlSendProofs`, `ControlReceiveProofs` | | | an inductive invariant for each module, and the theorems |

Composition. `AudioPath` is built on `ShmRing` and refines `BlockPipe` through
`INSTANCE BlockPipe WITH pending <- Pending, ready <- Contents(output)`. `ControlSend` and
`ControlReceive` share `ControlFrame`. For `AudioPath` a block that went through the chain is the same
block; what became of its samples is the subject of `PluginChain`. `HostedPlugin` composes `PluginLife`
and `EditorLoop`: the control thread loads and unloads, the GUI thread attaches and detaches between its
callbacks into the plugin. `EditorSession` looks at the same threads from the side of the requests: it
has the queue, every order of lapsed requests and the host's knowledge, and no detail of a load or an
attach. `HostedPlugin` has one request whose caller gives up, with what the unload then does to the
plugin, and no queue.

Names follow the source where TLA+ allows it. Variables marked "history" in a module (`lapsed`, `cut`,
`evicted`, `begun`, `halved`, `failed` and the like) are read by properties and never by a guard.
`late` in `PluginLife` is no history: it is the request left behind, queued or in the GUI thread's hands.

### How the difficult parts are treated

- **Data races and use after free.** `PluginChain` and `EditorSession` let a thread keep a pointer after
  the object died. Calling through it leads to the outcome the build may produce: the call may work, or
  the thread crashes (`audio = "crashed"`). Memory of a dead view may be handed out again; that of a
  format host is not handed out while a pass still holds the pointer, so address reuse there is left out.
- **Integers.** `head` and `tail` are taken modulo `Wrap`, a multiple of `SlotCount` as `2^64` is of a
  power of two. A byte has `Base` values and the length two bytes.
- **Time.** A timeout is an action that may happen whenever the call waits. The 10 ms window of the
  coalescing filter is one bit, which a separate action clears.
- **Partial reads and writes.** A send takes any nonempty prefix of its buffer that fits, a receive any
  nonempty prefix of what it asked for.
- **Releases.** Each format and each failure has a list of its own of what it lets go. The lists are
  data of `PluginLife` (`ClapLoad`, `Vst3Load`, `Teardown`, `Detach`, ...), one step lets one entry go, and
  `Needs` says what must still be there at that moment.
- **Callbacks.** While the GUI thread is in a callback (`round.call`), the plugin may register,
  unregister and resize any number of times. The list the callback came from (`round.todo`) is the code's
  snapshot; `changed` remembers what changed since it was taken. In `removed` a plugin is taken to
  unregister what it registered through its frame, as the VST3 contract has it.
- **Plugins** may refuse, fail to load, fail to attach, scribble on a buffer they then disown, or keep
  the GUI thread for ever.
- **Requests that lapse.** `GiveUp` answers for the GUI thread after its second: the show as failed, the
  hide as of an editor that was not open, whether it was or not. The request stays where it is and is
  served later (`late`). What follows is undefined behaviour in the code; the model follows the two
  threads through it, a view that is gone may do anything at an attach, and the properties that need the
  GUI thread's answer say "as long as no request lapsed". The end of `main` does not lapse: its join waits.

## 3. Runs

| Run | Module | What it shows |
|---|---|---|
| `audio` | `MCAudioPath` | No torn, lost, repeated or reordered block; one owner per slot; neither the loop nor the host's reader sleeps on a block without a post; the data plane implements `BlockPipe`; blocks do not wait for ever unless a stop is asked, and the loop returns after one. |
| `chain` | `MCPluginChain` | Loads, failed loads, replacements, unloads, bypass and enable against `Process`: an open slot is complete, nothing leaks, the output is the composition of the plugins that accepted, and a pass honours every slot that stood still. |
| `chain_swap` | `MCPluginChain` | **Violation**: a plugin is torn down with the audio thread inside it. |
| `param_bridge` | `MCParamBridge` | Last write wins towards the host and the processor, apart from what a full queue or an absent callback drops; the drain thread leaves nothing behind and never sleeps on a fire. |
| `param_join` | `MCParamBridge` | **Violation**: the destructor's notification is missed and its join never returns. |
| `param_rest` | `MCParamBridge` | **Violation**: small edits leave the host with a stale value at rest. |
| `editor` | `MCEditorSession` | Views follow windows, the host knows what is open, nothing is sent after the socket is closed; the GUI thread never keeps a command from ending, and `main` gets to its end when plugins and the last send return. |
| `editor_request` | `MCEditorSession` | **Violation**: the GUI thread answers a caller that gave up, through pointers into its old stack frame (and may attach a view that was released meanwhile). |
| `hosted` | `MCHostedPlugin` | Loads and attaches with every failure, closes by both sides, unloads and a request that lapses, around a GUI thread that dispatches into a plugin which registers, unregisters and resizes from within. As long as no request lapsed, releases find what they call into, nothing is left behind and callbacks find the plugin; even after a lapse the end of `main` waits for a callback, callbacks go to current registrations, sizes agree, no knob change is lost. |
| `control_send` | `MCControlSend` | Frames of three threads never mix, until half a lossy frame is sent; the room a probe found is still there at the write; a lossy send waits for nothing but a blocking send that waits for the host; a host that reads gets all. |
| `control_receive` | `MCControlReceive` | Frames are obeyed in order, in whatever pieces, unless a Recv fails within one; a close, a signal or a Goodbye ends the sidecar, if commands return, the input ring goes quiet and the GUI thread can be joined. |
| `control_cut` | `MCControlReceive` | **Violation**: after a stall within a frame, Recv returns a frame nobody sent. |

Every property has a mutant in `PROJECT.json`: a plausible change of one action or operator, written
beside it in its module as `<Definition>_<What>`, under which TLC finds that property violated.

## 4. Bounds

- **Audio path**: 2 slots, counters modulo 4, semaphores up to 2. Two slots are the fewest for which
  full, partly full and empty differ, and 4 the smallest wrap for which `head - tail` tells full from
  empty; with them every counter wraps repeatedly, so no bound on the number of blocks is needed. A
  semaphore limit of 2 is reached, since one wake-up drains many blocks and leaves their posts behind. Two
  blocks are enough for order and identity.
- **Chain**: 2 slots, 2 formats, 3 objects: one object more than slots, for the one a pass holds after
  the swap. Two scratch buffers are as in the code. Formats and objects are symmetric.
- **Parameter bridge**: 2 parameters, values 0 and 1, both caps 2, 3 calls: a third call overflows a
  queue of two. The violation runs use one parameter; `param_rest` has values 0..2 with `Step = 2`, so
  that two edits of one, each too small to fire, add up to one that is not.
- **Editor**: one slot of each kind of view (counted and not), 3 views so that memory is reused, and no
  command while a request is still queued (`MaxQueue = 1`): a lapsed request in the hands of the GUI
  thread plus a new one, and the Quit. The bound is the model's (`Ready`): the code's queue has none.
- **Hosted plugin**: one slot, as slots share only the GUI thread's turn. Every kind of plugin, with and
  without a controller of its own, is loaded after every other. 2 descriptors, handlers and timers: enough
  for one callback to drop, replace or hand over the registration of the next. 2 sizes, 2 events on their
  way: enough for an old event to be read after a newer resize. Descriptors, handlers and timers are
  symmetric; there is no liveness in the run. One request of a run lapses, and nothing is loaded after it:
  what matters is what the plugin and the editor that were there go through. `EditorSession` has any
  number of lapses.
- **Sending**: a socket of 5 bytes against frames of 3 and 5, plus one refused for its size; 3 calls.
  A five-byte frame fits only an empty socket with `<=` and never with the code's `<`, so the probe's
  edge is met, and every blocking send is split.
- **Receiving**: payload limit 5, 2 connection attempts, 3 frames, one whose payload reads like another
  frame, so that a stream out of step is seen to yield false frames.

## 5. Fairness

- **Audio path**: the loop's thread is scheduled (`WF(AudioNext)`), and a host that began to store a
  block publishes and posts it. Nothing obliges it to send more or to collect.
- **Chain**, **hosted plugin**: none; their properties are about what may never happen.
- **Parameter bridge**: the threads inside `performEdit`, the drain, `SetParam` and the destructor are
  scheduled. No spurious wake-up is relied on, which is what makes `QueueDrains` say something of the
  notifications.
- **Editor**: the requests of the control thread, and `main`. Neither the GUI thread, which a plugin may
  keep, nor what a command does besides: it loads plugins, joins a drain thread that may never return
  (`param_join`) and sends to a host that may read nothing. Where a property needs these it names them:
  `ReaderNotHeld` assumes `WorkReturns` and nothing of the GUI thread, `StopEnds` assumes `PluginsReturn`
  (which covers the GUI thread's own send), because the code's join has no timeout.
- **Sending**: each sender. Whether the host reads is its own affair: `AllDelivered` assumes it
  (`HostReads`), `LossyWaitsForSend` does not.
- **Receiving**: the sidecar's threads, and strong fairness of a Recv that finds bytes or an end of
  file: its poll returns at once when there is something, so it does not time out for ever beside it.
  The host is not fair, and neither are the three steps that others decide about. `SidecarEnds` names
  them: `CommandsReturn` (see the editor), `AudioQuiet` (the host leaves the input ring empty once, or
  `RunPassthrough` never looks at the flags) and `GuiThreadEnds` (the join in `guiThread.Stop()`).

## 6. Proofs

TLAPS proves every invariant the passing runs check, the action property `CallsCurrent` and the
refinement `ImplementsPipe`, for every value of the constants. Each module has one inductive invariant
(`IInv`; `SendInv` and `WholeInv` for the senders), one lemma or more per action, and theorems that
follow from it. Each invariant was checked by TLC on the module's run before it was proved.

What is assumed of the constants is in the named assumptions of the modules, which TLC evaluates in
every run: `RingAssumption` (a positive number of slots, `Wrap` a larger multiple of it),
`BlockAssumption`, `SemAssumption`; `ChainAssumption`, `FormatAssumption`, `BufferAssumption`;
`BridgeAssumption`; `EditorAssumption`; `LoopAssumption`; `FrameAssumption` (the length of a frame fits
its two bytes), `SendAssumption` and `ReceiveAssumption` (the host's commands are frames the limit lets
through).

**Audio path** (`AudioPathProofs`). `TypeCorrect`, `NoTornBlock` (`BlocksWhole`) and `SlotsOwned`
(`SlotOwnership`) rest on one inductive invariant, the conjunction of the three, split by ring.
`BlocksWhole` is not inductive alone: that a published slot is whole needs to know that the slot about
to be published is, and that the slot being stored into is not one that is published. That is what
`SlotOwnership` says of each thread's place. A step of one thread changes one ring, and the ring lemmas
at the head of the module (publishing keeps a sound ring sound, releasing does, a store into a free slot
does, across the wrap) say what happens to it. The arithmetic of the wrap is division, uniqueness of
remainders, and that numbers less than `n` apart with one remainder modulo `n` are equal.
`NoLostInputWakeup` and `NoLostOutputWakeup` prove the two wake-up properties. `RefinesPipe`
(`ImplementsPipe`) shows that initial states map to initial states and that a publish by the host is
`Submit`, a publish by the loop `Forward`, an acquire that finds the output full `Drop`, a release by the
host `Collect`, and every other step a stutter. Its invariant adds `Copied`: what the loop publishes is
the block at the front of the input.

**Plugin chain** (`PluginChainProofs`). `OpenIsPopulated`, `NoLeak`, `TypeCorrect`, `OutputComposed`,
`SteadyHonoured`. An open gate says nothing of the stores still to come, so the invariant says of each
place of a call what its slot is then (`Underway`: withdrawn, stopped, deleted, ...), of every other
slot that it is `Settled`, and that a host is in one place (`OnePlace`) with none outside (`NoStray`).
For the audio thread it says where the samples are: the buffer a plugin reads is the composition so
far, and the one it writes is the other (`BufferInv`). `HistoryInv` relates the slots a pass has honoured
to what stood still.

**Parameter bridge** (`ParamBridgeProofs`). `TypeCorrect`, `NewestFireReachesHost`,
`NewestPushReachesProcessor`, `NothingLeftAtExit`, `NoStrandedFire`. `NewestFireWins` is not inductive:
it does not exclude an older fire still in the drain thread's hand after the newest was shown. `FireInv`
says there is none then. `DrainInv` has the place between the predicate's test and the sleep.

**Editor session** (`EditorSessionProofs`). `TypeCorrect`, `RestIsConsistent` (`EditorsAtRest`),
`UnloadAfterClose`, `EventsBeforeClose`. Callers give up and their requests stay queued, so that nothing
simple holds of the queue. What holds is `CallerInv`: at most one request, in the queue, the local batch
or the GUI thread's hand, has a caller who waits, and it is the one of the command in progress; a reply
therefore never reaches another command. `ExchangeInv` and `AnswerInv` follow one exchange as long as
none lapsed, from which an unload finds the editor closed. `RestIsConsistent` and `UnloadAfterClose` are
about that time; `TypeCorrect` and `EventsBeforeClose` hold after a lapse too. That the queue is no longer
than `MaxQueue` and a Quit follows from the model's bound and says nothing of the code's queue.

**Hosted plugin** (`HostedPluginProofs`). `TypeCorrect`, `ReleasesInOrder` (`Bracketed`),
`SlotLeftEmpty` (`NothingLeft`), `CallbacksFindPlugin`, `SizesMeet`, `KnobIsServed`, and
`CallbacksCurrent` for the action property `CallsCurrent`. The releases are driven by lists. `Ordered`
says what makes a list safe: whatever builds on an entry is an entry before it, or is not held. Taking
the head off keeps it, so that it need be shown only where a list is started: for each list of each
format, from the tables and from what can be held there. A list must also name all that is held
(`LoadedInv`, `TeardownInv`, `AttachInv`, ...), which gives `NothingLeft` once it is empty. `PhaseInv` says
which places of the two threads go together. Of the other half, `RoundInv` says what may have become of a
registration since the snapshot was taken, and `OpenInv` ties the two halves: while an editor is open its
window is held and the plugin is loaded. All that is about what is held (`LifeInv`, `OpenInv`) is claimed
until a request lapses and no longer. `RequestInv` is claimed always: whose request the GUI thread has in
hand, and that the end of `main` tears down only with that thread at rest and no editor open, which is
the part of `CallsFindPlugin` that outlives a lapse. `SlotLeftEmpty` excepts the controller of a load that
failed (`failed`), and so not that of an unload.

**Control socket** (`ControlFrameTheorems`, `ControlSendProofs`, `ControlReceiveProofs`). `DecodedEncoded`
and `EncodedDecoded` show that a frame and its bytes determine each other, for every base of a byte, by
division of the length. The stream a sequence of frames makes is their concatenation, of any length; the
lemmas about it (`FlattenAppend`, `BytesAppend`, `NextInStream`) are by the least number for which they
would fail (`Least`), in place of induction.
`SendTypes` says that who is past the lock holds the mutex and that the socket never exceeds its room.
`ProbeHolds` (`ProbedRoomStays`) is inductive with it: only the holder of the mutex adds bytes, so between
a probe that succeeded and the write the socket can only get emptier. It says nothing of a frame that was
sent without a probe, or of which the kernel took a part all the same. `FramesStayWhole` (`FramesWhole`)
is that what the host has read, what it has of the next frame, what is in the socket and what the holder
of the mutex has left are the frames begun, byte for byte, until such a part is sent (`halved`).
`HandledAsSent` (`FramesAsSent`) is the same seen by the reader. A prefix of handled frames says nothing
of the bytes to come, so `StreamInv` says that the frames handled, the bytes of the Recv in progress, those
in the socket and those the host has left are the frames it began, and `PartInv` what a Recv has read when
it asks for each part. A frame that is whole at the front of what remains is then the next one
(`NextFrame`), since the first bytes determine its length.

## 7. Model-checked only

- Liveness (`BlockHandled`, `StopReturns`, `QueueDrains`, `ReaderNotHeld`, `StopEnds`,
  `LossyWaitsForSend`, `AllDelivered`, `SidecarEnds`): proofs under fairness need ENABLED, which this
  prover does not have.
- The five violations, which are behaviours and not theorems.

## 8. What the runs found

Five runs end in a violation of something the code's own comments claim; `PROJECT.json` ("findings")
quotes each comment beside the line of code.

1. `chain_swap`: the fence after the pointer swap does not wait for a `Process` already inside.
2. `param_join`: `stopRequested_` is set and notified without the mutex, so the drain thread can miss it.
3. `param_rest`: swallowed edits move the remembered value, and no trailing fire follows the window.
4. `editor_request`: a request outlives its caller's second and its stack frame; and, without any
   timeout, the view it names is released by an operator's close while the request is queued, for no
   count is taken of it.
5. `control_cut`: a receive timeout within a frame loses the frame's start and shifts the stream.

Other differences between code and comments that the models follow, without a run of their own:

- the block header's bypass flag is never read by the loop;
- the loop's inner drain is not bounded by the number of slots, against `passthrough.cpp:53-54`, so a
  host that keeps sending keeps it from testing the stop flags (`StopReturns` and `AudioQuiet` assume that
  it pauses);
- a hide that lapsed counts as one of a closed editor (`gui_thread.cpp:180-182`), and the load or unload
  goes on (`main.cpp:623-630`, `658-665`), with the window open and perhaps the GUI thread in a callback
  of the very plugin. `HostedPlugin` goes there; `UnloadFindsEditorClosed`, `Bracketed`, `NothingLeft` and
  the first half of `CallsFindPlugin` end where it begins;
- the reader sends "open" and the GUI thread the close that follows it, in either order: the host may be
  left believing that a closed editor is open. `EditorsAtRest` asks only for the converse;
- the callback for an operator's close takes the chain's mutex, which its comment says it avoids;
- a full fire queue drops the oldest fire, which may be the last one of another parameter, against
  `plugin_host.cpp:202-206` (`NewestFireWins` excuses it as `evicted`);
- a slot's freed host may still be called by a pass that read the pointer earlier;
- a lossy send waits for the mutex, and so behind a blocking send that waits for the host, against
  `main.cpp:258-262` and `465-467` (`LossyWaitsForSend` says it is the one wait);
- a lossy frame can be sent in part, without `SIOCOUTQ` or with it; the code sees the short count, and
  where `control_pipe.cpp:174-180` says "flag broken so callers fall back" it returns false like for a
  dropped frame, and the next frame goes out behind the half (`halved` ends `FramesWhole`);
- a VST3 load that fails in `setupProcessing` or later terminates the component and leaves a controller
  of its own initialised and connected, against `plugin_host.cpp:358-361`: "the helper unwinds anything it
  allocated before failing". `Bracketed` and `NothingLeft` except it by name (`ControllerLeft`), after a
  load that failed and at no other time;
- a CLAP plugin that took its parent and then refuses to show sees the window destroyed with its GUI in
  it (`ShowRefused`), since `removed` is not called for a view that failed to attach;
- `DispatchFds` looks whether the descriptor is still registered and not by whom, so one that changed
  hands goes to its former handler; CLAP timers dropped in the tick still fire. `CallsCurrent` names both;
- the comment on `HostTimerRegister` says it remembers nothing and that timers do not fire; they do;
- `HostGuiRequestResize` answers yes to a CLAP plugin and resizes nothing;
- `unregisterEventHandler` takes one descriptor of a handler that registered several;
- the flush of a CLAP plugin runs beside `process`, which `clap/ext/params.h` forbids;
- `Send` counts the payload and `Recv` counts payload and tag against the same limit.

## 9. Not modelled

Creating and mapping the shared region, opening semaphores, argument parsing, logging and `--idle` are
I/O without interleaving of their own. Bus layout, sample buffers and the conversion between mono and
stereo are computation on samples, on one thread. The payloads of commands and replies are not parsed,
and so not the sizes in a show's reply and in `EditorResized`, which two threads send. `ListParams` only
reads. Values of CLAP parameters queued by `SetParam` go through the same bounded queue as those of
`PluginHost`, which `ParamBridge` has. When a timer is due is left open: any that is registered may be.
Of X11 there are the resize events; drawing, focus and other events touch no state of the sidecar. The
destructors after `main`'s last statement are not modelled. The macOS and Windows variants of the wake-up
keep the Linux contract or only throw. Third-party headers hold no logic of this program.

## 10. Plan

The order puts what carries audio first, then what makes the program stop, hang or lie to its host.

1. Done: `ShmRing`, `AudioPath`, `BlockPipe`, `PluginChain`, `ParamBridge`, `EditorSession`,
   `ControlFrame`, `ControlSend`, `ControlReceive`, with proofs of the audio path and of sending;
   then `PluginLife`, `EditorLoop` and their composition `HostedPlugin`.
2. Done: proofs of every invariant the runs check, of `CallsCurrent` and of the refinement of `BlockPipe`.
3. Proofs of what the violations leave standing: that a pass holds a dead host only across a swap
   (`PluginChain`), and that a request which did not lapse never points at a released view
   (`EditorSession`).
4. The end of `main`: destructors after `Close` against the drain threads' callbacks.
