---------------------------- MODULE ParamBridge ----------------------------
(***************************************************************************)
(* How a parameter edit leaves a VST3 plugin: HostComponentHandler and the *)
(* pending-change queue of its ActivePlugin (vst3/plugin_host.cpp).        *)
(*                                                                         *)
(* Four threads.  The GUI thread calls performEdit when the operator turns *)
(* a knob; the control thread calls SetParam, installs the callback and    *)
(* finally destroys the handler; the audio thread drains the pending       *)
(* changes into the processor; the drain thread hands fires to the         *)
(* callback, which sends them to the host.                                 *)
(*                                                                         *)
(* Values are small integers: two of them closer than Step differ by less  *)
(* than 0.001.  Time is one bit per parameter: whether the 10 ms window    *)
(* opened by its last fire is still open.                                  *)
(***************************************************************************)
EXTENDS Integers, Sequences

CONSTANTS
  Param,        \* parameter ids
  MaxValue,     \* knob positions are 0 .. MaxValue
  Step,         \* the smallest difference that counts as a change
  QueueCap,     \* kQueueCap, 2048 in the code
  PendingCap,   \* kPendingCap, 256 in the code
  MaxEdits,     \* bound on performEdit and SetParam calls
  None

ASSUME BridgeAssumption ==
  /\ {MaxValue, MaxEdits} \subseteq Nat
  /\ {Step, QueueCap, PendingCap} \subseteq Nat \ {0}
  /\ None \notin Nat

Value == 0 .. MaxValue
Fire  == [id : Param, value : Value]

VARIABLES
  (* the plugin *)
  knob,          \* the controller's value of each parameter
  processor,     \* the value the audio processor works with
  (* HostComponentHandler *)
  lastFire,      \* lastFires_[id].value, or None
  windowOpen,    \* now - lastFires_[id].nsTime < kCoalesceMinNs
  queue,         \* queue_
  stopRequested, \* stopRequested_
  callbackSet,   \* PluginHost::Impl::paramChangedCallback is not empty
  (* ActivePlugin *)
  pending,       \* pendingChanges
  (* threads *)
  editor,        \* the performEdit in progress on the GUI thread
  setter,        \* the SetParam in progress on the control thread
  handler,       \* how far the handler's destruction is
  drain,         \* where the drain thread stands
  inFlight,      \* the fire it has popped
  (* the host, and history *)
  shown,         \* the last value the host was sent, per parameter
  fired,         \* the last value enqueued for it, per parameter
  pushed,        \* the last value pushed to the audio side
  evicted,       \* parameters whose last fire the queue's cap threw away
  unheard,       \* parameters whose last fire found no callback
  lostPush,      \* parameters whose last push pendingChanges' cap threw away
  edits          \* calls so far

plugin  == <<knob, processor>>
coalesce == <<lastFire, windowOpen>>
audioQ  == <<pending, pushed, lostPush>>
hostQ   == <<queue, fired, evicted>>
sent    == <<inFlight, shown, unheard>>
vars    == <<plugin, coalesce, audioQ, hostQ, sent, stopRequested, callbackSet,
             editor, setter, handler, drain, edits>>

\* A call in progress: the step it is at, and its arguments.
Call(steps) == [at : steps, fire : Fire \cup {None}]
NoCall      == [at |-> "idle", fire |-> None]

TypeOK ==
  /\ knob \in [Param -> Value] /\ processor \in [Param -> Value]
  /\ lastFire \in [Param -> Value \cup {None}]
  /\ windowOpen \in [Param -> BOOLEAN]
  /\ queue \in Seq(Fire) /\ Len(queue) <= QueueCap
  /\ pending \in Seq(Fire) /\ Len(pending) <= PendingCap
  /\ stopRequested \in BOOLEAN /\ callbackSet \in BOOLEAN
  /\ editor \in Call({"idle", "coalesce", "push", "enqueue", "notify"})
  /\ setter \in Call({"idle", "push"})
  /\ handler \in {"live", "stopping", "joining", "gone"}
  /\ drain \in {"test", "falseHeld", "waiting", "dispatch", "exited"}
  /\ inFlight \in Fire \cup {None}
  /\ shown \in [Param -> Value \cup {None}]
  /\ fired \in [Param -> Value \cup {None}]
  /\ pushed \in [Param -> Value \cup {None}]
  /\ evicted \subseteq Param /\ unheard \subseteq Param /\ lostPush \subseteq Param
  /\ edits \in 0 .. MaxEdits

Init ==
  /\ knob = [p \in Param |-> 0] /\ processor = knob
  /\ lastFire = [p \in Param |-> None]
  /\ windowOpen = [p \in Param |-> FALSE]
  /\ queue = <<>> /\ pending = <<>>
  /\ stopRequested = FALSE /\ callbackSet = FALSE
  /\ editor = NoCall /\ setter = NoCall
  /\ handler = "live" /\ drain = "test"
  /\ inFlight = None
  /\ shown = [p \in Param |-> None] /\ fired = shown /\ pushed = shown
  /\ evicted = {} /\ unheard = {} /\ lostPush = {}
  /\ edits = 0

\* Mutant of PushCapped: one entry too many.
PushCapped_OffByOne(q, fire, cap) ==
  Append(IF Len(q) > cap THEN Tail(q) ELSE q, fire)

\* Mutant of PushCapped: a full deque refuses the new entry.
PushCapped_DropsNewest(q, fire, cap) ==
  IF Len(q) >= cap THEN q ELSE Append(q, fire)

\* A deque that drops its oldest entry rather than exceed its cap.
PushCapped(q, fire, cap) ==
  Append(IF Len(q) >= cap THEN Tail(q) ELSE q, fire)

\* The parameter whose only entry a push evicts: nothing newer replaces it.
Evicted(q, fire, cap) ==
  IF /\ Len(q) >= cap
     /\ Head(q).id # fire.id
     /\ \A k \in 2 .. Len(q) : q[k].id # Head(q).id
  THEN {Head(q).id} ELSE {}

----------------------------------------------------------------------------
(* performEdit, on the GUI thread. *)

\* The operator moves a knob: the plugin's controller takes the value and
\* reports it.
TurnKnob ==
  /\ handler = "live" /\ editor.at = "idle" /\ edits < MaxEdits
  /\ \E f \in Fire :
       /\ knob' = [knob EXCEPT ![f.id] = f.value]
       /\ editor' = [at |-> "coalesce", fire |-> f]
  /\ edits' = edits + 1
  /\ UNCHANGED <<processor, coalesce, audioQ, hostQ, sent, stopRequested, callbackSet,
                 setter, handler, drain>>

Near(a, b) == a - b < Step /\ b - a < Step

\* An edit close to the last one, in the window of the last fire, is
\* swallowed, and only remembered.
Swallowed(f) ==
  lastFire[f.id] # None /\ windowOpen[f.id] /\ Near(f.value, lastFire[f.id])

Coalesce ==
  /\ editor.at = "coalesce"
  /\ lastFire' = [lastFire EXCEPT ![editor.fire.id] = editor.fire.value]
  /\ IF Swallowed(editor.fire)
     THEN /\ editor' = NoCall
          /\ UNCHANGED windowOpen
     ELSE /\ editor' = [editor EXCEPT !.at = "push"]
          /\ windowOpen' = [windowOpen EXCEPT ![editor.fire.id] = TRUE]
  /\ UNCHANGED <<plugin, audioQ, hostQ, sent, stopRequested, callbackSet, setter,
                 handler, drain, edits>>

\* 10 ms have passed since the parameter's last fire.
WindowCloses ==
  /\ \E p \in Param :
       /\ windowOpen[p]
       /\ windowOpen' = [windowOpen EXCEPT ![p] = FALSE]
  /\ UNCHANGED <<plugin, lastFire, audioQ, hostQ, sent, stopRequested, callbackSet,
                 editor, setter, handler, drain, edits>>

\* pendingChanges, under pendingMutex.
PushPending(f) ==
  /\ pending' = PushCapped(pending, f, PendingCap)
  /\ pushed' = [pushed EXCEPT ![f.id] = f.value]
  /\ lostPush' = (lostPush \ {f.id}) \cup Evicted(pending, f, PendingCap)

AudioQueuePush ==
  /\ editor.at = "push"
  /\ PushPending(editor.fire)
  /\ editor' = [editor EXCEPT !.at = "enqueue"]
  /\ UNCHANGED <<plugin, coalesce, hostQ, sent, stopRequested, callbackSet, setter,
                 handler, drain, edits>>

\* Mutant of Enqueue: queueMutex_ is not taken.
Enqueue_Unlocked ==
  /\ editor.at = "enqueue"
  /\ queue' = PushCapped(queue, editor.fire, QueueCap)
  /\ fired' = [fired EXCEPT ![editor.fire.id] = editor.fire.value]
  /\ evicted' = (evicted \ {editor.fire.id}) \cup Evicted(queue, editor.fire, QueueCap)
  /\ editor' = [editor EXCEPT !.at = "notify"]
  /\ UNCHANGED <<plugin, coalesce, audioQ, sent, stopRequested, callbackSet,
                 setter, handler, drain, edits>>

\* queue_, under queueMutex_, which the drain thread holds in "falseHeld".
Enqueue ==
  /\ editor.at = "enqueue"
  /\ drain # "falseHeld"
  /\ queue' = PushCapped(queue, editor.fire, QueueCap)
  /\ fired' = [fired EXCEPT ![editor.fire.id] = editor.fire.value]
  /\ evicted' = (evicted \ {editor.fire.id}) \cup Evicted(queue, editor.fire, QueueCap)
  /\ editor' = [editor EXCEPT !.at = "notify"]
  /\ UNCHANGED <<plugin, coalesce, audioQ, sent, stopRequested, callbackSet, setter,
                 handler, drain, edits>>

\* notify_one and notify_all: there is one possible waiter.
Notify == drain' = IF drain = "waiting" THEN "test" ELSE drain

NotifyDrain ==
  /\ editor.at = "notify"
  /\ Notify
  /\ editor' = NoCall
  /\ UNCHANGED <<plugin, coalesce, audioQ, hostQ, sent, stopRequested, callbackSet,
                 setter, handler, edits>>

----------------------------------------------------------------------------
(* DrainLoop, on the drain thread. *)

\* Mutant of DrainTest: a stop is obeyed before the queue is empty.
DrainTest_StopsFirst ==
  /\ drain = "test"
  /\ IF stopRequested
     THEN /\ drain' = "exited"
          /\ UNCHANGED <<inFlight, queue>>
     ELSE IF queue # <<>>
     THEN /\ inFlight' = Head(queue)
          /\ queue' = Tail(queue)
          /\ drain' = "dispatch"
     ELSE /\ drain' = "falseHeld"
          /\ UNCHANGED <<inFlight, queue>>
  /\ UNCHANGED <<plugin, coalesce, audioQ, fired, evicted, shown, unheard,
                 stopRequested, callbackSet, editor, setter, handler, edits>>

\* With queueMutex_ taken, the wait's predicate, and what follows if it holds:
\* pop a fire, or leave when there is none and a stop was requested.
DrainTest ==
  /\ drain = "test"
  /\ \/ /\ queue # <<>>
        /\ inFlight' = Head(queue)
        /\ queue' = Tail(queue)
        /\ drain' = "dispatch"
     \/ /\ queue = <<>> /\ stopRequested
        /\ drain' = "exited"
        /\ UNCHANGED <<inFlight, queue>>
     \/ /\ queue = <<>> /\ ~stopRequested
        /\ drain' = "falseHeld"
        /\ UNCHANGED <<inFlight, queue>>
  /\ UNCHANGED <<plugin, coalesce, audioQ, fired, evicted, shown, unheard,
                 stopRequested, callbackSet, editor, setter, handler, edits>>

\* The predicate was false: release the mutex and block, in one step.
DrainBlock ==
  /\ drain = "falseHeld"
  /\ drain' = "waiting"
  /\ UNCHANGED <<plugin, coalesce, audioQ, hostQ, sent, stopRequested, callbackSet,
                 editor, setter, handler, edits>>

\* A condition variable may wake its waiter for no reason.
SpuriousWake ==
  /\ drain = "waiting"
  /\ drain' = "test"
  /\ UNCHANGED <<plugin, coalesce, audioQ, hostQ, sent, stopRequested, callbackSet,
                 editor, setter, handler, edits>>

\* Outside the lock: (*cb_)(id, value), or nothing if no callback is set.
Dispatch ==
  /\ drain = "dispatch"
  /\ IF callbackSet
     THEN /\ shown' = [shown EXCEPT ![inFlight.id] = inFlight.value]
          /\ unheard' = unheard \ {inFlight.id}
     ELSE /\ unheard' = unheard \cup {inFlight.id}
          /\ UNCHANGED shown
  /\ inFlight' = None
  /\ drain' = "test"
  /\ UNCHANGED <<plugin, coalesce, audioQ, hostQ, stopRequested, callbackSet, editor,
                 setter, handler, edits>>

----------------------------------------------------------------------------
(* The audio thread. *)

\* Of parameter p's entries in q, the last has value v.
Latest(q, p, v) ==
  \E k \in 1 .. Len(q) :
    /\ q[k] = [id |-> p, value |-> v]
    /\ \A j \in k + 1 .. Len(q) : q[j].id # p

NoneOf(q, p) == \A k \in 1 .. Len(q) : q[k].id # p

\* Mutant of DrainPending: the first of a parameter's changes wins.
DrainPending_Oldest ==
  /\ pending # <<>> /\ handler # "gone"
  /\ processor' \in [Param -> Value]
  /\ \A p \in Param :
       IF NoneOf(pending, p)
       THEN processor'[p] = processor[p]
       ELSE \E k \in 1 .. Len(pending) :
              /\ pending[k] = [id |-> p, value |-> processor'[p]]
              /\ \A j \in 1 .. k - 1 : pending[j].id # p
  /\ pending' = <<>>
  /\ UNCHANGED <<knob, coalesce, pushed, lostPush, hostQ, sent, stopRequested,
                 callbackSet, editor, setter, handler, drain, edits>>

\* The start of Process: try_lock, then every pending change in order.  When
\* the lock is held by a pusher the block goes by without it.
DrainPending ==
  /\ pending # <<>> /\ handler # "gone"
  /\ processor' \in [Param -> Value]
  /\ \A p \in Param :
       IF NoneOf(pending, p)
       THEN processor'[p] = processor[p]
       ELSE Latest(pending, p, processor'[p])
  /\ pending' = <<>>
  /\ UNCHANGED <<knob, coalesce, pushed, lostPush, hostQ, sent, stopRequested,
                 callbackSet, editor, setter, handler, drain, edits>>

----------------------------------------------------------------------------
(* The control thread. *)

\* PluginChain::LoadSlot installs the callback some time after Load returned.
SetParamChangedCallback ==
  /\ handler = "live" /\ setter.at = "idle" /\ ~callbackSet
  /\ callbackSet' = TRUE
  /\ UNCHANGED <<plugin, coalesce, audioQ, hostQ, sent, stopRequested, editor, setter,
                 handler, drain, edits>>

\* SetParam: setParamNormalized, then the push.
SetParam ==
  /\ handler = "live" /\ setter.at = "idle" /\ edits < MaxEdits
  /\ \E f \in Fire :
       /\ knob' = [knob EXCEPT ![f.id] = f.value]
       /\ setter' = [at |-> "push", fire |-> f]
  /\ edits' = edits + 1
  /\ UNCHANGED <<processor, coalesce, audioQ, hostQ, sent, stopRequested, callbackSet,
                 editor, handler, drain>>

SetParamPush ==
  /\ setter.at = "push"
  /\ PushPending(setter.fire)
  /\ setter' = NoCall
  /\ UNCHANGED <<plugin, coalesce, hostQ, sent, stopRequested, callbackSet, editor,
                 handler, drain, edits>>

\* TearDownActive drops the last reference: the destructor starts, once the
\* plugin can no longer call performEdit.
DestroyHandler ==
  /\ handler = "live" /\ setter.at = "idle" /\ editor.at = "idle"
  /\ handler' = "stopping"
  /\ stopRequested' = TRUE
  /\ UNCHANGED <<plugin, coalesce, audioQ, hostQ, sent, callbackSet, editor, setter,
                 drain, edits>>

\* queueCv_.notify_all(), without queueMutex_.
NotifyStop ==
  /\ handler = "stopping"
  /\ Notify
  /\ handler' = "joining"
  /\ UNCHANGED <<plugin, coalesce, audioQ, hostQ, sent, stopRequested, callbackSet,
                 editor, setter, edits>>

Join ==
  /\ handler = "joining"
  /\ drain = "exited"
  /\ handler' = "gone"
  /\ UNCHANGED <<plugin, coalesce, audioQ, hostQ, sent, stopRequested, callbackSet,
                 editor, setter, drain, edits>>

----------------------------------------------------------------------------
EditNext  == Coalesce \/ AudioQueuePush \/ Enqueue \/ NotifyDrain
DrainNext == DrainTest \/ DrainBlock \/ Dispatch

Next ==
  \/ TurnKnob \/ EditNext \/ WindowCloses
  \/ DrainNext \/ SpuriousWake
  \/ DrainPending
  \/ SetParamChangedCallback \/ SetParam \/ SetParamPush
  \/ DestroyHandler \/ NotifyStop \/ Join

(***************************************************************************)
(* Every thread that can run is scheduled, and the callback's send returns *)
(* (the host reads its control pipe).  Nothing obliges the operator to     *)
(* edit, the host to set, audio to flow, or the handler to be destroyed;   *)
(* and no spurious wake-up is relied on.                                   *)
(***************************************************************************)
Spec ==
  /\ Init /\ [][Next]_vars
  /\ WF_vars(EditNext) /\ WF_vars(DrainNext)
  /\ WF_vars(SetParamPush \/ NotifyStop \/ Join)

----------------------------------------------------------------------------
(* Properties. *)

\* Last write wins on the way to the host: the newest fire of a parameter is
\* the last of its fires in the queue; with none there, it is the one in
\* flight; with none there either, it is what the host was sent, unless it
\* was dropped for overflow or for want of a callback.
NewestFireWins ==
  \A p \in Param :
    fired[p] # None =>
      \/ Latest(queue, p, fired[p])
      \/ NoneOf(queue, p) /\ inFlight = [id |-> p, value |-> fired[p]]
      \/ NoneOf(queue, p) /\ shown[p] = fired[p]
      \/ p \in evicted \cup unheard

\* The same on the way to the processor, whichever thread pushed last.
NewestPushWins ==
  \A p \in Param :
    pushed[p] # None =>
      \/ Latest(pending, p, pushed[p])
      \/ NoneOf(pending, p) /\ processor[p] = pushed[p]
      \/ p \in lostPush

\* The drain thread ends with nothing undelivered: "On stop we dispatch
\* remaining queued fires (best-effort persistence) before joining".
ExitLeavesNothing == drain = "exited" => queue = <<>> /\ inFlight = None

\* No fire is stuck: while the drain thread sleeps, a fire in the queue has
\* its notification still to come.
SleepNeverStrands == drain = "waiting" /\ queue # <<>> => editor.at = "notify"

\* Every queued fire is dispatched, with no help from a spurious wake-up.
QueueDrains == queue # <<>> ~> queue = <<>>

\* The comment on the destructor: "Notify wakes a possibly-sleeping drain; the
\* thread joins after it finishes any in-flight cb_ call."
DestructorJoins == handler = "joining" ~> handler = "gone"

\* The comment on the coalesce window: "never losing the final resting value
\* (last-write wins on the trailing fire after the gate window)".  At rest,
\* with the window closed and every queue empty, the host has, to within the
\* smallest difference that counts, the value of each knob that was edited.
AtRest ==
  /\ editor.at = "idle" /\ setter.at = "idle" /\ queue = <<>> /\ inFlight = None
  /\ evicted = {} /\ unheard = {}
  /\ \A p \in Param : ~windowOpen[p]

FinalValueReachesHost ==
  AtRest => \A p \in Param : lastFire[p] # None => Near(shown[p], lastFire[p])
============================================================================
