---------------------------- MODULE PluginChain ----------------------------
(***************************************************************************)
(* The serial plugin chain (vst3/plugin_chain.cpp) and, under each slot,   *)
(* the life of the plugin it hosts (PluginHost, Vst2Plugin, ClapPlugin).   *)
(*                                                                         *)
(* Two threads.  The control thread loads, unloads, bypasses and enables;  *)
(* a load or an unload is a sequence of stores, and each store is a step.  *)
(* The audio thread walks the slots in Process, and each load of a shared  *)
(* variable is a step.  Nothing but the gate variables lies between them:  *)
(* chainMutex is never taken by Process.                                   *)
(*                                                                         *)
(* An object is a format host (a PluginHost, Vst2Plugin or ClapPlugin) and *)
(* the plugin it owns behind its atomic `active` pointer.  The three       *)
(* classes swap and tear down that pointer in the same way.                *)
(***************************************************************************)
EXTENDS Naturals, Sequences, FiniteSets

CONSTANTS
  LastSlot,    \* kMaxSlots - 1
  Format,      \* Vst3, Vst2, Clap
  Object,      \* format hosts the allocator can hand out
  None,        \* a null pointer
  Scribbled    \* a scratch buffer whose content means nothing

ASSUME ChainAssumption ==
  /\ LastSlot \in Nat
  /\ None \notin Object

Slots   == 0 .. LastSlot
Empty   == "empty"                    \* SlotFormat::Empty
Unknown == "unknown"                  \* a path DetectFormat does not recognise

ASSUME FormatAssumption == Empty \notin Format /\ Unknown \notin Format

VARIABLES
  (* what the control thread writes and Process reads *)
  enabled,     \* masterEnabled_
  bypass,      \* bypass_[s]
  loaded,      \* loaded_[s]
  format,      \* format_[s]
  host,        \* slotsVst3_[s], slotsVst2_[s], slotsClap_[s]: the unique_ptrs
  life,        \* of each object, see Life
  (* the control thread *)
  call,        \* the LoadSlot or UnloadSlot in progress
  (* the audio thread, its locals in Process *)
  audio,       \* where it stands
  slot,        \* i
  seen,        \* what it last read from the slot: a format, then a pointer
  cur,         \* the buffer cur points to: "in", or one of scratch
  which,       \* the scratch buffer to write next
  buffer,      \* what the scratch buffers hold
  (* history of the pass in progress *)
  applied,     \* slots whose plugin returned true, in order
  tried,       \* slots whose plugin was called
  alwaysOn,    \* slots loaded and not bypassed ever since the pass began
  neverLoaded, \* slots not loaded ever since
  alwaysBypassed

chain   == <<enabled, bypass, loaded, format, host, life>>
pass    == <<audio, slot, seen, cur, which, buffer, applied, tried>>
history == <<alwaysOn, neverLoaded, alwaysBypassed>>
vars    == <<chain, call, pass, history>>

(***************************************************************************)
(* An object is made, then running from the moment its plugin is published *)
(* in `active`; Unload withdraws the pointer, stops and terminates the     *)
(* plugin (TearDownActive), deletes it, and the chain frees the host.      *)
(***************************************************************************)
Life == {"unused", "made", "running", "withdrawn", "stopped", "deleted"}

\* The format host exists.  A freed object counts as unused.
HostAlive(o) == life[o] # "unused"

\* The plugin may be called: TearDownActive has not begun.
PluginAlive(o) == life[o] \in {"running", "withdrawn"}

CallSteps ==
  {"idle", "withdraw", "stop", "delete", "reset", "clear", "make", "load",
   "tag", "open", "undo"}
AudioSteps ==
  {"idle", "gate", "bypass", "format", "host", "enter", "inside", "deliver",
   "crashed"}
Scratch   == {"A", "B"}

\* The sequences of slots a pass can apply.
Results == {<<>>} \cup UNION {[1 .. n -> Slots] : n \in 1 .. LastSlot + 1}

ASSUME BufferAssumption == Scribbled \notin Results

TypeOK ==
  /\ enabled \in BOOLEAN
  /\ bypass \in [Slots -> BOOLEAN]
  /\ loaded \in [Slots -> BOOLEAN]
  /\ format \in [Slots -> Format \cup {Empty}]
  /\ host \in [Slots -> [Format -> Object \cup {None}]]
  /\ life \in [Object -> Life]
  /\ call \in [at : CallSteps, slot : Slots, kind : Format \cup {Empty, Unknown}]
  /\ audio \in AudioSteps
  /\ slot \in 0 .. LastSlot + 1
  /\ seen \in Format \cup {Empty, None} \cup Object
  /\ cur \in Scratch \cup {"in"}
  /\ which \in Scratch
  /\ buffer \in [Scratch -> Results \cup {Scribbled}]
  /\ applied \in Results
  /\ tried \subseteq Slots
  /\ alwaysOn \subseteq Slots
  /\ neverLoaded \subseteq Slots
  /\ alwaysBypassed \subseteq Slots

NoCall == [at |-> "idle", slot |-> 0, kind |-> Empty]

AudioRest ==
  /\ slot = 0 /\ seen = None /\ cur = "in" /\ which = "A"
  /\ buffer = [b \in Scratch |-> Scribbled]
  /\ applied = <<>> /\ tried = {}
  /\ alwaysOn = {} /\ neverLoaded = {} /\ alwaysBypassed = {}

Init ==
  /\ enabled = FALSE
  /\ bypass = [s \in Slots |-> FALSE]
  /\ loaded = [s \in Slots |-> FALSE]
  /\ format = [s \in Slots |-> Empty]
  /\ host = [s \in Slots |-> [f \in Format |-> None]]
  /\ life = [o \in Object |-> "unused"]
  /\ call = NoCall
  /\ audio = "idle"
  /\ AudioRest

----------------------------------------------------------------------------
(* The control thread. *)

\* The sidecar process is up: a call into a terminated plugin may end it.
Up == audio # "crashed"

\* A pass in progress remembers which slots have kept their state.
Note ==
  /\ alwaysOn' = {s \in alwaysOn : loaded'[s] /\ ~bypass'[s]}
  /\ neverLoaded' = {s \in neverLoaded : ~loaded'[s]}
  /\ alwaysBypassed' = {s \in alwaysBypassed : bypass'[s]}

SetSlotBypass ==
  /\ Up /\ call.at = "idle"
  /\ \E s \in Slots, on \in BOOLEAN :
       /\ bypass[s] # on
       /\ bypass' = [bypass EXCEPT ![s] = on]
  /\ UNCHANGED <<enabled, loaded, format, host, life, call, pass>>
  /\ Note

SetChainEnabled ==
  /\ Up /\ call.at = "idle"
  /\ enabled' = ~enabled
  /\ UNCHANGED <<bypass, loaded, format, host, life, call, pass, history>>

\* The object whose format the slot names.
Occupant(s) == IF format[s] = Empty THEN None ELSE host[s][format[s]]

\* Tear down what the slot holds, if anything, then clear its format.
StepAfterGate(s) == IF Occupant(s) = None THEN "clear" ELSE "withdraw"

\* Mutant of LoadSlot: the gate stays open.
LoadSlot_GateOpen ==
  /\ Up /\ call.at = "idle"
  /\ \E s \in Slots, kind \in Format \cup {Unknown} :
       call' = [at |-> StepAfterGate(s), slot |-> s, kind |-> kind]
  /\ UNCHANGED <<enabled, bypass, loaded, format, host, life, pass>>
  /\ Note

\* LoadSlot and UnloadSlot first close the slot's gate.
LoadSlot ==
  /\ Up /\ call.at = "idle"
  /\ \E s \in Slots, kind \in Format \cup {Unknown} :
       /\ loaded' = [loaded EXCEPT ![s] = FALSE]
       /\ call' = [at |-> StepAfterGate(s), slot |-> s, kind |-> kind]
  /\ UNCHANGED <<enabled, bypass, format, host, life, pass>>
  /\ Note

UnloadSlot ==
  /\ Up /\ call.at = "idle"
  /\ \E s \in Slots :
       /\ loaded' = [loaded EXCEPT ![s] = FALSE]
       /\ call' = [at |-> StepAfterGate(s), slot |-> s, kind |-> Empty]
  /\ UNCHANGED <<enabled, bypass, format, host, life, pass>>
  /\ Note

\* The next step of the call, on the object the slot holds.
CallStep(from, to) ==
  /\ Up
  /\ call.at = from
  /\ call' = IF to = "idle" THEN NoCall ELSE [call EXCEPT !.at = to]

Becomes(state) ==
  /\ life' = [life EXCEPT ![Occupant(call.slot)] = state]
  /\ UNCHANGED <<enabled, bypass, loaded, format, host, pass, history>>

\* Unload: active.exchange(nullptr), a fence, TearDownActive, delete.  The
\* fence orders the control thread's own accesses; it waits for nobody.
Withdraw == CallStep("withdraw", "stop") /\ Becomes("withdrawn")
TearDownActive == CallStep("stop", "delete") /\ Becomes("stopped")
DeleteActive == CallStep("delete", "reset") /\ Becomes("deleted")

\* unique_ptr::reset: the pointer is cleared, then the host is freed.
ResetHost ==
  /\ CallStep("reset", "clear")
  /\ host' = [host EXCEPT ![call.slot][format[call.slot]] = None]
  /\ life' = [life EXCEPT ![Occupant(call.slot)] = "unused"]
  /\ UNCHANGED <<enabled, bypass, loaded, format, pass, history>>

\* format_ is cleared.  UnloadSlot returns, and so does a load whose path no
\* format claims.
ClearFormat ==
  /\ CallStep("clear", IF call.kind \in Format THEN "make" ELSE "idle")
  /\ format' = [format EXCEPT ![call.slot] = Empty]
  /\ UNCHANGED <<enabled, bypass, loaded, host, life, pass, history>>

\* make_unique.  The allocator does not hand out memory the audio thread
\* holds a stale pointer to: reuse of an address is left out.
MakeHost ==
  /\ CallStep("make", "load")
  /\ \E o \in Object \ {seen} :
       /\ life[o] = "unused"
       /\ host' = [host EXCEPT ![call.slot][call.kind] = o]
       /\ life' = [life EXCEPT ![o] = "made"]
  /\ UNCHANGED <<enabled, bypass, loaded, format, pass, history>>

\* Load succeeds, publishing the plugin in `active`, or fails.
LoadPlugin ==
  /\ \/ CallStep("load", "tag")
        /\ life' = [life EXCEPT ![host[call.slot][call.kind]] = "running"]
     \/ CallStep("load", "undo")
        /\ UNCHANGED life
  /\ UNCHANGED <<enabled, bypass, loaded, format, host, pass, history>>

\* Mutant of UndoLoad: the host of a failed load is kept.
UndoLoad_Kept ==
  /\ CallStep("undo", "idle")
  /\ UNCHANGED <<enabled, bypass, loaded, format, host, life, pass, history>>

\* A failed load drops the host it made.
UndoLoad ==
  /\ CallStep("undo", "idle")
  /\ life' = [life EXCEPT ![host[call.slot][call.kind]] = "unused"]
  /\ host' = [host EXCEPT ![call.slot][call.kind] = None]
  /\ UNCHANGED <<enabled, bypass, loaded, format, pass, history>>

TagFormat ==
  /\ CallStep("tag", "open")
  /\ format' = [format EXCEPT ![call.slot] = call.kind]
  /\ UNCHANGED <<enabled, bypass, loaded, host, life, pass, history>>

OpenGate ==
  /\ CallStep("open", "idle")
  /\ loaded' = [loaded EXCEPT ![call.slot] = TRUE]
  /\ UNCHANGED <<enabled, bypass, format, host, life, pass>>
  /\ Note

----------------------------------------------------------------------------
(* The audio thread. *)

\* Process is called.  A disabled chain is one memcpy.
BeginPass ==
  /\ audio = "idle"
  /\ audio' = IF enabled THEN "gate" ELSE "deliver"
  /\ alwaysOn' = {s \in Slots : enabled /\ loaded[s] /\ ~bypass[s]}
  /\ neverLoaded' = {s \in Slots : enabled /\ ~loaded[s]}
  /\ alwaysBypassed' = {s \in Slots : enabled /\ bypass[s]}
  /\ UNCHANGED <<chain, call, slot, seen, cur, which, buffer, applied, tried>>

AudioStep(from, to) ==
  /\ audio = from
  /\ audio' = to
  /\ UNCHANGED <<chain, call, cur, which, buffer, applied, tried, history>>

\* The loop's next iteration.
NextSlot == slot' = slot + 1 /\ seen' = None

EndLoop ==
  /\ slot > LastSlot
  /\ AudioStep("gate", "deliver")
  /\ UNCHANGED <<slot, seen>>

\* Mutant of ReadLoaded: an unloaded slot ends the loop.
ReadLoaded_Breaks ==
  /\ slot <= LastSlot
  /\ \/ AudioStep("gate", "bypass")  /\ loaded[slot]  /\ UNCHANGED <<slot, seen>>
     \/ AudioStep("gate", "deliver") /\ ~loaded[slot] /\ NextSlot

ReadLoaded ==
  /\ slot <= LastSlot
  /\ \/ AudioStep("gate", "bypass") /\ loaded[slot]  /\ UNCHANGED <<slot, seen>>
     \/ AudioStep("gate", "gate")   /\ ~loaded[slot] /\ NextSlot

ReadBypass ==
  \/ AudioStep("bypass", "format") /\ ~bypass[slot] /\ UNCHANGED <<slot, seen>>
  \/ AudioStep("bypass", "gate")   /\ bypass[slot]  /\ NextSlot

ReadFormat ==
  \/ AudioStep("format", "host")
     /\ format[slot] # Empty /\ seen' = format[slot] /\ UNCHANGED slot
  \/ AudioStep("format", "gate") /\ format[slot] = Empty /\ NextSlot

ReadHost ==
  \/ AudioStep("host", "enter")
     /\ host[slot][seen] # None /\ seen' = host[slot][seen] /\ UNCHANGED slot
  \/ AudioStep("host", "gate") /\ host[slot][seen] = None /\ NextSlot

\* The format host's Process loads `active` and returns false on null.  On a
\* freed host the outcome is undefined.
EnterHost ==
  \/ /\ audio = "enter" /\ audio' = "inside"
     /\ life[seen] = "running"
     /\ tried' = tried \cup {slot}
     /\ buffer' = [buffer EXCEPT ![which] = Scribbled]
     /\ UNCHANGED <<chain, call, slot, seen, cur, which, applied, history>>
  \/ AudioStep("enter", "gate") /\ life[seen] # "running" /\ NextSlot
  \/ AudioStep("enter", "crashed") /\ ~HostAlive(seen) /\ UNCHANGED <<slot, seen>>

\* What the plugin writes to dst, given what cur holds.
Processed(content) ==
  IF content = Scribbled THEN Scribbled ELSE Append(content, slot)

Content(b) == IF b = "in" THEN <<>> ELSE buffer[b]

Other(b) == CHOOSE c \in Scratch : c # b

\* The plugin returns true: its output becomes the running buffer.
PluginDone ==
  /\ audio = "inside" /\ audio' = "gate"
  /\ buffer' = [buffer EXCEPT ![which] = Processed(Content(cur))]
  /\ cur' = which
  /\ which' = Other(which)
  /\ applied' = Append(applied, slot)
  /\ NextSlot
  /\ UNCHANGED <<chain, call, tried, history>>

\* Mutant of PluginRefused: the result is used whatever the plugin returned.
PluginRefused_Used ==
  /\ audio = "inside" /\ audio' = "gate"
  /\ cur' = which
  /\ which' = Other(which)
  /\ NextSlot
  /\ UNCHANGED <<chain, call, buffer, applied, tried, history>>

\* The plugin returns false, having written what it liked to dst.
PluginRefused == AudioStep("inside", "gate") /\ NextSlot

\* The plugin was terminated or deleted under the call: undefined, the calls
\* above being possible outcomes and this another.
PluginCrashed ==
  /\ AudioStep("inside", "crashed")
  /\ ~PluginAlive(seen)
  /\ UNCHANGED <<slot, seen>>

\* Mutant of Deliver: the next pass starts from what this one left.
Deliver_Unreset ==
  /\ audio = "deliver" /\ audio' = "idle"
  /\ slot' = 0 /\ seen' = None
  /\ UNCHANGED <<chain, call, cur, which, buffer, applied, tried, history>>

\* memcpy from cur to out (from in if no plugin was applied: cur is in then).
Deliver ==
  /\ audio = "deliver" /\ audio' = "idle"
  /\ slot' = 0 /\ seen' = None /\ cur' = "in" /\ which' = "A"
  /\ buffer' = [b \in Scratch |-> Scribbled]
  /\ applied' = <<>> /\ tried' = {}
  /\ alwaysOn' = {} /\ neverLoaded' = {} /\ alwaysBypassed' = {}
  /\ UNCHANGED <<chain, call>>

----------------------------------------------------------------------------
ControlNext ==
  \/ SetSlotBypass \/ SetChainEnabled \/ LoadSlot \/ UnloadSlot
  \/ Withdraw \/ TearDownActive \/ DeleteActive \/ ResetHost \/ ClearFormat
  \/ MakeHost \/ LoadPlugin \/ UndoLoad \/ TagFormat \/ OpenGate

AudioNext ==
  \/ BeginPass \/ EndLoop \/ ReadLoaded \/ ReadBypass \/ ReadFormat \/ ReadHost
  \/ EnterHost \/ PluginDone \/ PluginRefused \/ PluginCrashed \/ Deliver

Next == ControlNext \/ AudioNext

Spec == Init /\ [][Next]_vars

----------------------------------------------------------------------------
(* Properties. *)

\* A gate is open only over a complete slot: its format is set, the host of
\* that format exists, and its plugin is published.  Process relies on it:
\* "so the audio thread sees a coherent (format, populated-pointer) pair".
OpenSlotPopulated ==
  \A s \in Slots : loaded[s] =>
    /\ format[s] \in Format
    /\ host[s][format[s]] \in Object
    /\ life[host[s][format[s]]] = "running"

\* No call leaks a host or leaves one behind: between calls a slot has the
\* one host its gate and format announce, or none, and no other host exists.
NothingLeftBehind ==
  call.at = "idle" =>
    /\ \A s \in Slots, f \in Format : host[s][f] # None <=> loaded[s] /\ format[s] = f
    /\ \A s \in Slots : loaded[s] <=> format[s] # Empty
    /\ \A o \in Object : HostAlive(o) => \E s \in Slots, f \in Format : host[s][f] = o

\* What Process delivers is the input put through the plugins that returned
\* true, each once and in slot order, whatever a refusing plugin scribbled
\* and whatever the control thread did meanwhile.
OutputIsComposition == audio = "deliver" => Content(cur) = applied

\* Changes during a pass affect only the slots they change: one loaded and not
\* bypassed throughout is called, one never loaded or bypassed throughout is
\* not.  (No more than that: loaded_ and bypass_ are read one after the other,
\* and a slot that was bypassed at the first read and unloaded at the second
\* may be called while a reload is under way.)
SteadySlotsHonoured ==
  audio = "deliver" =>
    alwaysOn \subseteq tried /\ tried \cap (neverLoaded \cup alwaysBypassed) = {}

\* plugin_host.cpp on Unload: it "drops the previous Active* AFTER an
\* atomic_thread_fence so the audio thread cannot still be inside Process()
\* when destruction starts".
NotInsideDestroyed == audio = "inside" => PluginAlive(seen)
============================================================================
