------------------------- MODULE HostedPluginProofs -------------------------
(***************************************************************************)
(* Proofs about HostedPlugin: what is held of the plugin in a slot, the    *)
(* round of the GUI thread, and the two together.                          *)
(*                                                                         *)
(* The releases of PluginLife are driven by lists.  What makes a list safe *)
(* is its order (Ordered): whatever builds on an entry is itself an entry  *)
(* before it, or is not held.  Taking the head off keeps that, so it need  *)
(* be shown only where a list is started, from the tables and from what    *)
(* can be held there.                                                      *)
(***************************************************************************)
EXTENDS HostedPlugin, SequenceTheorems, TLAPS

----------------------------------------------------------------------------
(* The invariant: what is held. *)

\* What an editor takes: Surface of it with its window.
Surface == {"window", "frame", "attached", "embedded", "shown"}
EditorParts == Surface \cup {"view", "gui"}

\* What a load that failed may leave (ControllerLeft).
Forgotten == {"connected", "controllerInit"}

Entries(list) == {list[i] : i \in 1..Len(list)}

\* Of the resources R, those that build on an entry of the list precede it.
Ordered(p, list, R) ==
  \A r \in R, i \in 1..Len(list) :
    list[i] \in Needs(p, r) => \E j \in 1..(i - 1) : list[j] = r

\* What the steps of a load before the k-th take.
TakenBefore(steps, k) == {steps[i].takes : i \in 1..(k - 1)}

\* What may be held of a plugin that is loaded.
Own(p) ==
  Entries(Teardown[p.format]) \cup {"window", "frame"}
    \cup (IF p.format = "vst3" THEN {"attached"} ELSE {})

\* Which places of the two threads go together.
PhaseInv ==
  /\ gui.at \in {"attaching", "undoing"} => control.at = "showing"
  /\ gui.at = "reply" => control.at \in {"showing", "hiding"}
  /\ gui.at \in {"detaching", "callback"} => control.at \in {"idle", "hiding"}
  /\ gui.at = "detaching" /\ gui.answer => control.at = "hiding"
  /\ gui.answer => gui.at \in {"detaching", "reply"} /\ loaded
  /\ gui.at \notin {"idle", "reply"} => loaded
  /\ control.at \in {"loading", "failing"} => ~loaded
  /\ control.at \in {"showing", "refused", "release"} => loaded
  /\ control.at = "failing" => failed
  /\ loaded \/ control.at = "loading" => ~failed

LoadingInv ==
  control.at = "loading" =>
    /\ control.step \in 1..(Len(LoadSteps[plugin.format]) + 1)
    /\ held \subseteq TakenBefore(LoadSteps[plugin.format], control.step)

FailingInv ==
  control.at = "failing" =>
    /\ held \subseteq Entries(control.todo) \cup Forgotten
    /\ Ordered(plugin, control.todo, held \ Forgotten)

EmptyInv ==
  ~loaded /\ control.at \in {"idle", "hiding", "teardown"} =>
    /\ held \subseteq ControllerLeft
    /\ control.at = "teardown" => control.todo = <<>>

LoadedInv == loaded => held \subseteq Own(plugin)

TeardownInv ==
  control.at = "teardown" /\ loaded =>
    /\ held \subseteq Entries(control.todo)
    /\ Ordered(plugin, control.todo, held)

\* The lists the control thread works through after an answer.
ReleaseInv ==
  /\ control.at \in {"release", "refused"} => held \intersect EditorParts \subseteq Entries(control.todo)
  /\ control.at = "release" => Ordered(plugin, control.todo, held)
  /\ control.at = "refused" => Ordered(plugin, control.todo, held \ {"embedded"})

\* The editor, by where the GUI thread is.
EditorInv ==
  /\ ~loaded => held \intersect EditorParts = {}
  /\ "window" \in held \/ control.at = "showing" => "view" \in held
  /\ control.at \in {"release", "teardown"} => held \intersect Surface = {}
  /\ control.at = "refused" => held \intersect Surface \subseteq {"embedded"}
  /\ gui.at = "idle" /\ "window" \notin held /\ control.at = "showing" =>
       held \intersect Surface = {}
  /\ gui.at = "idle" /\ "window" \notin held /\ control.at \in {"idle", "hiding"} =>
       held \intersect EditorParts = {}

AttachInv ==
  /\ gui.at = "attaching" =>
       /\ gui.step \in 1..(Len(AttachSteps[plugin.format]) + 1)
       /\ gui.step > 1 => "window" \in held
       /\ held \intersect Surface \subseteq TakenBefore(AttachSteps[plugin.format], gui.step)
  /\ gui.at \in {"undoing", "detaching"} => "view" \notin Entries(gui.todo)
  /\ gui.at = "undoing" =>
       /\ held \intersect Surface \subseteq Entries(gui.todo) \cup {"embedded"}
       /\ Ordered(plugin, gui.todo, held \ {"embedded"})
  /\ gui.at = "detaching" =>
       /\ held \intersect Surface \subseteq Entries(gui.todo)
       /\ Ordered(plugin, gui.todo, held)
  /\ gui.at = "callback" =>
       /\ held \intersect Surface = {}
       /\ held \intersect EditorParts \subseteq Entries(gui.todo)
       /\ Ordered(plugin, gui.todo, held)

ReplyInv ==
  gui.at = "reply" =>
    /\ control.at = "showing" /\ gui.answer => "window" \in held
    /\ control.at = "showing" /\ ~gui.answer => held \intersect Surface \subseteq {"embedded"}
    /\ control.at = "hiding" => held \intersect Surface = {}
    /\ control.at = "hiding" /\ ~gui.answer => held \intersect EditorParts = {}

LifeInv ==
  /\ PhaseInv /\ LoadingInv /\ FailingInv /\ EmptyInv /\ LoadedInv /\ TeardownInv
  /\ ReleaseInv /\ EditorInv /\ AttachInv /\ ReplyInv /\ Bracketed

----------------------------------------------------------------------------
(* The invariant: the round. *)

\* The view agrees with what EditorWindow keeps, and the last event under way
\* brings the size of the window.
SizeInv ==
  open # None =>
    /\ size.width = size.view
    /\ size.x = IF notices = <<>> THEN size.width ELSE notices[Len(notices)]

\* Where there is a list of callbacks, and what may have become of a
\* registration since it was made.
RoundInv ==
  /\ round.at # "top" => open # None
  /\ round.call # NoCall => round.at # "top"
  /\ round.todo # {} => round.at \in {"fire", "dispatch"}
  /\ round.at = "fire" =>
       \A c \in round.todo : c.kind = "timer" /\ (c.id \in timers \/ c.id \in changed)
  /\ round.at = "dispatch" =>
       \A c \in round.todo : c.kind = "fd" /\ (fds[c.id] = c.to \/ c.id \in changed)

\* An editor is open while its window is there and no request is under way
\* that opens or closes it.
OpenInv ==
  /\ open # None =>
       /\ gui.at \in {"idle", "reply"}
       /\ loaded /\ "window" \in held
  /\ gui.at # "idle" => round.at = "top"

\* Whose answer the GUI thread is about to give, and where the end of main finds
\* it, after a lapse as well.
RequestInv ==
  /\ Handling => ~Queued /\ (control.at \in {"showing", "hiding"} \/ late = "handled")
  /\ gui.at \in {"attaching", "undoing"} => control.at = "showing" \/ late = "handled"
  /\ gui.at \in {"detaching", "callback"} => open = None
  /\ gui.at = "reply" /\ control.at = "hiding" => open = None \/ late = "handled"
  /\ control.at = "teardown" /\ control.command = "quit" =>
       gui.at = "idle" /\ open = None /\ ~Queued

\* What is held is known until a request lapses; the round keeps its own ways.
IInv ==
  /\ TypeOK /\ SizeInv /\ KnobNeverStranded /\ RoundInv /\ RequestInv
  /\ ~Lapsed => LifeInv /\ OpenInv

----------------------------------------------------------------------------
(* The tables: each list is in order for what can be held where it starts, *)
(* and names all that has to go.                                           *)

\* A step that succeeds adds what it takes.
LEMMA OneMoreTaken ==
  ASSUME NEW steps, NEW k \in Nat \ {0}
  PROVE  TakenBefore(steps, k + 1) = TakenBefore(steps, k) \cup {steps[k].takes}
<1>1. (k + 1) - 1 = k
  OBVIOUS
<1>2. \A i : i \in 1..k <=> i \in 1..(k - 1) \/ i = k
  OBVIOUS
<1>3. TakenBefore(steps, k + 1) = {steps[i].takes : i \in 1..k}
  BY <1>1 DEF TakenBefore
<1>4. TakenBefore(steps, k) = {steps[i].takes : i \in 1..(k - 1)}
  BY DEF TakenBefore
<1>5. ASSUME NEW r
      PROVE  r \in TakenBefore(steps, k + 1)
               <=> r \in TakenBefore(steps, k) \cup {steps[k].takes}
  BY <1>2, <1>3, <1>4, Zenon
<1>   QED  BY <1>5, Zenon

\* What a step of a load takes, drops and undoes fits what those before took.
StepFits(p, step, before) ==
  /\ step.takes \in Own(p) \ EditorParts
  /\ step.undo \in Seq(Resource)
  /\ \A r \in before : Needs(p, r) \intersect step.drops = {}
  /\ step.fails =>
       /\ before \subseteq Entries(step.undo) \cup Forgotten
       /\ Ordered(p, step.undo, before \ Forgotten)

\* The same for a step of an attach, beside the plugin.
AttachFits(p, step, before) ==
  /\ step.takes \in Own(p) \intersect Surface
  /\ step.undo \in Seq(Resource) /\ "view" \notin Entries(step.undo)
  /\ before = {} => step.takes = "window" /\ ~step.optional
  /\ step.fails =>
       /\ before \subseteq Entries(step.undo) \cup {"embedded"}
       /\ Ordered(p, step.undo, ((Own(p) \ Surface) \cup before) \ {"embedded"})

\* Vst2Plugin::Load.
LEMMA Vst2LoadTable ==
  ASSUME NEW p \in Plugin, p.format = "vst2", NEW k \in 1..Len(LoadSteps[p.format])
  PROVE  StepFits(p, LoadSteps[p.format][k], TakenBefore(LoadSteps[p.format], k))
<1> DEFINE steps == LoadSteps[p.format]
<1>1. Len(steps) = 4
  BY DEF LoadSteps, Vst2Load
<1>2. /\ steps[1] = Must("module", <<>>)
      /\ steps[2] = Must("plugin", <<"module">>)
      /\ steps[3] = Always("active")
      /\ steps[4] = Always("processing")
  BY DEF LoadSteps, Vst2Load
<1>3. /\ steps[1].takes = "module"
      /\ steps[2].takes = "plugin"
      /\ steps[3].takes = "active"
      /\ steps[4].takes = "processing"
  BY <1>2 DEF Must, Always, Optional
<1>   HIDE DEF steps
<1>4. /\ TakenBefore(steps, 1) = {}
      /\ TakenBefore(steps, 2) = {"module"}
      /\ TakenBefore(steps, 3) = {"module", "plugin"}
      /\ TakenBefore(steps, 4) = {"module", "plugin", "active"}
  <2>0. \A j \in Nat \ {0} : TakenBefore(steps, j + 1) = TakenBefore(steps, j) \cup {steps[j].takes}
    BY OneMoreTaken
  <2>1. TakenBefore(steps, 1) = {}
    BY DEF TakenBefore
  <2>2. TakenBefore(steps, 2) = TakenBefore(steps, 1) \cup {steps[1].takes}
    BY <2>0, 1 + 1 = 2
  <2>3. TakenBefore(steps, 3) = TakenBefore(steps, 2) \cup {steps[2].takes}
    BY <2>0, 2 + 1 = 3
  <2>4. TakenBefore(steps, 4) = TakenBefore(steps, 3) \cup {steps[3].takes}
    BY <2>0, 3 + 1 = 4
  <2>   QED  BY <1>3, <2>1, <2>2, <2>3, <2>4
<1>5. StepFits(p, Must("module", <<>>), {})
  BY DEF StepFits, Own, Teardown, EditorParts, Surface, Resource, Entries, Ordered, Needs, Forgotten, Must, Always, Optional
<1>6. StepFits(p, Must("plugin", <<"module">>), {"module"})
  BY DEF StepFits, Own, Teardown, EditorParts, Surface, Resource, Entries, Ordered, Needs, Forgotten, Must, Always, Optional
<1>7. StepFits(p, Always("active"), {"module", "plugin"})
  BY DEF StepFits, Own, Teardown, EditorParts, Surface, Resource, Entries, Ordered, Needs, Forgotten, Must, Always, Optional
<1>8. StepFits(p, Always("processing"), {"module", "plugin", "active"})
  BY DEF StepFits, Own, Teardown, EditorParts, Surface, Resource, Entries, Ordered, Needs, Forgotten, Must, Always, Optional
<1>9. k \in 1..4
  BY <1>1 DEF steps
<1>10. StepFits(p, steps[k], TakenBefore(steps, k))
  <2>1. CASE k = 1
    BY <2>1, <1>2, <1>4, <1>5
  <2>2. CASE k = 2
    BY <2>2, <1>2, <1>4, <1>6
  <2>3. CASE k = 3
    BY <2>3, <1>2, <1>4, <1>7
  <2>4. CASE k = 4
    BY <2>4, <1>2, <1>4, <1>8
  <2>   QED  BY <1>9, <2>1, <2>2, <2>3, <2>4
<1>   QED  BY <1>10 DEF steps

\* ClapPlugin::Load.
LEMMA ClapLoadTable ==
  ASSUME NEW p \in Plugin, p.format = "clap", NEW k \in 1..Len(LoadSteps[p.format])
  PROVE  StepFits(p, LoadSteps[p.format][k], TakenBefore(LoadSteps[p.format], k))
<1> DEFINE steps == LoadSteps[p.format]
<1>1. Len(steps) = 5
  BY DEF LoadSteps, ClapLoad
<1>2. /\ steps[1] = Must("module", <<>>)
      /\ steps[2] = Must("entry", <<"module">>)
      /\ steps[3] = Must("plugin", <<"entry", "module">>)
      /\ steps[4] = Must("active", <<"plugin", "entry", "module">>)
      /\ steps[5] = Must("processing", <<"active", "plugin", "entry", "module">>)
  BY DEF LoadSteps, ClapLoad
<1>3. /\ steps[1].takes = "module"
      /\ steps[2].takes = "entry"
      /\ steps[3].takes = "plugin"
      /\ steps[4].takes = "active"
      /\ steps[5].takes = "processing"
  BY <1>2 DEF Must, Always, Optional
<1>   HIDE DEF steps
<1>4. /\ TakenBefore(steps, 1) = {}
      /\ TakenBefore(steps, 2) = {"module"}
      /\ TakenBefore(steps, 3) = {"module", "entry"}
      /\ TakenBefore(steps, 4) = {"module", "entry", "plugin"}
      /\ TakenBefore(steps, 5) = {"module", "entry", "plugin", "active"}
  <2>0. \A j \in Nat \ {0} : TakenBefore(steps, j + 1) = TakenBefore(steps, j) \cup {steps[j].takes}
    BY OneMoreTaken
  <2>1. TakenBefore(steps, 1) = {}
    BY DEF TakenBefore
  <2>2. TakenBefore(steps, 2) = TakenBefore(steps, 1) \cup {steps[1].takes}
    BY <2>0, 1 + 1 = 2
  <2>3. TakenBefore(steps, 3) = TakenBefore(steps, 2) \cup {steps[2].takes}
    BY <2>0, 2 + 1 = 3
  <2>4. TakenBefore(steps, 4) = TakenBefore(steps, 3) \cup {steps[3].takes}
    BY <2>0, 3 + 1 = 4
  <2>5. TakenBefore(steps, 5) = TakenBefore(steps, 4) \cup {steps[4].takes}
    BY <2>0, 4 + 1 = 5
  <2>   QED  BY <1>3, <2>1, <2>2, <2>3, <2>4, <2>5
<1>5. StepFits(p, Must("module", <<>>), {})
  BY DEF StepFits, Own, Teardown, EditorParts, Surface, Resource, Entries, Ordered, Needs, Forgotten, Must, Always, Optional
<1>6. StepFits(p, Must("entry", <<"module">>), {"module"})
  BY DEF StepFits, Own, Teardown, EditorParts, Surface, Resource, Entries, Ordered, Needs, Forgotten, Must, Always, Optional
<1>7. StepFits(p, Must("plugin", <<"entry", "module">>), {"module", "entry"})
  BY DEF StepFits, Own, Teardown, EditorParts, Surface, Resource, Entries, Ordered, Needs, Forgotten, Must, Always, Optional
<1>8. StepFits(p, Must("active", <<"plugin", "entry", "module">>), {"module", "entry", "plugin"})
  BY DEF StepFits, Own, Teardown, EditorParts, Surface, Resource, Entries, Ordered, Needs, Forgotten, Must, Always, Optional
<1>9. StepFits(p, Must("processing", <<"active", "plugin", "entry", "module">>), {"module", "entry", "plugin", "active"})
  BY DEF StepFits, Own, Teardown, EditorParts, Surface, Resource, Entries, Ordered, Needs, Forgotten, Must, Always, Optional
<1>10. k \in 1..5
  BY <1>1 DEF steps
<1>11. StepFits(p, steps[k], TakenBefore(steps, k))
  <2>1. CASE k = 1
    BY <2>1, <1>2, <1>4, <1>5
  <2>2. CASE k = 2
    BY <2>2, <1>2, <1>4, <1>6
  <2>3. CASE k = 3
    BY <2>3, <1>2, <1>4, <1>7
  <2>4. CASE k = 4
    BY <2>4, <1>2, <1>4, <1>8
  <2>5. CASE k = 5
    BY <2>5, <1>2, <1>4, <1>9
  <2>   QED  BY <1>10, <2>1, <2>2, <2>3, <2>4, <2>5
<1>   QED  BY <1>11 DEF steps

\* PluginHost::Load and InstantiateAndActivate.
LEMMA Vst3LoadTable ==
  ASSUME NEW p \in Plugin, p.format = "vst3", NEW k \in 1..Len(LoadSteps[p.format])
  PROVE  StepFits(p, LoadSteps[p.format][k], TakenBefore(LoadSteps[p.format], k))
<1> DEFINE steps == LoadSteps[p.format]
<1>1. Len(steps) = 10
  BY DEF LoadSteps, Vst3Load
<1>2. /\ steps[1] = Must("module", <<>>)
      /\ steps[2] = Must("component", <<"module">>)
      /\ steps[3] = Must("initialized", <<"component", "module">>)
      /\ steps[4] = Must("processor", <<"initialized", "component", "module">>)
      /\ steps[5] = Optional("controller", {})
      /\ steps[6] = Optional("controllerInit", {"controller"})
      /\ steps[7] = Optional("connected", {})
      /\ steps[8] = Must("active", <<"initialized", "processor", "component", "controller", "module">>)
      /\ steps[9] = Must("processing", <<"active", "initialized", "processor", "component", "controller", "module">>)
      /\ steps[10] = Always("handler")
  BY DEF LoadSteps, Vst3Load
<1>3. /\ steps[1].takes = "module"
      /\ steps[2].takes = "component"
      /\ steps[3].takes = "initialized"
      /\ steps[4].takes = "processor"
      /\ steps[5].takes = "controller"
      /\ steps[6].takes = "controllerInit"
      /\ steps[7].takes = "connected"
      /\ steps[8].takes = "active"
      /\ steps[9].takes = "processing"
      /\ steps[10].takes = "handler"
  BY <1>2 DEF Must, Always, Optional
<1>   HIDE DEF steps
<1>4. /\ TakenBefore(steps, 1) = {}
      /\ TakenBefore(steps, 2) = {"module"}
      /\ TakenBefore(steps, 3) = {"module", "component"}
      /\ TakenBefore(steps, 4) = {"module", "component", "initialized"}
      /\ TakenBefore(steps, 5) = {"module", "component", "initialized", "processor"}
      /\ TakenBefore(steps, 6) = {"module", "component", "initialized", "processor", "controller"}
      /\ TakenBefore(steps, 7) = {"module", "component", "initialized", "processor", "controller", "controllerInit"}
      /\ TakenBefore(steps, 8) = {"module", "component", "initialized", "processor", "controller", "controllerInit", "connected"}
      /\ TakenBefore(steps, 9) = {"module", "component", "initialized", "processor", "controller", "controllerInit", "connected", "active"}
      /\ TakenBefore(steps, 10) = {"module", "component", "initialized", "processor", "controller", "controllerInit", "connected", "active", "processing"}
  <2>0. \A j \in Nat \ {0} : TakenBefore(steps, j + 1) = TakenBefore(steps, j) \cup {steps[j].takes}
    BY OneMoreTaken
  <2>1. TakenBefore(steps, 1) = {}
    BY DEF TakenBefore
  <2>2. TakenBefore(steps, 2) = TakenBefore(steps, 1) \cup {steps[1].takes}
    BY <2>0, 1 + 1 = 2
  <2>3. TakenBefore(steps, 3) = TakenBefore(steps, 2) \cup {steps[2].takes}
    BY <2>0, 2 + 1 = 3
  <2>4. TakenBefore(steps, 4) = TakenBefore(steps, 3) \cup {steps[3].takes}
    BY <2>0, 3 + 1 = 4
  <2>5. TakenBefore(steps, 5) = TakenBefore(steps, 4) \cup {steps[4].takes}
    BY <2>0, 4 + 1 = 5
  <2>6. TakenBefore(steps, 6) = TakenBefore(steps, 5) \cup {steps[5].takes}
    BY <2>0, 5 + 1 = 6
  <2>7. TakenBefore(steps, 7) = TakenBefore(steps, 6) \cup {steps[6].takes}
    BY <2>0, 6 + 1 = 7
  <2>8. TakenBefore(steps, 8) = TakenBefore(steps, 7) \cup {steps[7].takes}
    BY <2>0, 7 + 1 = 8
  <2>9. TakenBefore(steps, 9) = TakenBefore(steps, 8) \cup {steps[8].takes}
    BY <2>0, 8 + 1 = 9
  <2>10. TakenBefore(steps, 10) = TakenBefore(steps, 9) \cup {steps[9].takes}
    BY <2>0, 9 + 1 = 10
  <2>   QED  BY <1>3, <2>1, <2>2, <2>3, <2>4, <2>5, <2>6, <2>7, <2>8, <2>9, <2>10
<1>5. StepFits(p, Must("module", <<>>), {})
  BY DEF StepFits, Own, Teardown, EditorParts, Surface, Resource, Entries, Ordered, Needs, Forgotten, Must, Always, Optional
<1>6. StepFits(p, Must("component", <<"module">>), {"module"})
  BY DEF StepFits, Own, Teardown, EditorParts, Surface, Resource, Entries, Ordered, Needs, Forgotten, Must, Always, Optional
<1>7. StepFits(p, Must("initialized", <<"component", "module">>), {"module", "component"})
  BY DEF StepFits, Own, Teardown, EditorParts, Surface, Resource, Entries, Ordered, Needs, Forgotten, Must, Always, Optional
<1>8. StepFits(p, Must("processor", <<"initialized", "component", "module">>), {"module", "component", "initialized"})
  BY DEF StepFits, Own, Teardown, EditorParts, Surface, Resource, Entries, Ordered, Needs, Forgotten, Must, Always, Optional
<1>9. StepFits(p, Optional("controller", {}), {"module", "component", "initialized", "processor"})
  BY DEF StepFits, Own, Teardown, EditorParts, Surface, Resource, Entries, Ordered, Needs, Forgotten, Must, Always, Optional
<1>10. StepFits(p, Optional("controllerInit", {"controller"}), {"module", "component", "initialized", "processor", "controller"})
  BY DEF StepFits, Own, Teardown, EditorParts, Surface, Resource, Entries, Ordered, Needs, Forgotten, Must, Always, Optional
<1>11. StepFits(p, Optional("connected", {}), {"module", "component", "initialized", "processor", "controller", "controllerInit"})
  BY DEF StepFits, Own, Teardown, EditorParts, Surface, Resource, Entries, Ordered, Needs, Forgotten, Must, Always, Optional
<1>12. StepFits(p, Must("active", <<"initialized", "processor", "component", "controller", "module">>), {"module", "component", "initialized", "processor", "controller", "controllerInit", "connected"})
  BY DEF StepFits, Own, Teardown, EditorParts, Surface, Resource, Entries, Ordered, Needs, Forgotten, Must, Always, Optional
<1>13. StepFits(p, Must("processing", <<"active", "initialized", "processor", "component", "controller", "module">>), {"module", "component", "initialized", "processor", "controller", "controllerInit", "connected", "active"})
  BY DEF StepFits, Own, Teardown, EditorParts, Surface, Resource, Entries, Ordered, Needs, Forgotten, Must, Always, Optional
<1>14. StepFits(p, Always("handler"), {"module", "component", "initialized", "processor", "controller", "controllerInit", "connected", "active", "processing"})
  BY DEF StepFits, Own, Teardown, EditorParts, Surface, Resource, Entries, Ordered, Needs, Forgotten, Must, Always, Optional
<1>15. k \in 1..10
  BY <1>1 DEF steps
<1>16. StepFits(p, steps[k], TakenBefore(steps, k))
  <2>1. CASE k = 1
    BY <2>1, <1>2, <1>4, <1>5
  <2>2. CASE k = 2
    BY <2>2, <1>2, <1>4, <1>6
  <2>3. CASE k = 3
    BY <2>3, <1>2, <1>4, <1>7
  <2>4. CASE k = 4
    BY <2>4, <1>2, <1>4, <1>8
  <2>5. CASE k = 5
    BY <2>5, <1>2, <1>4, <1>9
  <2>6. CASE k = 6
    BY <2>6, <1>2, <1>4, <1>10
  <2>7. CASE k = 7
    BY <2>7, <1>2, <1>4, <1>11
  <2>8. CASE k = 8
    BY <2>8, <1>2, <1>4, <1>12
  <2>9. CASE k = 9
    BY <2>9, <1>2, <1>4, <1>13
  <2>10. CASE k = 10
    BY <2>10, <1>2, <1>4, <1>14
  <2>   QED  BY <1>15, <2>1, <2>2, <2>3, <2>4, <2>5, <2>6, <2>7, <2>8, <2>9, <2>10
<1>   QED  BY <1>16 DEF steps

\* EditorWindow::Attach of a VST2 view.
LEMMA Vst2AttachTable ==
  ASSUME NEW p \in Plugin, p.format = "vst2", NEW k \in 1..Len(AttachSteps[p.format])
  PROVE  AttachFits(p, AttachSteps[p.format][k], TakenBefore(AttachSteps[p.format], k))
<1> DEFINE steps == AttachSteps[p.format]
<1>1. Len(steps) = 3
  BY DEF AttachSteps
<1>2. /\ steps[1] = Must("window", <<>>)
      /\ steps[2] = Always("frame")
      /\ steps[3] = Must("attached", WindowUndo)
  BY DEF AttachSteps
<1>3. /\ steps[1].takes = "window"
      /\ steps[2].takes = "frame"
      /\ steps[3].takes = "attached"
  BY <1>2 DEF Must, Always, May
<1>   HIDE DEF steps
<1>4. /\ TakenBefore(steps, 1) = {}
      /\ TakenBefore(steps, 2) = {"window"}
      /\ TakenBefore(steps, 3) = {"window", "frame"}
  <2>0. \A j \in Nat \ {0} : TakenBefore(steps, j + 1) = TakenBefore(steps, j) \cup {steps[j].takes}
    BY OneMoreTaken
  <2>1. TakenBefore(steps, 1) = {}
    BY DEF TakenBefore
  <2>2. TakenBefore(steps, 2) = TakenBefore(steps, 1) \cup {steps[1].takes}
    BY <2>0, 1 + 1 = 2
  <2>3. TakenBefore(steps, 3) = TakenBefore(steps, 2) \cup {steps[2].takes}
    BY <2>0, 2 + 1 = 3
  <2>   QED  BY <1>3, <2>1, <2>2, <2>3
<1>5. AttachFits(p, Must("window", <<>>), {})
  BY DEF AttachFits, Own, Teardown, Surface, Resource, Entries, Ordered, Needs, WindowUndo, Must, Always, May
<1>6. AttachFits(p, Always("frame"), {"window"})
  BY DEF AttachFits, Own, Teardown, Surface, Resource, Entries, Ordered, Needs, WindowUndo, Must, Always, May
<1>7. AttachFits(p, Must("attached", WindowUndo), {"window", "frame"})
  BY DEF AttachFits, Own, Teardown, Surface, Resource, Entries, Ordered, Needs, WindowUndo, Must, Always, May
<1>8. k \in 1..3
  BY <1>1 DEF steps
<1>9. AttachFits(p, steps[k], TakenBefore(steps, k))
  <2>1. CASE k = 1
    BY <2>1, <1>2, <1>4, <1>5
  <2>2. CASE k = 2
    BY <2>2, <1>2, <1>4, <1>6
  <2>3. CASE k = 3
    BY <2>3, <1>2, <1>4, <1>7
  <2>   QED  BY <1>8, <2>1, <2>2, <2>3
<1>   QED  BY <1>9 DEF steps

\* Of a CLAP view.
LEMMA ClapAttachTable ==
  ASSUME NEW p \in Plugin, p.format = "clap", NEW k \in 1..Len(AttachSteps[p.format])
  PROVE  AttachFits(p, AttachSteps[p.format][k], TakenBefore(AttachSteps[p.format], k))
<1> DEFINE steps == AttachSteps[p.format]
<1>1. Len(steps) = 4
  BY DEF AttachSteps
<1>2. /\ steps[1] = Must("window", <<>>)
      /\ steps[2] = Always("frame")
      /\ steps[3] = Must("embedded", WindowUndo)
      /\ steps[4] = May("shown", WindowUndo)
  BY DEF AttachSteps
<1>3. /\ steps[1].takes = "window"
      /\ steps[2].takes = "frame"
      /\ steps[3].takes = "embedded"
      /\ steps[4].takes = "shown"
  BY <1>2 DEF Must, Always, May
<1>   HIDE DEF steps
<1>4. /\ TakenBefore(steps, 1) = {}
      /\ TakenBefore(steps, 2) = {"window"}
      /\ TakenBefore(steps, 3) = {"window", "frame"}
      /\ TakenBefore(steps, 4) = {"window", "frame", "embedded"}
  <2>0. \A j \in Nat \ {0} : TakenBefore(steps, j + 1) = TakenBefore(steps, j) \cup {steps[j].takes}
    BY OneMoreTaken
  <2>1. TakenBefore(steps, 1) = {}
    BY DEF TakenBefore
  <2>2. TakenBefore(steps, 2) = TakenBefore(steps, 1) \cup {steps[1].takes}
    BY <2>0, 1 + 1 = 2
  <2>3. TakenBefore(steps, 3) = TakenBefore(steps, 2) \cup {steps[2].takes}
    BY <2>0, 2 + 1 = 3
  <2>4. TakenBefore(steps, 4) = TakenBefore(steps, 3) \cup {steps[3].takes}
    BY <2>0, 3 + 1 = 4
  <2>   QED  BY <1>3, <2>1, <2>2, <2>3, <2>4
<1>5. AttachFits(p, Must("window", <<>>), {})
  BY DEF AttachFits, Own, Teardown, Surface, Resource, Entries, Ordered, Needs, WindowUndo, Must, Always, May
<1>6. AttachFits(p, Always("frame"), {"window"})
  BY DEF AttachFits, Own, Teardown, Surface, Resource, Entries, Ordered, Needs, WindowUndo, Must, Always, May
<1>7. AttachFits(p, Must("embedded", WindowUndo), {"window", "frame"})
  BY DEF AttachFits, Own, Teardown, Surface, Resource, Entries, Ordered, Needs, WindowUndo, Must, Always, May
<1>8. AttachFits(p, May("shown", WindowUndo), {"window", "frame", "embedded"})
  BY DEF AttachFits, Own, Teardown, Surface, Resource, Entries, Ordered, Needs, WindowUndo, Must, Always, May
<1>9. k \in 1..4
  BY <1>1 DEF steps
<1>10. AttachFits(p, steps[k], TakenBefore(steps, k))
  <2>1. CASE k = 1
    BY <2>1, <1>2, <1>4, <1>5
  <2>2. CASE k = 2
    BY <2>2, <1>2, <1>4, <1>6
  <2>3. CASE k = 3
    BY <2>3, <1>2, <1>4, <1>7
  <2>4. CASE k = 4
    BY <2>4, <1>2, <1>4, <1>8
  <2>   QED  BY <1>9, <2>1, <2>2, <2>3, <2>4
<1>   QED  BY <1>10 DEF steps

\* Of a VST3 view.
LEMMA Vst3AttachTable ==
  ASSUME NEW p \in Plugin, p.format = "vst3", NEW k \in 1..Len(AttachSteps[p.format])
  PROVE  AttachFits(p, AttachSteps[p.format][k], TakenBefore(AttachSteps[p.format], k))
<1> DEFINE steps == AttachSteps[p.format]
<1>1. Len(steps) = 3
  BY DEF AttachSteps
<1>2. /\ steps[1] = Must("window", <<>>)
      /\ steps[2] = Always("frame")
      /\ steps[3] = Must("attached", WindowUndo)
  BY DEF AttachSteps
<1>3. /\ steps[1].takes = "window"
      /\ steps[2].takes = "frame"
      /\ steps[3].takes = "attached"
  BY <1>2 DEF Must, Always, May
<1>   HIDE DEF steps
<1>4. /\ TakenBefore(steps, 1) = {}
      /\ TakenBefore(steps, 2) = {"window"}
      /\ TakenBefore(steps, 3) = {"window", "frame"}
  <2>0. \A j \in Nat \ {0} : TakenBefore(steps, j + 1) = TakenBefore(steps, j) \cup {steps[j].takes}
    BY OneMoreTaken
  <2>1. TakenBefore(steps, 1) = {}
    BY DEF TakenBefore
  <2>2. TakenBefore(steps, 2) = TakenBefore(steps, 1) \cup {steps[1].takes}
    BY <2>0, 1 + 1 = 2
  <2>3. TakenBefore(steps, 3) = TakenBefore(steps, 2) \cup {steps[2].takes}
    BY <2>0, 2 + 1 = 3
  <2>   QED  BY <1>3, <2>1, <2>2, <2>3
<1>5. AttachFits(p, Must("window", <<>>), {})
  BY DEF AttachFits, Own, Teardown, Surface, Resource, Entries, Ordered, Needs, WindowUndo, Must, Always, May
<1>6. AttachFits(p, Always("frame"), {"window"})
  BY DEF AttachFits, Own, Teardown, Surface, Resource, Entries, Ordered, Needs, WindowUndo, Must, Always, May
<1>7. AttachFits(p, Must("attached", WindowUndo), {"window", "frame"})
  BY DEF AttachFits, Own, Teardown, Surface, Resource, Entries, Ordered, Needs, WindowUndo, Must, Always, May
<1>8. k \in 1..3
  BY <1>1 DEF steps
<1>9. AttachFits(p, steps[k], TakenBefore(steps, k))
  <2>1. CASE k = 1
    BY <2>1, <1>2, <1>4, <1>5
  <2>2. CASE k = 2
    BY <2>2, <1>2, <1>4, <1>6
  <2>3. CASE k = 3
    BY <2>3, <1>2, <1>4, <1>7
  <2>   QED  BY <1>8, <2>1, <2>2, <2>3
<1>   QED  BY <1>9 DEF steps

\* The steps of a load, of whichever format.
LEMMA LoadTable ==
  ASSUME NEW p \in Plugin, NEW k \in 1..Len(LoadSteps[p.format])
  PROVE  StepFits(p, LoadSteps[p.format][k], TakenBefore(LoadSteps[p.format], k))
<1>1. p.format = "vst2" \/ p.format = "clap" \/ p.format = "vst3"
  BY DEF Plugin
<1>   QED  BY <1>1, Vst2LoadTable, ClapLoadTable, Vst3LoadTable

\* The steps of an attach, of whichever format.
LEMMA AttachTable ==
  ASSUME NEW p \in Plugin, NEW k \in 1..Len(AttachSteps[p.format])
  PROVE  AttachFits(p, AttachSteps[p.format][k], TakenBefore(AttachSteps[p.format], k))
<1>1. p.format = "vst2" \/ p.format = "clap" \/ p.format = "vst3"
  BY DEF Plugin
<1>   QED  BY <1>1, Vst2AttachTable, ClapAttachTable, Vst3AttachTable

\* There are that many steps.
LEMMA TableLengths ==
  ASSUME NEW p \in Plugin
  PROVE  /\ Len(LoadSteps[p.format]) \in Nat
         /\ Len(AttachSteps[p.format]) \in Nat \ {0}
<1>1. CASE p.format = "vst2"
  BY <1>1 DEF LoadSteps, Vst2Load, AttachSteps
<1>2. CASE p.format = "clap"
  BY <1>2 DEF LoadSteps, ClapLoad, AttachSteps
<1>3. CASE p.format = "vst3"
  BY <1>3 DEF LoadSteps, Vst3Load, AttachSteps
<1>   QED  BY <1>1, <1>2, <1>3 DEF Plugin

\* The lists name resources.
LEMMA OwnResources ==
  ASSUME NEW p \in Plugin
  PROVE  Own(p) \subseteq Resource
<1> USE DEF Own, Entries, Teardown, Resource
<1>1. CASE p.format = "vst2"
  BY <1>1
<1>2. CASE p.format = "clap"
  BY <1>2
<1>3. CASE p.format = "vst3"
  BY <1>3
<1>   QED  BY <1>1, <1>2, <1>3 DEF Plugin

\* Only a CLAP view is embedded.
LEMMA ClapEmbeds ==
  ASSUME NEW p \in Plugin, "embedded" \in Own(p)
  PROVE  p.format = "clap"
<1> USE DEF Own, Entries, Teardown
<1>1. CASE p.format = "vst2"
  BY <1>1
<1>2. CASE p.format = "vst3"
  BY <1>2
<1>   QED  BY <1>1, <1>2 DEF Plugin

\* A command starts with no list.
LEMMA CommandSets ==
  ASSUME NEW at, NEW command, Command(at, command)
  PROVE  control' = [at |-> at, step |-> 1, todo |-> <<>>, command |-> command]
  BY DEF Command, IdleControl

\* EditorWindow::Detach, ReleaseEditorView and Unload.
LEMMA ReleaseTables ==
  ASSUME NEW p \in Plugin
  PROVE  /\ Detach[p.format] \in Seq(Resource)
         /\ Own(p) \intersect Surface \subseteq Entries(Detach[p.format])
         /\ "view" \notin Entries(Detach[p.format])
         /\ Ordered(p, Detach[p.format], Own(p))
         /\ ReleaseView[p.format] \in Seq(Resource)
         /\ Own(p) \intersect {"view", "gui", "embedded"} \subseteq Entries(ReleaseView[p.format])
         /\ Ordered(p, ReleaseView[p.format], Own(p) \ Surface)
         /\ Teardown[p.format] \in Seq(Resource)
         /\ Own(p) \ Surface \subseteq Entries(Teardown[p.format])
         /\ Ordered(p, Teardown[p.format], Own(p) \ Surface)
<1> USE DEF Plugin, Own, Entries, Teardown, Detach, ReleaseView, Surface, Resource, Ordered, Needs
<1>1. CASE p.format = "vst2"
  BY <1>1
<1>2. CASE p.format = "clap"
  BY <1>2
<1>3. CASE p.format = "vst3"
  BY <1>3
<1>   QED  BY <1>1, <1>2, <1>3

\* A release in order leaves nothing without what it builds on, and the rest
\* of the list in order.
LEMMA ReleaseInOrder ==
  ASSUME NEW p, NEW R, NEW list \in Seq(Resource), list # <<>>, Ordered(p, list, R)
  PROVE  /\ Head(list) \in Resource /\ Tail(list) \in Seq(Resource)
         /\ Entries(list) = Entries(Tail(list)) \cup {Head(list)}
         /\ Ordered(p, Tail(list), R \ {Head(list)})
         /\ \A r \in R : Head(list) \notin Needs(p, r)
<1>1. /\ Len(list) \in Nat \ {0} /\ Head(list) = list[1]
      /\ Tail(list) \in Seq(Resource) /\ Len(Tail(list)) = Len(list) - 1
      /\ \A i \in 1..Len(Tail(list)) : Tail(list)[i] = list[i + 1]
      /\ list[1] \in Resource
  BY HeadTailProperties, LenProperties, EmptySeq
<1>2. Entries(list) = Entries(Tail(list)) \cup {Head(list)}
  <2>1. Entries(Tail(list)) \cup {Head(list)} \subseteq Entries(list)
    BY <1>1 DEF Entries
  <2> SUFFICES ASSUME NEW i \in 1..Len(list), i # 1 PROVE list[i] \in Entries(Tail(list))
    BY <1>1, <2>1 DEF Entries
  <2>   QED  BY <1>1, i - 1 \in 1..Len(Tail(list)) DEF Entries
<1>3. ASSUME NEW r \in R \ {Head(list)}, NEW i \in 1..Len(Tail(list)), Tail(list)[i] \in Needs(p, r)
      PROVE  \E j \in 1..(i - 1) : Tail(list)[j] = r
  <2>1. PICK j \in 1..i : list[j] = r
    BY <1>1, <1>3, i + 1 \in 1..Len(list), list[i + 1] \in Needs(p, r) DEF Ordered
  <2>2. j # 1 /\ j - 1 \in 1..(i - 1) /\ Tail(list)[j - 1] = r
    BY <1>1, <2>1
  <2>   QED  BY <2>2
<1>4. \A r \in R : Head(list) \notin Needs(p, r)
  BY <1>1 DEF Ordered
<1>   QED  BY <1>1, <1>2, <1>3, <1>4 DEF Ordered

\* The order is needed for what is held only.
LEMMA OrderedLess ==
  ASSUME NEW p, NEW list, NEW R, NEW Q, Q \subseteq R, Ordered(p, list, R)
  PROVE  Ordered(p, list, Q)
  BY DEF Ordered

----------------------------------------------------------------------------
(* Every step of the plugin's life keeps the invariant. *)

\* ReleaseEditorView covers what is held of an editor without its window.
LEMMA HeldReleases ==
  ASSUME LifeTypeOK, LoadedInv, loaded, held \intersect Surface \subseteq {"embedded"}
  PROVE  /\ held \intersect EditorParts \subseteq Entries(ReleaseView[plugin.format])
         /\ Ordered(plugin, ReleaseView[plugin.format], held \ {"embedded"})
<1>1. held \subseteq Own(plugin)
  BY DEF LoadedInv
<1>2. held \intersect EditorParts \subseteq Own(plugin) \intersect {"view", "gui", "embedded"}
  BY <1>1 DEF EditorParts, Surface
<1>3. held \ {"embedded"} \subseteq Own(plugin) \ Surface
  BY <1>1 DEF Surface
<1>   QED  BY <1>2, <1>3, ReleaseTables DEF Ordered, LifeTypeOK

\* SlotLoadPlugin, SlotUnloadPlugin, SlotHideEditor, the end of main.
LEMMA StartCommandKeeps ==
  ASSUME LifeTypeOK, LifeInv, ~Lapsed, StartCommand
  PROVE  LifeInv'
<1> USE DEF LifeInv
<1>1. /\ control.at = "idle" /\ control'.at = "hiding"
      /\ UNCHANGED <<failed, plugin, loaded, held, gui>>
  BY DEF StartCommand, Command, IdleControl
<1>2. PICK c \in {"load", "unload", "hide", "quit"} :
        control' = [at |-> "hiding", step |-> 1, todo |-> <<>>, command |-> c]
  BY CommandSets DEF StartCommand
<1>3. PhaseInv'
  BY <1>1, <1>2 DEF PhaseInv, EditorInv
<1>4. LoadingInv'
  BY <1>1, <1>2 DEF PhaseInv, LoadingInv
<1>5. FailingInv'
  BY <1>1, <1>2 DEF PhaseInv, FailingInv
<1>6. EmptyInv'
  BY <1>1, <1>2 DEF PhaseInv, EmptyInv, ControllerLeft
<1>7. LoadedInv'
  BY <1>1, <1>2 DEF PhaseInv, LoadedInv
<1>8. TeardownInv'
  BY <1>1, <1>2 DEF PhaseInv, TeardownInv
<1>9. ReleaseInv'
  BY <1>1, <1>2 DEF PhaseInv, ReleaseInv
<1>10. EditorInv'
  BY <1>1, <1>2 DEF PhaseInv, EditorInv
<1>11. AttachInv'
  BY <1>1, <1>2 DEF PhaseInv, AttachInv
<1>12. ReplyInv'
  BY <1>1, <1>2 DEF PhaseInv, ReplyInv
<1>13. Bracketed'
  BY <1>1, <1>2 DEF PhaseInv, Bracketed, ControllerLeft, ShowRefused
<1>   QED
  BY <1>3, <1>4, <1>5, <1>6, <1>7, <1>8, <1>9, <1>10, <1>11, <1>12, <1>13

\* The end of PluginChain::UnloadSlot, or of the first part of LoadSlot.
LEMMA EndTeardownKeeps ==
  ASSUME LifeTypeOK, LifeInv, ~Lapsed, EndTeardown
  PROVE  LifeInv'
<1> USE DEF LifeInv
<1>1. /\ control.at = "teardown" /\ loaded' = FALSE /\ gui' = gui /\ gui.at = "idle"
      /\ held \subseteq ControllerLeft /\ ControllerLeft \subseteq Forgotten
  BY EmptySeq DEF EndTeardown, PhaseInv, TeardownInv, EmptyInv, Entries, LifeTypeOK, ControlState,
                  GuiState, ControllerLeft, Forgotten
<1>2. \/ /\ control' = [at |-> "loading", step |-> 1, todo |-> <<>>, command |-> "load"]
         /\ held' = {} /\ plugin' \in Plugin /\ failed' = FALSE
      \/ control' = IdleControl /\ held' = held /\ plugin' = plugin /\ failed' = failed
  BY CommandSets DEF EndTeardown
<1>3. \/ control'.at = "loading" /\ control'.step = 1 /\ held' = {} /\ failed' = FALSE
      \/ control'.at = "idle" /\ held' = held /\ plugin' = plugin /\ failed' = failed
  BY <1>2 DEF IdleControl
<1>4. /\ held' \subseteq Forgotten /\ held' \subseteq Resource
      /\ control'.at \in {"loading", "idle"}
      /\ \E a \in {"loading", "idle"}, c \in {"load", "none"} :
           control' = [at |-> a, step |-> 1, todo |-> <<>>, command |-> c]
  BY <1>1, <1>2, <1>3 DEF IdleControl, Resource, Forgotten
<1>5. control' \in ControlState
  BY <1>4, EmptySeq DEF ControlState
<1>6. PhaseInv'
  BY <1>1, <1>2, <1>3, <1>4, <1>5 DEF PhaseInv, EditorInv, Forgotten, EditorParts, Surface, IdleControl
<1>7. LoadingInv'
  <2>1. \A p \in Plugin : Len(LoadSteps[p.format]) \in Nat
    BY TableLengths
  <2>   QED  BY <1>1, <1>2, <2>1 DEF LoadingInv, IdleControl
<1>8. FailingInv'
  BY <1>1, <1>2, <1>3, <1>4, <1>5 DEF PhaseInv, FailingInv, Forgotten, EditorParts, Surface, IdleControl
<1>9. EmptyInv'
  BY <1>1, <1>2, <1>3, <1>4, <1>5 DEF PhaseInv, EmptyInv, ControllerLeft, Forgotten, EditorParts, Surface, IdleControl
<1>10. LoadedInv'
  BY <1>1, <1>2, <1>3, <1>4, <1>5 DEF PhaseInv, LoadedInv, Forgotten, EditorParts, Surface, IdleControl
<1>11. TeardownInv'
  BY <1>1, <1>2, <1>3, <1>4, <1>5 DEF PhaseInv, TeardownInv, Forgotten, EditorParts, Surface, IdleControl
<1>12. ReleaseInv'
  BY <1>1, <1>2, <1>3, <1>4, <1>5 DEF PhaseInv, ReleaseInv, Forgotten, EditorParts, Surface, IdleControl
<1>13. EditorInv'
  BY <1>1, <1>2, <1>3, <1>4, <1>5 DEF PhaseInv, EditorInv, Forgotten, EditorParts, Surface, IdleControl
<1>14. AttachInv'
  BY <1>1, <1>2, <1>3, <1>4, <1>5 DEF PhaseInv, AttachInv, Forgotten, EditorParts, Surface, IdleControl
<1>15. ReplyInv'
  BY <1>1, <1>2, <1>3, <1>4, <1>5 DEF PhaseInv, ReplyInv, Forgotten, EditorParts, Surface, IdleControl
<1>16. Bracketed'
  BY <1>1, <1>2, <1>3, <1>4, <1>5 DEF PhaseInv, Bracketed, ControllerLeft, ShowRefused, Forgotten, EditorParts, Surface, IdleControl
<1>   QED
  BY <1>6, <1>7, <1>8, <1>9, <1>10, <1>11, <1>12, <1>13, <1>14, <1>15, <1>16

\* A step of a load that succeeds.
LEMMA TakeKeeps ==
  ASSUME LifeTypeOK, LifeInv, ~Lapsed, Take
  PROVE  LifeInv'
<1> USE DEF LifeInv
<1>1. /\ control.at = "loading" /\ control.step \in 1..Len(LoadSteps[plugin.format])
      /\ control'.at = "loading" /\ control'.step = control.step + 1
      /\ held' = held \cup {LoadStep.takes} /\ Needs(plugin, LoadStep.takes) \subseteq held
      /\ ~loaded /\ gui.at = "idle"
      /\ UNCHANGED <<failed, plugin, loaded, gui>>
  BY DEF Take, Loading, NextLoadStep, Applies, LifeTypeOK, ControlState, GuiState, LoadingInv, PhaseInv
<1>2. StepFits(plugin, LoadStep, TakenBefore(LoadSteps[plugin.format], control.step))
  BY <1>1, LoadTable DEF LoadStep, LifeTypeOK, ControlState, GuiState
<1>3. held' \subseteq TakenBefore(LoadSteps[plugin.format], control'.step)
  BY <1>1, OneMoreTaken DEF LoadStep, LoadingInv
<1>4. PhaseInv'
  BY <1>1, <1>2, <1>3 DEF PhaseInv, EditorInv, StepFits, EditorParts, Surface
<1>5. LoadingInv'
  BY <1>1, <1>2, <1>3 DEF PhaseInv, LoadingInv, StepFits, EditorParts, Surface
<1>6. FailingInv'
  BY <1>1, <1>2, <1>3 DEF PhaseInv, FailingInv, StepFits, EditorParts, Surface
<1>7. EmptyInv'
  BY <1>1, <1>2, <1>3 DEF PhaseInv, EmptyInv, ControllerLeft, StepFits, EditorParts, Surface
<1>8. LoadedInv'
  BY <1>1, <1>2, <1>3 DEF PhaseInv, LoadedInv, StepFits, EditorParts, Surface
<1>9. TeardownInv'
  BY <1>1, <1>2, <1>3 DEF PhaseInv, TeardownInv, StepFits, EditorParts, Surface
<1>10. ReleaseInv'
  BY <1>1, <1>2, <1>3 DEF PhaseInv, ReleaseInv, StepFits, EditorParts, Surface
<1>11. EditorInv'
  BY <1>1, <1>2, <1>3 DEF PhaseInv, EditorInv, StepFits, EditorParts, Surface
<1>12. AttachInv'
  BY <1>1, <1>2, <1>3 DEF PhaseInv, AttachInv, StepFits, EditorParts, Surface
<1>13. ReplyInv'
  BY <1>1, <1>2, <1>3 DEF PhaseInv, ReplyInv, StepFits, EditorParts, Surface
<1>14. Bracketed'
  BY <1>1, <1>2, <1>3 DEF PhaseInv, Bracketed, ControllerLeft, ShowRefused, StepFits, EditorParts, Surface
<1>   QED
  BY <1>4, <1>5, <1>6, <1>7, <1>8, <1>9, <1>10, <1>11, <1>12, <1>13, <1>14

\* A step of a load that comes to nothing.
LEMMA SkipKeeps ==
  ASSUME LifeTypeOK, LifeInv, ~Lapsed, Skip
  PROVE  LifeInv'
<1> USE DEF LifeInv
<1>1. /\ control.at = "loading" /\ control.step \in 1..Len(LoadSteps[plugin.format])
      /\ control'.at = "loading" /\ control'.step = control.step + 1
      /\ held' = held \/ held' = held \ LoadStep.drops
      /\ ~loaded /\ gui.at = "idle"
      /\ UNCHANGED <<failed, plugin, loaded, gui>>
  BY DEF Skip, Loading, NextLoadStep, LifeTypeOK, ControlState, GuiState, LoadingInv, PhaseInv
<1>2. held' \subseteq held /\ \A r \in held' : Needs(plugin, r) \intersect held \subseteq held'
  BY <1>1, LoadTable DEF LoadStep, LifeTypeOK, ControlState, GuiState, StepFits, LoadingInv
<1>3. held' \subseteq TakenBefore(LoadSteps[plugin.format], control'.step)
  BY <1>1, <1>2, OneMoreTaken DEF LoadStep, LoadingInv
<1>4. PhaseInv'
  BY <1>1, <1>2, <1>3 DEF PhaseInv, EditorInv, EditorParts, Surface
<1>5. LoadingInv'
  BY <1>1, <1>2, <1>3 DEF PhaseInv, LoadingInv, EditorParts, Surface
<1>6. FailingInv'
  BY <1>1, <1>2, <1>3 DEF PhaseInv, FailingInv, EditorParts, Surface
<1>7. EmptyInv'
  BY <1>1, <1>2, <1>3 DEF PhaseInv, EmptyInv, ControllerLeft, EditorParts, Surface
<1>8. LoadedInv'
  BY <1>1, <1>2, <1>3 DEF PhaseInv, LoadedInv, EditorParts, Surface
<1>9. TeardownInv'
  BY <1>1, <1>2, <1>3 DEF PhaseInv, TeardownInv, EditorParts, Surface
<1>10. ReleaseInv'
  BY <1>1, <1>2, <1>3 DEF PhaseInv, ReleaseInv, EditorParts, Surface
<1>11. EditorInv'
  BY <1>1, <1>2, <1>3 DEF PhaseInv, EditorInv, EditorParts, Surface
<1>12. AttachInv'
  BY <1>1, <1>2, <1>3 DEF PhaseInv, AttachInv, EditorParts, Surface
<1>13. ReplyInv'
  BY <1>1, <1>2, <1>3 DEF PhaseInv, ReplyInv, EditorParts, Surface
<1>14. Bracketed'
  BY <1>1, <1>2, <1>3 DEF PhaseInv, Bracketed, ControllerLeft, ShowRefused, EditorParts, Surface
<1>   QED
  BY <1>4, <1>5, <1>6, <1>7, <1>8, <1>9, <1>10, <1>11, <1>12, <1>13, <1>14

\* A step of a load that fails.
LEMMA FailKeeps ==
  ASSUME LifeTypeOK, LifeInv, ~Lapsed, Fail
  PROVE  LifeInv'
<1> USE DEF LifeInv
<1>1. /\ control.at = "loading" /\ control.step \in 1..Len(LoadSteps[plugin.format])
      /\ control'.at = "failing" /\ control'.todo = LoadStep.undo
      /\ LoadStep.fails /\ ~loaded /\ gui.at = "idle"
      /\ UNCHANGED <<plugin, loaded, held, gui>> /\ failed'
  BY DEF Fail, Loading, LifeTypeOK, ControlState, GuiState, LoadingInv, PhaseInv
<1>2. /\ held \subseteq Entries(control'.todo) \cup Forgotten
      /\ Ordered(plugin, control'.todo, held \ Forgotten)
  <2>1. StepFits(plugin, LoadStep, TakenBefore(LoadSteps[plugin.format], control.step))
    BY <1>1, LoadTable DEF LoadStep, LifeTypeOK
  <2>   QED  BY <1>1, <2>1 DEF StepFits, LoadingInv, Ordered
<1>3. PhaseInv'
  BY <1>1, <1>2 DEF PhaseInv, EditorInv
<1>4. LoadingInv'
  BY <1>1, <1>2 DEF PhaseInv, LoadingInv
<1>5. FailingInv'
  BY <1>1, <1>2 DEF PhaseInv, FailingInv
<1>6. EmptyInv'
  BY <1>1, <1>2 DEF PhaseInv, EmptyInv, ControllerLeft
<1>7. LoadedInv'
  BY <1>1, <1>2 DEF PhaseInv, LoadedInv
<1>8. TeardownInv'
  BY <1>1, <1>2 DEF PhaseInv, TeardownInv
<1>9. ReleaseInv'
  BY <1>1, <1>2 DEF PhaseInv, ReleaseInv
<1>10. EditorInv'
  BY <1>1, <1>2 DEF PhaseInv, EditorInv
<1>11. AttachInv'
  BY <1>1, <1>2 DEF PhaseInv, AttachInv
<1>12. ReplyInv'
  BY <1>1, <1>2 DEF PhaseInv, ReplyInv
<1>13. Bracketed'
  BY <1>1, <1>2 DEF PhaseInv, Bracketed, ControllerLeft, ShowRefused
<1>   QED
  BY <1>3, <1>4, <1>5, <1>6, <1>7, <1>8, <1>9, <1>10, <1>11, <1>12, <1>13

\* The end of a load.
LEMMA PublishKeeps ==
  ASSUME LifeTypeOK, LifeInv, ~Lapsed, Publish
  PROVE  LifeInv'
<1> USE DEF LifeInv
<1>1. /\ control.at = "loading" /\ control'.at = "idle" /\ control' = IdleControl
      /\ loaded' = TRUE /\ gui.at = "idle"
      /\ UNCHANGED <<failed, plugin, held, gui>>
  BY DEF Publish, IdleControl, PhaseInv, LifeTypeOK, GuiState
<1>2. held \subseteq Own(plugin) \ EditorParts
  <2>1. PICK k \in 1..(Len(LoadSteps[plugin.format]) + 1) :
          held \subseteq TakenBefore(LoadSteps[plugin.format], k)
    BY <1>1 DEF LoadingInv
  <2>2. Len(LoadSteps[plugin.format]) \in Nat
    BY TableLengths DEF LifeTypeOK, ControlState, GuiState
  <2>3. \A i \in 1..Len(LoadSteps[plugin.format]) :
          LoadSteps[plugin.format][i].takes \in Own(plugin) \ EditorParts
    BY LoadTable DEF StepFits, LifeTypeOK
  <2>4. \A i \in 1..(k - 1) : i \in 1..Len(LoadSteps[plugin.format])
    BY <2>2
  <2>   QED  BY <2>1, <2>3, <2>4 DEF TakenBefore
<1>3. PhaseInv'
  BY <1>1, <1>2 DEF PhaseInv, EditorInv, EditorParts, Surface
<1>4. LoadingInv'
  BY <1>1, <1>2 DEF PhaseInv, LoadingInv, EditorParts, Surface
<1>5. FailingInv'
  BY <1>1, <1>2 DEF PhaseInv, FailingInv, EditorParts, Surface
<1>6. EmptyInv'
  BY <1>1, <1>2 DEF PhaseInv, EmptyInv, ControllerLeft, EditorParts, Surface
<1>7. LoadedInv'
  BY <1>1, <1>2 DEF PhaseInv, LoadedInv, EditorParts, Surface
<1>8. TeardownInv'
  BY <1>1, <1>2 DEF PhaseInv, TeardownInv, EditorParts, Surface
<1>9. ReleaseInv'
  BY <1>1, <1>2 DEF PhaseInv, ReleaseInv, EditorParts, Surface
<1>10. EditorInv'
  BY <1>1, <1>2 DEF PhaseInv, EditorInv, EditorParts, Surface
<1>11. AttachInv'
  BY <1>1, <1>2 DEF PhaseInv, AttachInv, EditorParts, Surface
<1>12. ReplyInv'
  BY <1>1, <1>2 DEF PhaseInv, ReplyInv, EditorParts, Surface
<1>13. Bracketed'
  BY <1>1, <1>2 DEF PhaseInv, Bracketed, ControllerLeft, ShowRefused, EditorParts, Surface
<1>   QED
  BY <1>3, <1>4, <1>5, <1>6, <1>7, <1>8, <1>9, <1>10, <1>11, <1>12, <1>13

\* A release of the control thread.
LEMMA ReleaseOneKeeps ==
  ASSUME LifeTypeOK, LifeInv, ~Lapsed, ReleaseOne
  PROVE  LifeInv'
<1> USE DEF LifeInv
<1>1. /\ control.at \in {"failing", "refused", "release", "teardown"} /\ control.todo # <<>>
      /\ control.todo \in Seq(Resource) /\ control'.at = control.at /\ control'.todo = Tail(control.todo)
      /\ held' = held \ {Head(control.todo)} /\ gui.at = "idle"
      /\ UNCHANGED <<failed, plugin, loaded, gui>>
      /\ control.at # "failing" => loaded
  BY DEF ReleaseOne, LifeTypeOK, ControlState, GuiState, PhaseInv, EmptyInv
<1>2. /\ Tail(control.todo) \in Seq(Resource)
      /\ Entries(control.todo) \subseteq Entries(control'.todo) \cup {Head(control.todo)}
      /\ \A R : Ordered(plugin, control.todo, R) =>
           /\ Ordered(plugin, control'.todo, R \ {Head(control.todo)})
           /\ \A r \in R : Head(control.todo) \notin Needs(plugin, r)
  <2>1. ASSUME NEW R, Ordered(plugin, control.todo, R)
        PROVE  /\ Ordered(plugin, control'.todo, R \ {Head(control.todo)})
               /\ \A r \in R : Head(control.todo) \notin Needs(plugin, r)
    <3>1. control.todo \in Seq(Resource) /\ control.todo # <<>>
      BY <1>1
    <3>2. /\ Ordered(plugin, Tail(control.todo), R \ {Head(control.todo)})
          /\ \A r \in R : Head(control.todo) \notin Needs(plugin, r)
      BY <2>1, <3>1, ReleaseInOrder
    <3>   QED  BY <1>1, <3>2
  <2>2. Ordered(plugin, control.todo, {})
    BY DEF Ordered
  <2>   QED  BY <1>1, <2>1, <2>2, ReleaseInOrder
<1>3. /\ control.at = "failing" => Ordered(plugin, control'.todo, held' \ Forgotten)
      /\ control.at = "refused" => Ordered(plugin, control'.todo, held' \ {"embedded"})
      /\ control.at \in {"release", "teardown"} => Ordered(plugin, control'.todo, held')
  <2>1. /\ (held \ Forgotten) \ {Head(control.todo)} = held' \ Forgotten
        /\ (held \ {"embedded"}) \ {Head(control.todo)} = held' \ {"embedded"}
    BY <1>1
  <2>   QED  BY <1>1, <1>2, <2>1 DEF FailingInv, ReleaseInv, TeardownInv
<1>4. \A r \in held' : \/ Head(control.todo) \notin Needs(plugin, r)
                       \/ control.at = "failing" /\ r \in Forgotten
                       \/ control.at = "refused" /\ r = "embedded"
  BY <1>1, <1>2 DEF FailingInv, ReleaseInv, TeardownInv
<1>5. "embedded" \in held => plugin.format = "clap"
  BY ClapEmbeds DEF LoadedInv, EditorInv, EditorParts, Surface, LifeTypeOK
<1>6. PhaseInv'
  BY <1>1, <1>2, <1>3, <1>4, <1>5 DEF PhaseInv, EditorInv
<1>7. LoadingInv'
  BY <1>1, <1>2, <1>3, <1>4, <1>5 DEF PhaseInv, LoadingInv
<1>8. FailingInv'
  BY <1>1, <1>2, <1>3, <1>4, <1>5 DEF PhaseInv, FailingInv
<1>9. EmptyInv'
  BY <1>1, <1>2, <1>3, <1>4, <1>5 DEF PhaseInv, EmptyInv, ControllerLeft
<1>10. LoadedInv'
  BY <1>1, <1>2, <1>3, <1>4, <1>5 DEF PhaseInv, LoadedInv
<1>11. TeardownInv'
  BY <1>1, <1>2, <1>3, <1>4, <1>5 DEF PhaseInv, TeardownInv
<1>12. ReleaseInv'
  BY <1>1, <1>2, <1>3, <1>4, <1>5 DEF PhaseInv, ReleaseInv
<1>13. EditorInv'
  <2>1. "window" \notin held
    BY <1>1 DEF EditorInv, EditorParts, Surface, PhaseInv
  <2>   QED  BY <1>1, <2>1 DEF EditorInv, EditorParts, Surface
<1>14. AttachInv'
  BY <1>1, <1>2, <1>3, <1>4, <1>5 DEF PhaseInv, AttachInv
<1>15. ReplyInv'
  BY <1>1, <1>2, <1>3, <1>4, <1>5 DEF PhaseInv, ReplyInv
<1>16. Bracketed'
  <2> SUFFICES ASSUME NEW r \in held', r \notin (ControllerLeft)', r \notin (ShowRefused)'
           PROVE  Needs(plugin, r) \subseteq held'
    BY <1>1 DEF Bracketed
  <2>1. r \notin ControllerLeft /\ r \notin ShowRefused
    BY <1>1 DEF ControllerLeft, ShowRefused
  <2>2. Head(control.todo) \notin Needs(plugin, r)
    <3>1. ~(control.at = "failing" /\ r \in Forgotten)
      BY <1>1, <2>1 DEF ControllerLeft, Forgotten, PhaseInv
    <3>2. ~(control.at = "refused" /\ r = "embedded")
      BY <1>1, <1>5, <2>1 DEF ShowRefused
    <3>   QED  BY <1>4, <3>1, <3>2
  <2>3. Needs(plugin, r) \subseteq held
    BY <1>1, <2>1 DEF Bracketed
  <2>   QED  BY <1>1, <2>2, <2>3
<1>   QED
  BY <1>6, <1>7, <1>8, <1>9, <1>10, <1>11, <1>12, <1>13, <1>14, <1>15, <1>16

\* The end of a list of the control thread.
LEMMA EndReleaseKeeps ==
  ASSUME LifeTypeOK, LifeInv, ~Lapsed, EndRelease
  PROVE  LifeInv'
<1> USE DEF LifeInv
<1>1. /\ control.at \in {"failing", "refused", "release"}
      /\ gui.at = "idle" /\ UNCHANGED <<failed, plugin, loaded, held, gui>>
      /\ control.at = "failing" => ~loaded /\ held \subseteq Forgotten /\ failed
      /\ control.at # "failing" => loaded /\ held \intersect EditorParts = {}
  <2>1. Entries(<<>>) = {}
    BY DEF Entries
  <2>   QED
    BY <2>1 DEF EndRelease, FailingInv, ReleaseInv, PhaseInv, LifeTypeOK, ControlState, GuiState
<1>2. \/ control' = IdleControl
      \/ control' = StartTeardown /\ control.at = "release"
  BY DEF EndRelease
<1>3. \/ control'.at = "idle"
      \/ control'.at = "teardown" /\ control'.todo = Teardown[plugin.format] /\ loaded
  <2>1. CASE control' = IdleControl
    BY <2>1 DEF IdleControl
  <2>2. CASE control' = StartTeardown /\ control.at = "release"
    <3>1. control' = [control EXCEPT !.at = "teardown", !.todo = Teardown[plugin.format]] /\ loaded
      BY <1>1, <2>2 DEF StartTeardown
    <3>   QED  BY <3>1 DEF LifeTypeOK, ControlState
  <2>   QED  BY <1>2, <2>1, <2>2
<1>4. loaded =>
        /\ held \subseteq Entries(Teardown[plugin.format])
        /\ Ordered(plugin, Teardown[plugin.format], held)
  BY <1>1, ReleaseTables DEF LoadedInv, EditorParts, LifeTypeOK, Ordered
<1>5. control' \in ControlState
  <2>1. Teardown[plugin.format] \in Seq(Resource) /\ <<>> \in Seq(Resource)
    BY ReleaseTables, EmptySeq DEF LifeTypeOK
  <2>2. CASE control' = IdleControl
    BY <2>1, <2>2 DEF IdleControl, ControlState
  <2>3. CASE control' = StartTeardown /\ control.at = "release"
    <3>1. control' = [control EXCEPT !.at = "teardown", !.todo = Teardown[plugin.format]]
      BY <1>1, <2>3 DEF StartTeardown
    <3>   QED  BY <2>1, <3>1 DEF LifeTypeOK, ControlState
  <2>   QED  BY <1>2, <2>2, <2>3
<1>6. PhaseInv'
  BY <1>1, <1>2, <1>3, <1>4, <1>5 DEF PhaseInv, EditorInv, EditorParts, Surface
<1>7. LoadingInv'
  BY <1>1, <1>2, <1>3, <1>4, <1>5 DEF PhaseInv, LoadingInv, EditorParts, Surface
<1>8. FailingInv'
  BY <1>1, <1>2, <1>3, <1>4, <1>5 DEF PhaseInv, FailingInv, EditorParts, Surface
<1>9. EmptyInv'
  BY <1>1, <1>2, <1>3, <1>4, <1>5 DEF PhaseInv, EmptyInv, ControllerLeft, Forgotten
<1>10. LoadedInv'
  BY <1>1, <1>2, <1>3, <1>4, <1>5 DEF PhaseInv, LoadedInv, EditorParts, Surface
<1>11. TeardownInv'
  BY <1>1, <1>2, <1>3, <1>4, <1>5 DEF PhaseInv, TeardownInv, EditorParts, Surface
<1>12. ReleaseInv'
  BY <1>1, <1>2, <1>3, <1>4, <1>5 DEF PhaseInv, ReleaseInv, EditorParts, Surface
<1>13. EditorInv'
  BY <1>1, <1>2, <1>3, <1>4, <1>5 DEF PhaseInv, EditorInv, EditorParts, Surface
<1>14. AttachInv'
  BY <1>1, <1>2, <1>3, <1>4, <1>5 DEF PhaseInv, AttachInv, EditorParts, Surface
<1>15. ReplyInv'
  BY <1>1, <1>2, <1>3, <1>4, <1>5 DEF PhaseInv, ReplyInv, EditorParts, Surface
<1>16. Bracketed'
  BY <1>1, <1>2, <1>3, <1>4, <1>5 DEF PhaseInv, Bracketed, ControllerLeft, ShowRefused, EditorParts, Surface
<1>   QED
  BY <1>6, <1>7, <1>8, <1>9, <1>10, <1>11, <1>12, <1>13, <1>14, <1>15, <1>16

\* SlotShowEditor with AcquireEditorView.
LEMMA SlotShowEditorKeeps ==
  ASSUME LifeTypeOK, LifeInv, ~Lapsed, SlotShowEditor
  PROVE  LifeInv'
<1> USE DEF LifeInv
<1>1. /\ control.at = "idle" /\ gui.at = "idle" /\ loaded
      /\ Needs(plugin, "view") \subseteq held /\ UNCHANGED <<failed, plugin, loaded, gui>>
      /\ control' = [at |-> "showing", step |-> 1, todo |-> <<>>, command |-> "show"]
  BY CommandSets DEF SlotShowEditor
<1>2. \/ "view" \in held /\ held' = held
      \/ held' = held \cup {"view"}
      \/ plugin.format = "clap" /\ held' = held \cup {"view", "gui"}
  BY DEF SlotShowEditor
<1>3. /\ held \subseteq held' /\ held' \subseteq held \cup {"view", "gui"} /\ "view" \in held'
      /\ plugin.format # "clap" => held' \subseteq held \cup {"view"}
  BY <1>2
<1>4. control'.at = "showing" /\ Needs(plugin, "gui") = {"view"}
  BY <1>1 DEF Needs
<1>5. {"view"} \subseteq Own(plugin) /\ (plugin.format = "clap" => "gui" \in Own(plugin))
  <2>1. CASE plugin.format = "vst2"
    BY <2>1 DEF Own, Entries, Teardown
  <2>2. CASE plugin.format = "clap"
    BY <2>2 DEF Own, Entries, Teardown
  <2>3. CASE plugin.format = "vst3"
    BY <2>3 DEF Own, Entries, Teardown
  <2>   QED  BY <2>1, <2>2, <2>3 DEF LifeTypeOK, ControlState, GuiState, Plugin
<1>6. PhaseInv'
  BY <1>1, <1>2, <1>3, <1>4, <1>5 DEF PhaseInv, EditorInv, EditorParts, Surface
<1>7. LoadingInv'
  BY <1>1, <1>2, <1>3, <1>4, <1>5 DEF PhaseInv, LoadingInv, EditorParts, Surface
<1>8. FailingInv'
  BY <1>1, <1>2, <1>3, <1>4, <1>5 DEF PhaseInv, FailingInv, EditorParts, Surface
<1>9. EmptyInv'
  BY <1>1, <1>2, <1>3, <1>4, <1>5 DEF PhaseInv, EmptyInv, ControllerLeft, EditorParts, Surface
<1>10. LoadedInv'
  BY <1>1, <1>2, <1>3, <1>4, <1>5 DEF PhaseInv, LoadedInv, EditorParts, Surface
<1>11. TeardownInv'
  BY <1>1, <1>2, <1>3, <1>4, <1>5 DEF PhaseInv, TeardownInv, EditorParts, Surface
<1>12. ReleaseInv'
  BY <1>1, <1>2, <1>3, <1>4, <1>5 DEF PhaseInv, ReleaseInv, EditorParts, Surface
<1>13. EditorInv'
  BY <1>1, <1>2, <1>3, <1>4, <1>5 DEF PhaseInv, EditorInv, EditorParts, Surface
<1>14. AttachInv'
  BY <1>1, <1>2, <1>3, <1>4, <1>5 DEF PhaseInv, AttachInv, EditorParts, Surface
<1>15. ReplyInv'
  BY <1>1, <1>2, <1>3, <1>4, <1>5 DEF PhaseInv, ReplyInv, EditorParts, Surface
<1>16. Bracketed'
  BY <1>1, <1>2, <1>3, <1>4, <1>5 DEF PhaseInv, Bracketed, ControllerLeft, ShowRefused, EditorParts, Surface
<1>   QED
  BY <1>6, <1>7, <1>8, <1>9, <1>10, <1>11, <1>12, <1>13, <1>14, <1>15, <1>16

\* GuiThread::HandleShow, up to the attach.
LEMMA HandleShowKeeps ==
  ASSUME LifeTypeOK, LifeInv, ~Lapsed, HandleShow
  PROVE  LifeInv'
<1> USE DEF LifeInv
<1>1. /\ control.at = "showing" /\ gui.at = "idle" /\ loaded
      /\ UNCHANGED <<failed, plugin, loaded, held, control>>
  BY DEF HandleShow, TakeRequest, Queued, Lapsed, PhaseInv
<1>2. \/ "window" \in held /\ gui' = [at |-> "reply", step |-> 1, todo |-> <<>>, answer |-> TRUE]
      \/ "window" \notin held /\ gui' = [at |-> "attaching", step |-> 1, todo |-> <<>>, answer |-> FALSE]
  BY DEF HandleShow, IdleGui
<1>3. \/ "window" \in held /\ gui'.at = "reply" /\ gui'.answer
      \/ "window" \notin held /\ gui'.at = "attaching" /\ gui'.step = 1 /\ ~gui'.answer
  BY <1>2
<1>4. gui' \in GuiState
  <2>1. <<>> \in Seq(Resource)
    BY EmptySeq
  <2>2. \A a \in {"reply", "attaching"}, b \in BOOLEAN :
          [at |-> a, step |-> 1, todo |-> <<>>, answer |-> b] \in GuiState
    BY <2>1 DEF GuiState
  <2>   QED  BY <1>2, <2>2
<1>5. 1 \in 1..(Len(AttachSteps[plugin.format]) + 1)
  BY TableLengths DEF LifeTypeOK
<1>6. "window" \notin held => held \intersect Surface = {}
  BY <1>1 DEF EditorInv
<1>7. PhaseInv'
  BY <1>1, <1>2, <1>3, <1>4, <1>5, <1>6 DEF PhaseInv, EditorInv
<1>8. LoadingInv'
  BY <1>1, <1>2, <1>3, <1>4, <1>5, <1>6 DEF PhaseInv, LoadingInv
<1>9. FailingInv'
  BY <1>1, <1>2, <1>3, <1>4, <1>5, <1>6 DEF PhaseInv, FailingInv
<1>10. EmptyInv'
  BY <1>1, <1>2, <1>3, <1>4, <1>5, <1>6 DEF PhaseInv, EmptyInv, ControllerLeft
<1>11. LoadedInv'
  BY <1>1, <1>2, <1>3, <1>4, <1>5, <1>6 DEF PhaseInv, LoadedInv
<1>12. TeardownInv'
  BY <1>1, <1>2, <1>3, <1>4, <1>5, <1>6 DEF PhaseInv, TeardownInv
<1>13. ReleaseInv'
  BY <1>1, <1>2, <1>3, <1>4, <1>5, <1>6 DEF PhaseInv, ReleaseInv
<1>14. EditorInv'
  BY <1>1, <1>2, <1>3, <1>4, <1>5, <1>6 DEF PhaseInv, EditorInv
<1>15. AttachInv'
  BY <1>1, <1>2, <1>3, <1>4, <1>5, <1>6 DEF PhaseInv, AttachInv
<1>16. ReplyInv'
  BY <1>1, <1>2, <1>3, <1>4, <1>5, <1>6 DEF PhaseInv, ReplyInv
<1>17. Bracketed'
  BY <1>1, <1>2, <1>3, <1>4, <1>5, <1>6 DEF PhaseInv, Bracketed, ControllerLeft, ShowRefused
<1>   QED
  BY <1>7, <1>8, <1>9, <1>10, <1>11, <1>12, <1>13, <1>14, <1>15, <1>16, <1>17

\* A step of an attach that succeeds.
LEMMA AttachTakeKeeps ==
  ASSUME LifeTypeOK, LifeInv, ~Lapsed, AttachTake
  PROVE  LifeInv'
<1> USE DEF LifeInv
<1>1. /\ gui.at = "attaching" /\ gui.step \in 1..Len(AttachSteps[plugin.format])
      /\ gui'.at = "attaching" /\ gui'.step = gui.step + 1 /\ gui'.answer = gui.answer
      /\ held' = held \cup {AttachStep.takes} /\ Needs(plugin, AttachStep.takes) \subseteq held
      /\ control.at = "showing" /\ loaded
      /\ UNCHANGED <<failed, plugin, loaded, control>>
  BY DEF AttachTake, Attaching, Applies, LifeTypeOK, GuiState, AttachInv, PhaseInv
<1>2. AttachFits(plugin, AttachStep, TakenBefore(AttachSteps[plugin.format], gui.step))
  BY <1>1, AttachTable DEF AttachStep, LifeTypeOK
<1>3. /\ held' \intersect Surface \subseteq TakenBefore(AttachSteps[plugin.format], gui'.step)
      /\ "window" \in held'
  <2>1. TakenBefore(AttachSteps[plugin.format], 1) = {}
    BY DEF TakenBefore
  <2>2. gui.step = 1 => AttachStep.takes = "window"
    BY <1>2, <2>1 DEF AttachFits
  <2>   QED  BY <1>1, <2>2, OneMoreTaken DEF AttachStep, AttachInv
<1>4. AttachStep.takes \in Own(plugin) \intersect Surface
  BY <1>2 DEF AttachFits
<1>5. PhaseInv'
  BY <1>1, <1>2, <1>3, <1>4 DEF PhaseInv, EditorInv
<1>6. LoadingInv'
  BY <1>1, <1>2, <1>3, <1>4 DEF PhaseInv, LoadingInv
<1>7. FailingInv'
  BY <1>1, <1>2, <1>3, <1>4 DEF PhaseInv, FailingInv
<1>8. EmptyInv'
  BY <1>1, <1>2, <1>3, <1>4 DEF PhaseInv, EmptyInv, ControllerLeft
<1>9. LoadedInv'
  BY <1>1, <1>2, <1>3, <1>4 DEF PhaseInv, LoadedInv
<1>10. TeardownInv'
  BY <1>1, <1>2, <1>3, <1>4 DEF PhaseInv, TeardownInv
<1>11. ReleaseInv'
  BY <1>1, <1>2, <1>3, <1>4 DEF PhaseInv, ReleaseInv
<1>12. EditorInv'
  BY <1>1, <1>2, <1>3, <1>4 DEF PhaseInv, EditorInv
<1>13. AttachInv'
  BY <1>1, <1>2, <1>3, <1>4 DEF PhaseInv, AttachInv
<1>14. ReplyInv'
  BY <1>1, <1>2, <1>3, <1>4 DEF PhaseInv, ReplyInv
<1>15. Bracketed'
  BY <1>1, <1>2, <1>3, <1>4 DEF PhaseInv, Bracketed, ControllerLeft, ShowRefused
<1>   QED
  BY <1>5, <1>6, <1>7, <1>8, <1>9, <1>10, <1>11, <1>12, <1>13, <1>14, <1>15

\* A CLAP plugin that has nothing to show.
LEMMA AttachSkipKeeps ==
  ASSUME LifeTypeOK, LifeInv, ~Lapsed, AttachSkip
  PROVE  LifeInv'
<1> USE DEF LifeInv
<1>1. /\ gui.at = "attaching" /\ gui.step \in 1..Len(AttachSteps[plugin.format])
      /\ gui'.at = "attaching" /\ gui'.step = gui.step + 1 /\ gui'.answer = gui.answer
      /\ AttachStep.optional /\ control.at = "showing" /\ loaded
      /\ UNCHANGED <<failed, plugin, loaded, held, control>>
  BY DEF AttachSkip, Attaching, LifeTypeOK, GuiState, AttachInv, PhaseInv
<1>2. AttachFits(plugin, AttachStep, TakenBefore(AttachSteps[plugin.format], gui.step))
  BY <1>1, AttachTable DEF AttachStep, LifeTypeOK
<1>3. /\ held' \intersect Surface \subseteq TakenBefore(AttachSteps[plugin.format], gui'.step)
      /\ "window" \in held'
  <2>1. TakenBefore(AttachSteps[plugin.format], 1) = {}
    BY DEF TakenBefore
  <2>2. gui.step # 1
    BY <1>1, <1>2, <2>1 DEF AttachFits
  <2>   QED  BY <1>1, <2>2, OneMoreTaken DEF AttachStep, AttachInv
<1>4. PhaseInv'
  BY <1>1, <1>2, <1>3 DEF PhaseInv, EditorInv
<1>5. LoadingInv'
  BY <1>1, <1>2, <1>3 DEF PhaseInv, LoadingInv
<1>6. FailingInv'
  BY <1>1, <1>2, <1>3 DEF PhaseInv, FailingInv
<1>7. EmptyInv'
  BY <1>1, <1>2, <1>3 DEF PhaseInv, EmptyInv, ControllerLeft
<1>8. LoadedInv'
  BY <1>1, <1>2, <1>3 DEF PhaseInv, LoadedInv
<1>9. TeardownInv'
  BY <1>1, <1>2, <1>3 DEF PhaseInv, TeardownInv
<1>10. ReleaseInv'
  BY <1>1, <1>2, <1>3 DEF PhaseInv, ReleaseInv
<1>11. EditorInv'
  BY <1>1, <1>2, <1>3 DEF PhaseInv, EditorInv
<1>12. AttachInv'
  BY <1>1, <1>2, <1>3 DEF PhaseInv, AttachInv
<1>13. ReplyInv'
  BY <1>1, <1>2, <1>3 DEF PhaseInv, ReplyInv
<1>14. Bracketed'
  BY <1>1, <1>2, <1>3 DEF PhaseInv, Bracketed, ControllerLeft, ShowRefused
<1>   QED
  BY <1>4, <1>5, <1>6, <1>7, <1>8, <1>9, <1>10, <1>11, <1>12, <1>13, <1>14

\* A step of an attach that fails.
LEMMA AttachFailKeeps ==
  ASSUME LifeTypeOK, LifeInv, ~Lapsed, AttachFail
  PROVE  LifeInv'
<1> USE DEF LifeInv
<1>1. /\ gui.at = "attaching" /\ gui.step \in 1..Len(AttachSteps[plugin.format])
      /\ gui'.at = "undoing" /\ gui'.todo = AttachStep.undo /\ gui'.answer = gui.answer
      /\ AttachStep.fails /\ control.at = "showing" /\ loaded
      /\ UNCHANGED <<failed, plugin, loaded, held, control>>
  BY DEF AttachFail, Attaching, LifeTypeOK, GuiState, AttachInv, PhaseInv
<1>2. AttachFits(plugin, AttachStep, TakenBefore(AttachSteps[plugin.format], gui.step))
  BY <1>1, AttachTable DEF AttachStep, LifeTypeOK
<1>3. /\ held \intersect Surface \subseteq Entries(gui'.todo) \cup {"embedded"}
      /\ Ordered(plugin, gui'.todo, held \ {"embedded"})
      /\ "view" \notin Entries(gui'.todo)
  BY <1>1, <1>2 DEF AttachFits, AttachInv, LoadedInv, Ordered
<1>4. PhaseInv'
  BY <1>1, <1>2, <1>3 DEF PhaseInv, EditorInv
<1>5. LoadingInv'
  BY <1>1, <1>2, <1>3 DEF PhaseInv, LoadingInv
<1>6. FailingInv'
  BY <1>1, <1>2, <1>3 DEF PhaseInv, FailingInv
<1>7. EmptyInv'
  BY <1>1, <1>2, <1>3 DEF PhaseInv, EmptyInv, ControllerLeft
<1>8. LoadedInv'
  BY <1>1, <1>2, <1>3 DEF PhaseInv, LoadedInv
<1>9. TeardownInv'
  BY <1>1, <1>2, <1>3 DEF PhaseInv, TeardownInv
<1>10. ReleaseInv'
  BY <1>1, <1>2, <1>3 DEF PhaseInv, ReleaseInv
<1>11. EditorInv'
  BY <1>1, <1>2, <1>3 DEF PhaseInv, EditorInv
<1>12. AttachInv'
  BY <1>1, <1>2, <1>3 DEF PhaseInv, AttachInv
<1>13. ReplyInv'
  BY <1>1, <1>2, <1>3 DEF PhaseInv, ReplyInv
<1>14. Bracketed'
  BY <1>1, <1>2, <1>3 DEF PhaseInv, Bracketed, ControllerLeft, ShowRefused
<1>   QED
  BY <1>4, <1>5, <1>6, <1>7, <1>8, <1>9, <1>10, <1>11, <1>12, <1>13, <1>14

\* The end of an attach.
LEMMA AttachDoneKeeps ==
  ASSUME LifeTypeOK, LifeInv, ~Lapsed, AttachDone
  PROVE  LifeInv'
<1> USE DEF LifeInv
<1>1. /\ gui.at = "attaching" /\ gui' = [IdleGui EXCEPT !.at = "reply", !.answer = TRUE]
      /\ "window" \in held /\ control.at = "showing" /\ loaded
      /\ UNCHANGED <<failed, plugin, loaded, held, control>>
  BY TableLengths DEF AttachDone, LifeTypeOK, GuiState, AttachInv, PhaseInv
<1>2. gui'.at = "reply" /\ gui'.answer
  BY <1>1 DEF IdleGui
<1>3. PhaseInv'
  BY <1>1, <1>2 DEF PhaseInv, EditorInv
<1>4. LoadingInv'
  BY <1>1, <1>2 DEF PhaseInv, LoadingInv
<1>5. FailingInv'
  BY <1>1, <1>2 DEF PhaseInv, FailingInv
<1>6. EmptyInv'
  BY <1>1, <1>2 DEF PhaseInv, EmptyInv, ControllerLeft
<1>7. LoadedInv'
  BY <1>1, <1>2 DEF PhaseInv, LoadedInv
<1>8. TeardownInv'
  BY <1>1, <1>2 DEF PhaseInv, TeardownInv
<1>9. ReleaseInv'
  BY <1>1, <1>2 DEF PhaseInv, ReleaseInv
<1>10. EditorInv'
  BY <1>1, <1>2 DEF PhaseInv, EditorInv
<1>11. AttachInv'
  BY <1>1, <1>2 DEF PhaseInv, AttachInv
<1>12. ReplyInv'
  BY <1>1, <1>2 DEF PhaseInv, ReplyInv
<1>13. Bracketed'
  BY <1>1, <1>2 DEF PhaseInv, Bracketed, ControllerLeft, ShowRefused
<1>   QED
  BY <1>3, <1>4, <1>5, <1>6, <1>7, <1>8, <1>9, <1>10, <1>11, <1>12, <1>13

\* GuiThread::HandleHide.
LEMMA HandleHideKeeps ==
  ASSUME LifeTypeOK, LifeInv, ~Lapsed, HandleHide
  PROVE  LifeInv'
<1> USE DEF LifeInv
<1>1. /\ control.at = "hiding" /\ gui.at = "idle" /\ UNCHANGED <<failed, plugin, loaded, held, control>>
  BY DEF HandleHide, TakeRequest, Queued, Lapsed
<1>2. \/ /\ "window" \in held
         /\ gui' = [at |-> "detaching", step |-> 1, todo |-> Detach[plugin.format], answer |-> TRUE]
      \/ /\ "window" \notin held
         /\ gui' = [at |-> "reply", step |-> 1, todo |-> <<>>, answer |-> FALSE]
  BY DEF HandleHide, IdleGui
<1>3. \/ "window" \in held /\ gui'.at = "detaching" /\ gui'.todo = Detach[plugin.format] /\ gui'.answer
      \/ "window" \notin held /\ gui'.at = "reply" /\ ~gui'.answer
  BY <1>2
<1>4. gui' \in GuiState
  <2>1. <<>> \in Seq(Resource) /\ Detach[plugin.format] \in Seq(Resource)
    BY EmptySeq, ReleaseTables DEF LifeTypeOK
  <2>2. \A a \in {"reply", "detaching"}, t \in Seq(Resource), b \in BOOLEAN :
          [at |-> a, step |-> 1, todo |-> t, answer |-> b] \in GuiState
    BY DEF GuiState
  <2>   QED  BY <1>2, <2>1, <2>2
<1>5. "window" \in held =>
        /\ loaded
        /\ held \intersect Surface \subseteq Entries(Detach[plugin.format])
        /\ Ordered(plugin, Detach[plugin.format], held)
        /\ "view" \notin Entries(Detach[plugin.format])
  BY ReleaseTables DEF LoadedInv, EditorInv, EditorParts, Surface, LifeTypeOK, Ordered
<1>6. "window" \notin held => held \intersect EditorParts = {} /\ held \intersect Surface = {}
  BY <1>1 DEF EditorInv, EditorParts
<1>7. PhaseInv'
  BY <1>1, <1>2, <1>3, <1>4, <1>5, <1>6 DEF PhaseInv, EditorInv
<1>8. LoadingInv'
  BY <1>1, <1>2, <1>3, <1>4, <1>5, <1>6 DEF PhaseInv, LoadingInv
<1>9. FailingInv'
  BY <1>1, <1>2, <1>3, <1>4, <1>5, <1>6 DEF PhaseInv, FailingInv
<1>10. EmptyInv'
  BY <1>1, <1>2, <1>3, <1>4, <1>5, <1>6 DEF PhaseInv, EmptyInv, ControllerLeft
<1>11. LoadedInv'
  BY <1>1, <1>2, <1>3, <1>4, <1>5, <1>6 DEF PhaseInv, LoadedInv
<1>12. TeardownInv'
  BY <1>1, <1>2, <1>3, <1>4, <1>5, <1>6 DEF PhaseInv, TeardownInv
<1>13. ReleaseInv'
  BY <1>1, <1>2, <1>3, <1>4, <1>5, <1>6 DEF PhaseInv, ReleaseInv
<1>14. EditorInv'
  BY <1>1, <1>2, <1>3, <1>4, <1>5, <1>6 DEF PhaseInv, EditorInv
<1>15. AttachInv'
  BY <1>1, <1>2, <1>3, <1>4, <1>5, <1>6 DEF PhaseInv, AttachInv
<1>16. ReplyInv'
  BY <1>1, <1>2, <1>3, <1>4, <1>5, <1>6 DEF PhaseInv, ReplyInv
<1>17. Bracketed'
  BY <1>1, <1>2, <1>3, <1>4, <1>5, <1>6 DEF PhaseInv, Bracketed, ControllerLeft, ShowRefused
<1>   QED
  BY <1>7, <1>8, <1>9, <1>10, <1>11, <1>12, <1>13, <1>14, <1>15, <1>16, <1>17

\* GuiThread::CloseEditorOnGuiThread.
LEMMA UserClosesKeeps ==
  ASSUME LifeTypeOK, LifeInv, ~Lapsed, UserCloses
  PROVE  LifeInv'
<1> USE DEF LifeInv
<1>1. /\ gui.at = "idle" /\ "window" \in held /\ loaded /\ control.at \in {"idle", "hiding"}
      /\ UNCHANGED <<failed, plugin, loaded, held, control>>
      /\ gui' = [at |-> "detaching", step |-> 1, todo |-> Detach[plugin.format], answer |-> FALSE]
  <2>1. "window" \in held /\ gui.at = "idle" /\ control.at # "showing"
    BY DEF UserCloses
  <2>2. loaded /\ control.at \notin {"release", "teardown", "refused"}
    BY <2>1 DEF EditorInv, EditorParts, Surface
  <2>3. control.at \in {"idle", "hiding"}
    BY <2>1, <2>2 DEF PhaseInv, LifeTypeOK, ControlState
  <2>   QED  BY <2>1, <2>2, <2>3 DEF UserCloses, IdleGui
<1>2. gui'.at = "detaching" /\ gui'.todo = Detach[plugin.format] /\ ~gui'.answer
  BY <1>1
<1>3. /\ held \intersect Surface \subseteq Entries(Detach[plugin.format])
      /\ Ordered(plugin, Detach[plugin.format], held)
      /\ "view" \notin Entries(Detach[plugin.format])
  BY <1>1, ReleaseTables DEF LoadedInv, LifeTypeOK, Ordered
<1>4. PhaseInv'
  BY <1>1, <1>2, <1>3 DEF PhaseInv, EditorInv
<1>5. LoadingInv'
  BY <1>1, <1>2, <1>3 DEF PhaseInv, LoadingInv
<1>6. FailingInv'
  BY <1>1, <1>2, <1>3 DEF PhaseInv, FailingInv
<1>7. EmptyInv'
  BY <1>1, <1>2, <1>3 DEF PhaseInv, EmptyInv, ControllerLeft
<1>8. LoadedInv'
  BY <1>1, <1>2, <1>3 DEF PhaseInv, LoadedInv
<1>9. TeardownInv'
  BY <1>1, <1>2, <1>3 DEF PhaseInv, TeardownInv
<1>10. ReleaseInv'
  BY <1>1, <1>2, <1>3 DEF PhaseInv, ReleaseInv
<1>11. EditorInv'
  BY <1>1, <1>2, <1>3 DEF PhaseInv, EditorInv
<1>12. AttachInv'
  BY <1>1, <1>2, <1>3 DEF PhaseInv, AttachInv
<1>13. ReplyInv'
  BY <1>1, <1>2, <1>3 DEF PhaseInv, ReplyInv
<1>14. Bracketed'
  BY <1>1, <1>2, <1>3 DEF PhaseInv, Bracketed, ControllerLeft, ShowRefused
<1>   QED
  BY <1>4, <1>5, <1>6, <1>7, <1>8, <1>9, <1>10, <1>11, <1>12, <1>13, <1>14

\* A release of the GUI thread.
LEMMA GuiReleaseOneKeeps ==
  ASSUME LifeTypeOK, LifeInv, ~Lapsed, GuiReleaseOne
  PROVE  LifeInv'
<1> USE DEF LifeInv
<1>1. /\ gui.at \in {"undoing", "detaching", "callback"} /\ gui.todo # <<>>
      /\ gui.todo \in Seq(Resource) /\ gui'.at = gui.at /\ gui'.todo = Tail(gui.todo)
      /\ gui'.answer = gui.answer /\ held' = held \ {Head(gui.todo)}
      /\ UNCHANGED <<failed, plugin, loaded, control>>
      /\ IF gui.at = "undoing" THEN control.at = "showing" ELSE control.at \in {"idle", "hiding"}
  BY DEF GuiReleaseOne, LifeTypeOK, GuiState, PhaseInv
<1>2. /\ Tail(gui.todo) \in Seq(Resource)
      /\ Entries(gui.todo) = Entries(gui'.todo) \cup {Head(gui.todo)}
      /\ \A R : Ordered(plugin, gui.todo, R) =>
           /\ Ordered(plugin, gui'.todo, R \ {Head(gui.todo)})
           /\ \A r \in R : Head(gui.todo) \notin Needs(plugin, r)
  <2>1. ASSUME NEW R, Ordered(plugin, gui.todo, R)
        PROVE  /\ Ordered(plugin, gui'.todo, R \ {Head(gui.todo)})
               /\ \A r \in R : Head(gui.todo) \notin Needs(plugin, r)
    <3>1. gui.todo \in Seq(Resource) /\ gui.todo # <<>>
      BY <1>1
    <3>2. /\ Ordered(plugin, Tail(gui.todo), R \ {Head(gui.todo)})
          /\ \A r \in R : Head(gui.todo) \notin Needs(plugin, r)
      BY <2>1, <3>1, ReleaseInOrder
    <3>   QED  BY <1>1, <3>2
  <2>2. Ordered(plugin, gui.todo, {})
    BY DEF Ordered
  <2>   QED  BY <1>1, <2>1, <2>2, ReleaseInOrder
<1>3. /\ gui.at = "undoing" => Ordered(plugin, gui'.todo, held' \ {"embedded"})
      /\ gui.at # "undoing" => Ordered(plugin, gui'.todo, held')
  <2>1. (held \ {"embedded"}) \ {Head(gui.todo)} = held' \ {"embedded"}
    BY <1>1
  <2>   QED  BY <1>1, <1>2, <2>1 DEF AttachInv
<1>4. \A r \in held' : \/ Head(gui.todo) \notin Needs(plugin, r)
                       \/ gui.at = "undoing" /\ r = "embedded"
  BY <1>1, <1>2 DEF AttachInv
<1>5. loaded /\ "embedded" \in held => plugin.format = "clap"
  BY ClapEmbeds DEF LoadedInv, LifeTypeOK
<1>6. gui.at \in {"undoing", "detaching"} => Head(gui.todo) # "view"
  BY <1>1, <1>2 DEF AttachInv
<1>7. gui.at = "callback" => "window" \notin held
  BY DEF AttachInv, Surface
<1>8. PhaseInv'
  BY <1>1, <1>2, <1>3, <1>4, <1>5, <1>6, <1>7 DEF PhaseInv, EditorInv
<1>9. LoadingInv'
  BY <1>1, <1>2, <1>3, <1>4, <1>5, <1>6, <1>7 DEF PhaseInv, LoadingInv
<1>10. FailingInv'
  BY <1>1, <1>2, <1>3, <1>4, <1>5, <1>6, <1>7 DEF PhaseInv, FailingInv
<1>11. EmptyInv'
  BY <1>1, <1>2, <1>3, <1>4, <1>5, <1>6, <1>7 DEF PhaseInv, EmptyInv, ControllerLeft
<1>12. LoadedInv'
  BY <1>1, <1>2, <1>3, <1>4, <1>5, <1>6, <1>7 DEF PhaseInv, LoadedInv
<1>13. TeardownInv'
  BY <1>1, <1>2, <1>3, <1>4, <1>5, <1>6, <1>7 DEF PhaseInv, TeardownInv
<1>14. ReleaseInv'
  BY <1>1, <1>2, <1>3, <1>4, <1>5, <1>6, <1>7 DEF PhaseInv, ReleaseInv
<1>15. EditorInv'
  BY <1>1, <1>2, <1>3, <1>4, <1>5, <1>6, <1>7 DEF PhaseInv, EditorInv
<1>16. AttachInv'
  BY <1>1, <1>2, <1>3, <1>4, <1>5, <1>6, <1>7 DEF PhaseInv, AttachInv
<1>17. ReplyInv'
  BY <1>1, <1>2, <1>3, <1>4, <1>5, <1>6, <1>7 DEF PhaseInv, ReplyInv
<1>18. Bracketed'
  <2> SUFFICES ASSUME NEW r \in held', r \notin (ControllerLeft)', r \notin (ShowRefused)'
           PROVE  Needs(plugin, r) \subseteq held'
    BY <1>1 DEF Bracketed
  <2>1. r \notin ControllerLeft /\ r \notin ShowRefused
    BY <1>1 DEF ControllerLeft, ShowRefused
  <2>2. Head(gui.todo) \notin Needs(plugin, r)
    <3>1. ~(gui.at = "undoing" /\ r = "embedded")
      BY <1>1, <1>5, <2>1 DEF ShowRefused, PhaseInv
    <3>   QED  BY <1>4, <3>1
  <2>3. Needs(plugin, r) \subseteq held
    BY <1>1, <2>1 DEF Bracketed
  <2>   QED  BY <1>1, <2>2, <2>3
<1>   QED
  BY <1>8, <1>9, <1>10, <1>11, <1>12, <1>13, <1>14, <1>15, <1>16, <1>17, <1>18

\* The end of a list of the GUI thread.
LEMMA GuiEndReleaseKeeps ==
  ASSUME LifeTypeOK, LifeInv, ~Lapsed, GuiEndRelease
  PROVE  LifeInv'
<1> USE DEF LifeInv
<1>1. /\ gui.at \in {"undoing", "detaching", "callback"} /\ gui.todo = <<>>
      /\ UNCHANGED <<failed, plugin, loaded, held, control>>
      /\ IF gui.at = "undoing" THEN control.at = "showing" ELSE control.at \in {"idle", "hiding"}
      /\ gui.at = "detaching" /\ gui.answer => control.at = "hiding"
      /\ gui.answer => gui.at = "detaching"
      /\ loaded
  BY DEF GuiEndRelease, PhaseInv
<1>2. \/ gui.at = "callback" /\ gui' = IdleGui
      \/ (gui.at = "undoing" \/ gui.answer) /\ gui' = [gui EXCEPT !.at = "reply"]
      \/ /\ gui.at = "detaching" /\ ~gui.answer
         /\ gui' = [gui EXCEPT !.at = "callback", !.todo = ReleaseView[plugin.format]]
  BY <1>1 DEF GuiEndRelease
<1>3. \/ gui.at = "callback" /\ gui'.at = "idle" /\ ~gui'.answer
      \/ gui.at = "undoing" /\ gui'.at = "reply" /\ ~gui'.answer
      \/ gui.at = "detaching" /\ gui'.at = "reply" /\ gui'.answer /\ gui.answer
      \/ /\ gui.at = "detaching" /\ gui'.at = "callback" /\ ~gui'.answer
         /\ gui'.todo = ReleaseView[plugin.format]
  <2>1. CASE gui' = IdleGui /\ gui.at = "callback"
    BY <2>1 DEF IdleGui
  <2>2. CASE gui' = [gui EXCEPT !.at = "reply"] /\ (gui.at = "undoing" \/ gui.answer)
    BY <1>1, <2>2 DEF LifeTypeOK, GuiState
  <2>3. CASE /\ gui.at = "detaching" /\ ~gui.answer
             /\ gui' = [gui EXCEPT !.at = "callback", !.todo = ReleaseView[plugin.format]]
    BY <2>3 DEF LifeTypeOK, GuiState
  <2>   QED  BY <1>2, <2>1, <2>2, <2>3
<1>4. gui' \in GuiState
  <2>1. <<>> \in Seq(Resource) /\ ReleaseView[plugin.format] \in Seq(Resource)
    BY EmptySeq, ReleaseTables DEF LifeTypeOK
  <2>2. CASE gui' = IdleGui
    BY <2>1, <2>2 DEF IdleGui, GuiState
  <2>3. CASE gui' = [gui EXCEPT !.at = "reply"]
    BY <2>3 DEF LifeTypeOK, GuiState
  <2>4. CASE gui' = [gui EXCEPT !.at = "callback", !.todo = ReleaseView[plugin.format]]
    BY <2>1, <2>4 DEF LifeTypeOK, GuiState
  <2>   QED  BY <1>2, <2>2, <2>3, <2>4
<1>5. /\ gui.at = "callback" => held \intersect EditorParts = {}
      /\ gui.at = "undoing" => held \intersect Surface \subseteq {"embedded"}
      /\ gui.at = "detaching" => held \intersect Surface = {}
  <2>1. Entries(<<>>) = {}
    BY DEF Entries
  <2>   QED  BY <1>1, <2>1 DEF AttachInv
<1>6. held \intersect Surface = {} =>
        /\ held \intersect EditorParts \subseteq Entries(ReleaseView[plugin.format])
        /\ Ordered(plugin, ReleaseView[plugin.format], held)
  BY <1>1, HeldReleases, ReleaseTables DEF LoadedInv, LifeTypeOK, Ordered
<1>7. PhaseInv'
  BY <1>1, <1>2, <1>3, <1>4, <1>5, <1>6 DEF PhaseInv, EditorInv, Surface
<1>8. LoadingInv'
  BY <1>1, <1>2, <1>3, <1>4, <1>5, <1>6 DEF PhaseInv, LoadingInv, Surface
<1>9. FailingInv'
  BY <1>1, <1>2, <1>3, <1>4, <1>5, <1>6 DEF PhaseInv, FailingInv, Surface
<1>10. EmptyInv'
  BY <1>1, <1>2, <1>3, <1>4, <1>5, <1>6 DEF PhaseInv, EmptyInv, ControllerLeft, Surface
<1>11. LoadedInv'
  BY <1>1, <1>2, <1>3, <1>4, <1>5, <1>6 DEF PhaseInv, LoadedInv, Surface
<1>12. TeardownInv'
  BY <1>1, <1>2, <1>3, <1>4, <1>5, <1>6 DEF PhaseInv, TeardownInv, Surface
<1>13. ReleaseInv'
  BY <1>1, <1>2, <1>3, <1>4, <1>5, <1>6 DEF PhaseInv, ReleaseInv, Surface
<1>14. EditorInv'
  BY <1>1, <1>2, <1>3, <1>4, <1>5, <1>6 DEF PhaseInv, EditorInv, Surface
<1>15. AttachInv'
  BY <1>1, <1>2, <1>3, <1>4, <1>5, <1>6 DEF PhaseInv, AttachInv, Surface
<1>16. ReplyInv'
  BY <1>1, <1>2, <1>3, <1>4, <1>5, <1>6 DEF PhaseInv, ReplyInv, Surface
<1>17. Bracketed'
  BY <1>1, <1>2, <1>3, <1>4, <1>5, <1>6 DEF PhaseInv, Bracketed, ControllerLeft, ShowRefused, Surface
<1>   QED
  BY <1>7, <1>8, <1>9, <1>10, <1>11, <1>12, <1>13, <1>14, <1>15, <1>16, <1>17

\* The answer, and what the command does with it.
LEMMA ReplyKeeps ==
  ASSUME LifeTypeOK, LifeInv, ~Lapsed, Reply
  PROVE  LifeInv'
<1> USE DEF LifeInv
<1>1. /\ gui.at = "reply" /\ gui' = IdleGui /\ gui'.at = "idle" /\ ~gui'.answer
      /\ UNCHANGED <<failed, plugin, loaded, held>> /\ control.at \in {"showing", "hiding"}
  BY DEF Reply, PhaseInv, IdleGui
<1>2. \/ control.at = "showing" /\ gui.answer /\ control' = IdleControl
      \/ /\ control.at = "showing" /\ ~gui.answer
         /\ control' = [control EXCEPT !.at = "refused", !.todo = ReleaseView[plugin.format]]
      \/ /\ control.at = "hiding" /\ gui.answer
         /\ control' = [control EXCEPT !.at = "release", !.todo = ReleaseView[plugin.format]]
      \/ control.at = "hiding" /\ ~gui.answer /\ control' = IdleControl
      \/ control.at = "hiding" /\ control' = StartTeardown
  BY <1>1 DEF Reply, Answered, StartRelease, Lapsed
<1>3. \/ control.at = "showing" /\ gui.answer /\ control'.at = "idle"
      \/ /\ control.at = "showing" /\ ~gui.answer /\ control'.at = "refused"
         /\ control'.todo = ReleaseView[plugin.format]
      \/ /\ control.at = "hiding" /\ gui.answer /\ control'.at = "release"
         /\ control'.todo = ReleaseView[plugin.format]
      \/ control.at = "hiding" /\ ~gui.answer /\ control'.at = "idle"
      \/ /\ control.at = "hiding" /\ control'.at = "teardown"
         /\ control'.todo = IF loaded THEN Teardown[plugin.format] ELSE <<>>
  <2>1. CASE control' = IdleControl
    BY <1>2, <2>1 DEF IdleControl, StartTeardown, LifeTypeOK, ControlState
  <2>2. CASE /\ control.at = "showing" /\ ~gui.answer
             /\ control' = [control EXCEPT !.at = "refused", !.todo = ReleaseView[plugin.format]]
    BY <2>2 DEF LifeTypeOK, ControlState
  <2>3. CASE /\ control.at = "hiding" /\ gui.answer
             /\ control' = [control EXCEPT !.at = "release", !.todo = ReleaseView[plugin.format]]
    BY <2>3 DEF LifeTypeOK, ControlState
  <2>4. CASE control.at = "hiding" /\ control' = StartTeardown
    BY <2>4 DEF StartTeardown, LifeTypeOK, ControlState
  <2>   QED  BY <1>2, <2>1, <2>2, <2>3, <2>4
<1>4. control' \in ControlState
  <2>1. /\ <<>> \in Seq(Resource) /\ ReleaseView[plugin.format] \in Seq(Resource)
        /\ Teardown[plugin.format] \in Seq(Resource)
    BY EmptySeq, ReleaseTables DEF LifeTypeOK
  <2>2. CASE control' = StartTeardown
    BY <2>1, <2>2 DEF StartTeardown, LifeTypeOK, ControlState
  <2>3. CASE control' = IdleControl
    BY <2>1, <2>3 DEF IdleControl, ControlState
  <2>4. ASSUME NEW a \in {"refused", "release"},
               control' = [control EXCEPT !.at = a, !.todo = ReleaseView[plugin.format]]
        PROVE  control' \in ControlState
    BY <2>1, <2>4 DEF LifeTypeOK, ControlState
  <2>   QED  BY <1>2, <2>2, <2>3, <2>4
<1>5. /\ control.at = "showing" /\ gui.answer => "window" \in held
      /\ control.at = "showing" /\ ~gui.answer => held \intersect Surface \subseteq {"embedded"}
      /\ control.at = "hiding" => held \intersect Surface = {}
      /\ control.at = "hiding" /\ ~gui.answer => held \intersect EditorParts = {}
      /\ control.at = "showing" \/ gui.answer => loaded
      /\ "window" \in held => "view" \in held
  BY <1>1 DEF ReplyInv, PhaseInv, EditorInv
<1>6. loaded /\ held \intersect Surface \subseteq {"embedded"} =>
        /\ held \intersect EditorParts \subseteq Entries(ReleaseView[plugin.format])
        /\ Ordered(plugin, ReleaseView[plugin.format], held \ {"embedded"})
  BY HeldReleases DEF LifeInv
<1>7. loaded /\ held \intersect Surface = {} =>
        /\ Ordered(plugin, ReleaseView[plugin.format], held)
        /\ held \subseteq Entries(Teardown[plugin.format])
        /\ Ordered(plugin, Teardown[plugin.format], held)
  BY ReleaseTables DEF LoadedInv, LifeTypeOK, Ordered
<1>8. PhaseInv'
  BY <1>1, <1>2, <1>3, <1>4, <1>5, <1>6, <1>7 DEF PhaseInv, EditorInv, EditorParts, Surface
<1>9. LoadingInv'
  BY <1>1, <1>2, <1>3, <1>4, <1>5, <1>6, <1>7 DEF PhaseInv, LoadingInv, EditorParts, Surface
<1>10. FailingInv'
  BY <1>1, <1>2, <1>3, <1>4, <1>5, <1>6, <1>7 DEF PhaseInv, FailingInv, EditorParts, Surface
<1>11. EmptyInv'
  BY <1>1, <1>2, <1>3, <1>4, <1>5, <1>6, <1>7 DEF PhaseInv, EmptyInv, ControllerLeft, EditorParts, Surface
<1>12. LoadedInv'
  BY <1>1, <1>2, <1>3, <1>4, <1>5, <1>6, <1>7 DEF PhaseInv, LoadedInv, EditorParts, Surface
<1>13. TeardownInv'
  BY <1>1, <1>2, <1>3, <1>4, <1>5, <1>6, <1>7 DEF PhaseInv, TeardownInv, EditorParts, Surface
<1>14. ReleaseInv'
  BY <1>1, <1>2, <1>3, <1>4, <1>5, <1>6, <1>7 DEF PhaseInv, ReleaseInv, EditorParts, Surface
<1>15. EditorInv'
  BY <1>1, <1>2, <1>3, <1>4, <1>5, <1>6, <1>7 DEF PhaseInv, EditorInv, EditorParts, Surface
<1>16. AttachInv'
  BY <1>1, <1>2, <1>3, <1>4, <1>5, <1>6, <1>7 DEF PhaseInv, AttachInv, EditorParts, Surface
<1>17. ReplyInv'
  BY <1>1, <1>2, <1>3, <1>4, <1>5, <1>6, <1>7 DEF PhaseInv, ReplyInv, EditorParts, Surface
<1>18. Bracketed'
  BY <1>1, <1>2, <1>3, <1>4, <1>5, <1>6, <1>7 DEF PhaseInv, Bracketed, ControllerLeft, ShowRefused, EditorParts, Surface
<1>   QED
  BY <1>8, <1>9, <1>10, <1>11, <1>12, <1>13, <1>14, <1>15, <1>16, <1>17, <1>18

----------------------------------------------------------------------------
(* Every step of the round keeps the invariant. *)

\* A step as the round sees it.
Opening == \E format \in Format : Open(format)
EmptyKnob == knob' = NoKnob /\ UNCHANGED <<open, size, notices, registry, round>>

LoopMove ==
  \/ RoundNext \/ NextEvent \/ PluginNext \/ RequestFlush \/ UserResizes
  \/ Opening \/ Close \/ EmptyKnob \/ UNCHANGED loopvars

\* The callback made, or passed over, comes off the list.
LEMMA MakeTypes ==
  ASSUME LoopTypeOK, NEW allowed, Make(allowed)
  PROVE  round' \in [at : Place, todo : SUBSET Call, call : Call]
<1>1. PICK c \in round.todo :
        round' = [round EXCEPT !.todo = round.todo \ {c}, !.call = IF c \in allowed THEN c ELSE NoCall]
  BY DEF Make
<1>2. c \in Call /\ NoCall \in Call /\ round.todo \ {c} \subseteq Call
  BY DEF LoopTypeOK, NoCall, Call
<1>3. PICK d \in Call : d = IF c \in allowed THEN c ELSE NoCall
  BY <1>2
<1>4. PICK rest \in SUBSET Call : rest = round.todo \ {c}
  BY <1>2
<1>5. round' = [round EXCEPT !.todo = rest, !.call = d]
  BY <1>1, <1>3, <1>4
<1>   QED  BY <1>5 DEF LoopTypeOK

LEMMA LoopMoves ==
  ASSUME LifeTypeOK, [Next]_vars
  PROVE  LoopMove
<1>1. plugin.format \in Format
  BY DEF LifeTypeOK, Plugin, Format
<1>   QED
  BY <1>1 DEF Next, LifeStep, EmptySlot, Opens, Closes, LoopStep, OtherStep, LoopMove, Opening,
              EmptyKnob, PluginNext, vars

\* A queued change keeps its request.
LEMMA KnobKept ==
  ASSUME LoopTypeOK, KnobNeverStranded, LoopMove
  PROVE  KnobNeverStranded'
<1> USE DEF KnobNeverStranded, LoopTypeOK, registry, At, Go
<1>1. CASE StartRound
  BY <1>1 DEF StartRound
<1>2. CASE EventsDone
  BY <1>2 DEF EventsDone
<1>3. CASE IdleTick
  BY <1>3 DEF IdleTick
<1>4. CASE TestFlag
  BY <1>4 DEF TestFlag
<1>5. CASE Flush
  BY <1>5 DEF Flush
<1>6. CASE ReportFlush
  BY <1>6 DEF ReportFlush
<1>7. CASE CollectTimers
  BY <1>7 DEF CollectTimers
<1>8. CASE FireTimer
  BY <1>8 DEF FireTimer, Make
<1>9. CASE TimersDone
  BY <1>9 DEF TimersDone
<1>10. CASE Select
  BY <1>10 DEF Select
<1>11. CASE DispatchFd
  BY <1>11 DEF DispatchFd, Make
<1>12. CASE EndRound
  BY <1>12 DEF EndRound
<1>13. CASE Return
  BY <1>13 DEF Return
<1>14. CASE NextEvent
  BY <1>14 DEF NextEvent, OnEvent
<1>15. CASE registerEventHandler
  BY <1>15 DEF registerEventHandler, InCall, Changes
<1>16. CASE unregisterEventHandler
  BY <1>16 DEF unregisterEventHandler, InCall, Changes
<1>17. CASE registerTimer
  BY <1>17 DEF registerTimer, InCall, Changes
<1>18. CASE unregisterTimer
  BY <1>18 DEF unregisterTimer, InCall, Changes
<1>19. CASE resizeView
  BY <1>19 DEF resizeView, Resized, InCall
<1>20. CASE TurnKnob
  BY <1>20 DEF TurnKnob
<1>21. CASE Process
  BY <1>21 DEF Process
<1>22. CASE ReportProcess
  BY <1>22 DEF ReportProcess
<1>23. CASE RequestFlush
  BY <1>23 DEF RequestFlush
<1>24. CASE UserResizes
  BY <1>24 DEF UserResizes, Resized
<1>25. CASE Opening
  BY <1>25 DEF Opening, Open, SizeAfterAttach
<1>26. CASE Close
  BY <1>26 DEF Close, Top, AnySize
<1>27. CASE EmptyKnob
  BY <1>27 DEF EmptyKnob, NoKnob
<1>28. CASE UNCHANGED loopvars
  BY <1>28 DEF loopvars
<1>   QED
  BY <1>1, <1>2, <1>3, <1>4, <1>5, <1>6, <1>7, <1>8, <1>9, <1>10, <1>11, <1>12, <1>13, <1>14, <1>15, <1>16, <1>17, <1>18, <1>19, <1>20, <1>21, <1>22, <1>23, <1>24, <1>25, <1>26, <1>27, <1>28
     DEF LoopMove, RoundNext, PluginNext

\* The list of callbacks.
LEMMA RoundKept ==
  ASSUME LoopTypeOK, RoundInv, LoopMove
  PROVE  RoundInv'
<1> USE DEF RoundInv, LoopTypeOK, Call, NoCall, registry, At, Go
<1>1. CASE StartRound
  BY <1>1 DEF StartRound
<1>2. CASE EventsDone
  BY <1>2 DEF EventsDone
<1>3. CASE IdleTick
  BY <1>3 DEF IdleTick
<1>4. CASE TestFlag
  BY <1>4 DEF TestFlag
<1>5. CASE Flush
  BY <1>5 DEF Flush
<1>6. CASE ReportFlush
  BY <1>6 DEF ReportFlush
<1>7. CASE CollectTimers
  BY <1>7 DEF CollectTimers
<1>8. CASE FireTimer
  BY <1>8 DEF FireTimer, Make
<1>9. CASE TimersDone
  BY <1>9 DEF TimersDone
<1>10. CASE Select
  BY <1>10 DEF Select
<1>11. CASE DispatchFd
  BY <1>11 DEF DispatchFd, Make
<1>12. CASE EndRound
  BY <1>12 DEF EndRound
<1>13. CASE Return
  BY <1>13 DEF Return
<1>14. CASE NextEvent
  <2>1. /\ round.at = "events" /\ open # None /\ round.todo = {}
        /\ UNCHANGED <<open, fds, timers, changed>>
    BY <1>14 DEF NextEvent
  <2>2. round'.at = "events" /\ round'.todo = {}
    BY <1>14, <2>1 DEF NextEvent
  <2>   QED  BY <2>1, <2>2
<1>15. CASE registerEventHandler
  BY <1>15 DEF registerEventHandler, InCall, Changes
<1>16. CASE unregisterEventHandler
  BY <1>16 DEF unregisterEventHandler, InCall, Changes
<1>17. CASE registerTimer
  BY <1>17 DEF registerTimer, InCall, Changes
<1>18. CASE unregisterTimer
  BY <1>18 DEF unregisterTimer, InCall, Changes
<1>19. CASE resizeView
  BY <1>19 DEF resizeView, Resized, InCall
<1>20. CASE TurnKnob
  BY <1>20 DEF TurnKnob
<1>21. CASE Process
  BY <1>21 DEF Process
<1>22. CASE ReportProcess
  BY <1>22 DEF ReportProcess
<1>23. CASE RequestFlush
  BY <1>23 DEF RequestFlush
<1>24. CASE UserResizes
  BY <1>24 DEF UserResizes, Resized
<1>25. CASE Opening
  BY <1>25 DEF Opening, Open, SizeAfterAttach
<1>26. CASE Close
  BY <1>26 DEF Close, Top, AnySize
<1>27. CASE EmptyKnob
  BY <1>27 DEF EmptyKnob, NoKnob
<1>28. CASE UNCHANGED loopvars
  BY <1>28 DEF loopvars
<1>   QED
  BY <1>1, <1>2, <1>3, <1>4, <1>5, <1>6, <1>7, <1>8, <1>9, <1>10, <1>11, <1>12, <1>13, <1>14, <1>15, <1>16, <1>17, <1>18, <1>19, <1>20, <1>21, <1>22, <1>23, <1>24, <1>25, <1>26, <1>27, <1>28
     DEF LoopMove, RoundNext, PluginNext

\* Types.
LEMMA LoopTypes ==
  ASSUME LoopTypeOK, LoopMove
  PROVE  LoopTypeOK'
<1> USE DEF LoopTypeOK, Call, NoCall, Place, registry, At, Go
<1>1. CASE StartRound
  BY <1>1, LoopAssumption DEF StartRound
<1>2. CASE EventsDone
  BY <1>2, LoopAssumption DEF EventsDone
<1>3. CASE IdleTick
  BY <1>3, LoopAssumption DEF IdleTick
<1>4. CASE TestFlag
  <2>1. /\ knob' = [knob EXCEPT !.flush = FALSE] /\ UNCHANGED <<open, size, notices, registry>>
        /\ \E p \in {"flush", "collect"} : round' = [round EXCEPT !.at = p]
    BY <1>4 DEF TestFlag, Go
  <2>   QED  BY <2>1 DEF LoopTypeOK, Place, registry
<1>5. CASE Flush
  BY <1>5, LoopAssumption DEF Flush
<1>6. CASE ReportFlush
  BY <1>6, LoopAssumption DEF ReportFlush
<1>7. CASE CollectTimers
  <2>1. PICK due \in SUBSET timers :
          round' = [round EXCEPT !.at = "fire", !.todo = {[kind |-> "timer", id |-> t, to |-> None] : t \in due}]
    BY <1>7 DEF CollectTimers
  <2>2. {[kind |-> "timer", id |-> t, to |-> None] : t \in due} \subseteq Call
    BY <2>1 DEF Call, LoopTypeOK
  <2>   QED  BY <1>7, <2>1, <2>2 DEF CollectTimers, LoopTypeOK, Place, registry
<1>8. CASE FireTimer
  <2>   HIDE DEF Call, NoCall, Place, LoopTypeOK
  <2>1. round' \in [at : Place, todo : SUBSET Call, call : Call]
    BY <1>8, MakeTypes DEF FireTimer
  <2>   QED  BY <1>8, <2>1 DEF FireTimer, LoopTypeOK, registry
<1>9. CASE TimersDone
  BY <1>9, LoopAssumption DEF TimersDone
<1>10. CASE Select
  <2>1. PICK ready \in SUBSET {f \in Fd : fds[f] # None} :
          round' = [round EXCEPT !.at = "dispatch",
                                 !.todo = {[kind |-> "fd", id |-> f, to |-> fds[f]] : f \in ready}]
    BY <1>10 DEF Select
  <2>2. {[kind |-> "fd", id |-> f, to |-> fds[f]] : f \in ready} \subseteq Call
    BY <2>1 DEF Call, LoopTypeOK
  <2>   QED  BY <1>10, <2>1, <2>2 DEF Select, LoopTypeOK, Place, registry
<1>11. CASE DispatchFd
  <2>   HIDE DEF Call, NoCall, Place, LoopTypeOK
  <2>1. round' \in [at : Place, todo : SUBSET Call, call : Call]
    BY <1>11, MakeTypes DEF DispatchFd
  <2>   QED  BY <1>11, <2>1 DEF DispatchFd, LoopTypeOK, registry
<1>12. CASE EndRound
  BY <1>12, LoopAssumption DEF EndRound
<1>13. CASE Return
  BY <1>13, LoopAssumption DEF Return
<1>14. CASE NextEvent
  <2>1. notices \in Seq(Size) /\ notices # <<>> /\ notices' = Tail(notices)
    BY <1>14 DEF NextEvent, LoopTypeOK
  <2>2. /\ Head(notices) \in Size /\ Tail(notices) \in Seq(Size)
        /\ Len(notices) \in Nat /\ Len(Tail(notices)) = Len(notices) - 1
    BY <2>1, HeadTailProperties, LenProperties
  <2>3. NoCall \in Call /\ [NoCall EXCEPT !.kind = "size"] \in Call
    BY DEF NoCall, Call
  <2>   HIDE DEF Call, NoCall, Place
  <2>4. round' \in [at : Place, todo : SUBSET Call, call : Call]
    BY <1>14, <2>3 DEF NextEvent
  <2>5. size' \in [x : Size, width : Size, view : Size]
    BY <1>14, <2>2 DEF NextEvent, OnEvent
  <2>6. notices' \in Seq(Size) /\ Len(notices') <= MaxNotices
    BY <2>1, <2>2, LoopAssumption
  <2>   QED  BY <1>14, <2>4, <2>5, <2>6 DEF NextEvent
<1>15. CASE registerEventHandler
  BY <1>15, LoopAssumption DEF registerEventHandler, InCall, Changes
<1>16. CASE unregisterEventHandler
  BY <1>16, LoopAssumption DEF unregisterEventHandler, InCall, Changes
<1>17. CASE registerTimer
  BY <1>17, LoopAssumption DEF registerTimer, InCall, Changes
<1>18. CASE unregisterTimer
  BY <1>18, LoopAssumption DEF unregisterTimer, InCall, Changes
<1>19. CASE resizeView
  BY <1>19, LoopAssumption DEF resizeView, Resized, InCall
<1>20. CASE TurnKnob
  BY <1>20, LoopAssumption DEF TurnKnob
<1>21. CASE Process
  BY <1>21, LoopAssumption DEF Process
<1>22. CASE ReportProcess
  BY <1>22, LoopAssumption DEF ReportProcess
<1>23. CASE RequestFlush
  BY <1>23, LoopAssumption DEF RequestFlush
<1>24. CASE UserResizes
  BY <1>24, LoopAssumption DEF UserResizes, Resized
<1>25. CASE Opening
  BY <1>25, LoopAssumption DEF Opening, Open, SizeAfterAttach
<1>26. CASE Close
  BY <1>26, LoopAssumption DEF Close, Top, AnySize
<1>27. CASE EmptyKnob
  BY <1>27, LoopAssumption DEF EmptyKnob, NoKnob
<1>28. CASE UNCHANGED loopvars
  BY <1>28, LoopAssumption DEF loopvars
<1>   QED
  BY <1>1, <1>2, <1>3, <1>4, <1>5, <1>6, <1>7, <1>8, <1>9, <1>10, <1>11, <1>12, <1>13, <1>14, <1>15, <1>16, <1>17, <1>18, <1>19, <1>20, <1>21, <1>22, <1>23, <1>24, <1>25, <1>26, <1>27, <1>28
     DEF LoopMove, RoundNext, PluginNext

\* The last event brings the size of the window.
LEMMA SizeKept ==
  ASSUME LoopTypeOK, SizeInv, LoopMove
  PROVE  SizeInv'
<1> USE DEF SizeInv, LoopTypeOK, registry, At, Go
<1>1. CASE StartRound
  BY <1>1 DEF StartRound
<1>2. CASE EventsDone
  BY <1>2 DEF EventsDone
<1>3. CASE IdleTick
  BY <1>3 DEF IdleTick
<1>4. CASE TestFlag
  BY <1>4 DEF TestFlag
<1>5. CASE Flush
  BY <1>5 DEF Flush
<1>6. CASE ReportFlush
  BY <1>6 DEF ReportFlush
<1>7. CASE CollectTimers
  BY <1>7 DEF CollectTimers
<1>8. CASE FireTimer
  BY <1>8 DEF FireTimer, Make
<1>9. CASE TimersDone
  BY <1>9 DEF TimersDone
<1>10. CASE Select
  BY <1>10 DEF Select
<1>11. CASE DispatchFd
  BY <1>11 DEF DispatchFd, Make
<1>12. CASE EndRound
  BY <1>12 DEF EndRound
<1>13. CASE Return
  BY <1>13 DEF Return
<1>14. CASE NextEvent
  <2>1. /\ notices \in Seq(Size) /\ notices # <<>> /\ notices' = Tail(notices)
        /\ size' = IF Head(notices) # size.width THEN OnEvent(Head(notices)) ELSE size
        /\ open' = open /\ open # None
    BY <1>14 DEF NextEvent
  <2>2. /\ Len(notices) \in Nat \ {0} /\ Head(notices) = notices[1]
        /\ Len(Tail(notices)) = Len(notices) - 1
        /\ \A i \in 1..Len(Tail(notices)) : Tail(notices)[i] = notices[i + 1]
        /\ Tail(notices) \in Seq(Size)
    BY <2>1, HeadTailProperties, LenProperties, EmptySeq
  <2>3. /\ size'.x = size.x /\ size'.width = Head(notices) /\ size'.view = Head(notices)
    BY <2>1 DEF OnEvent
  <2>4. size.x = notices[Len(notices)]
    BY <2>1
  <2>5. CASE Len(notices) = 1
    BY <2>1, <2>2, <2>3, <2>4, <2>5, EmptySeq
  <2>6. CASE Len(notices) # 1
    <3>1. Len(Tail(notices)) \in 1..Len(Tail(notices))
      BY <2>2, <2>6
    <3>2. Tail(notices) # <<>>
      <4>1. Tail(notices) \in Seq(Size) /\ Len(Tail(notices)) # 0
        BY <2>2, <2>6
      <4>   QED  BY <4>1, EmptySeq
    <3>   QED  BY <2>1, <2>2, <2>3, <2>4, <3>1, <3>2
  <2>   QED  BY <2>5, <2>6
<1>15. CASE registerEventHandler
  BY <1>15 DEF registerEventHandler, InCall, Changes
<1>16. CASE unregisterEventHandler
  BY <1>16 DEF unregisterEventHandler, InCall, Changes
<1>17. CASE registerTimer
  BY <1>17 DEF registerTimer, InCall, Changes
<1>18. CASE unregisterTimer
  BY <1>18 DEF unregisterTimer, InCall, Changes
<1>19. CASE resizeView
  BY <1>19 DEF resizeView, Resized, InCall
<1>20. CASE TurnKnob
  BY <1>20 DEF TurnKnob
<1>21. CASE Process
  BY <1>21 DEF Process
<1>22. CASE ReportProcess
  BY <1>22 DEF ReportProcess
<1>23. CASE RequestFlush
  BY <1>23 DEF RequestFlush
<1>24. CASE UserResizes
  BY <1>24 DEF UserResizes, Resized
<1>25. CASE Opening
  BY <1>25 DEF Opening, Open, SizeAfterAttach
<1>26. CASE Close
  BY <1>26 DEF Close, Top, AnySize
<1>27. CASE EmptyKnob
  BY <1>27 DEF EmptyKnob, NoKnob
<1>28. CASE UNCHANGED loopvars
  BY <1>28 DEF loopvars
<1>   QED
  BY <1>1, <1>2, <1>3, <1>4, <1>5, <1>6, <1>7, <1>8, <1>9, <1>10, <1>11, <1>12, <1>13, <1>14, <1>15, <1>16, <1>17, <1>18, <1>19, <1>20, <1>21, <1>22, <1>23, <1>24, <1>25, <1>26, <1>27, <1>28
     DEF LoopMove, RoundNext, PluginNext

\* A callback is made for a registration that still stands.
LEMMA CallIsCurrent ==
  ASSUME LoopTypeOK, RoundInv, round'.call # round.call, LoopMove
  PROVE  Current(round'.call)
<1> USE DEF RoundInv, LoopTypeOK, NoCall, Current, registry, At, Go
<1>1. CASE StartRound
  BY <1>1 DEF StartRound
<1>2. CASE EventsDone
  BY <1>2 DEF EventsDone
<1>3. CASE IdleTick
  BY <1>3 DEF IdleTick
<1>4. CASE TestFlag
  BY <1>4 DEF TestFlag
<1>5. CASE Flush
  BY <1>5 DEF Flush
<1>6. CASE ReportFlush
  BY <1>6 DEF ReportFlush
<1>7. CASE CollectTimers
  BY <1>7 DEF CollectTimers
<1>8. CASE FireTimer
  <2>1. PICK c \in round.todo :
          round'.call = IF c \in {d \in round.todo : StillTimer(d)} THEN c ELSE NoCall
    BY <1>8 DEF FireTimer, Make
  <2>2. round.at = "fire"
    BY <1>8 DEF FireTimer
  <2>   QED  BY <2>1, <2>2 DEF StillTimer
<1>9. CASE TimersDone
  BY <1>9 DEF TimersDone
<1>10. CASE Select
  BY <1>10 DEF Select
<1>11. CASE DispatchFd
  <2>1. PICK c \in round.todo :
          round'.call = IF c \in {d \in round.todo : StillRegistered(d)} THEN c ELSE NoCall
    BY <1>11 DEF DispatchFd, Make
  <2>2. round.at = "dispatch"
    BY <1>11 DEF DispatchFd
  <2>   QED  BY <2>1, <2>2 DEF StillRegistered
<1>12. CASE EndRound
  BY <1>12 DEF EndRound
<1>13. CASE Return
  BY <1>13 DEF Return
<1>14. CASE NextEvent
  BY <1>14 DEF NextEvent, OnEvent
<1>15. CASE registerEventHandler
  BY <1>15 DEF registerEventHandler, InCall, Changes
<1>16. CASE unregisterEventHandler
  BY <1>16 DEF unregisterEventHandler, InCall, Changes
<1>17. CASE registerTimer
  BY <1>17 DEF registerTimer, InCall, Changes
<1>18. CASE unregisterTimer
  BY <1>18 DEF unregisterTimer, InCall, Changes
<1>19. CASE resizeView
  BY <1>19 DEF resizeView, Resized, InCall
<1>20. CASE TurnKnob
  BY <1>20 DEF TurnKnob
<1>21. CASE Process
  BY <1>21 DEF Process
<1>22. CASE ReportProcess
  BY <1>22 DEF ReportProcess
<1>23. CASE RequestFlush
  BY <1>23 DEF RequestFlush
<1>24. CASE UserResizes
  BY <1>24 DEF UserResizes, Resized
<1>25. CASE Opening
  BY <1>25 DEF Opening, Open, SizeAfterAttach
<1>26. CASE Close
  BY <1>26 DEF Close, Top, AnySize
<1>27. CASE EmptyKnob
  BY <1>27 DEF EmptyKnob, NoKnob
<1>28. CASE UNCHANGED loopvars
  BY <1>28 DEF loopvars
<1>   QED
  BY <1>1, <1>2, <1>3, <1>4, <1>5, <1>6, <1>7, <1>8, <1>9, <1>10, <1>11, <1>12, <1>13, <1>14, <1>15, <1>16, <1>17, <1>18, <1>19, <1>20, <1>21, <1>22, <1>23, <1>24, <1>25, <1>26, <1>27, <1>28
     DEF LoopMove, RoundNext, PluginNext

----------------------------------------------------------------------------
(* The two together. *)

\* Types of the plugin's life, after a lapse as well.
LEMMA LifeTypes ==
  ASSUME LifeTypeOK, [Next]_vars
  PROVE  LifeTypeOK'
<1> USE DEF LifeTypeOK
<1>a. /\ <<>> \in Seq(Resource) /\ plugin.format \in {"vst3", "vst2", "clap"}
      /\ Teardown[plugin.format] \in Seq(Resource) /\ Detach[plugin.format] \in Seq(Resource)
      /\ ReleaseView[plugin.format] \in Seq(Resource)
  BY EmptySeq, ReleaseTables DEF Plugin
<1>b. IdleControl \in ControlState /\ IdleGui \in GuiState
  BY <1>a DEF IdleControl, IdleGui, ControlState, GuiState
<1>c. StartTeardown \in ControlState
  <2>1. PICK t \in Seq(Resource) : t = IF loaded THEN Teardown[plugin.format] ELSE <<>>
    BY <1>a
  <2>2. StartTeardown = [control EXCEPT !.at = "teardown", !.todo = t]
    BY <2>1 DEF StartTeardown
  <2>   QED  BY <2>2 DEF ControlState
<1>d. StartRelease("refused") \in ControlState /\ StartRelease("release") \in ControlState
  BY <1>a DEF StartRelease, ControlState
<1>e. ASSUME NEW open_, Answered(open_) PROVE control' \in ControlState
  BY <1>b, <1>c, <1>d, <1>e DEF Answered
<1>f. ASSUME Loading PROVE control.step \in 1..Len(LoadSteps[plugin.format])
  BY <1>f, TableLengths DEF Loading, ControlState
<1>g. ASSUME Attaching PROVE gui.step \in 1..Len(AttachSteps[plugin.format])
  BY <1>g, TableLengths DEF Attaching, GuiState
<1>1. CASE StartCommand
  <2>1. PICK c \in {"load", "unload", "hide", "quit"} :
          control' = [at |-> "hiding", step |-> 1, todo |-> <<>>, command |-> c]
    BY <1>1, CommandSets DEF StartCommand
  <2>   QED  BY <1>1, <1>a, <2>1 DEF StartCommand, ControlState
<1>2. CASE EndTeardown
  <2>1. \/ control' = [at |-> "loading", step |-> 1, todo |-> <<>>, command |-> "load"]
        \/ control' = IdleControl
    BY <1>2, CommandSets DEF EndTeardown
  <2>2. [at |-> "loading", step |-> 1, todo |-> <<>>, command |-> "load"] \in ControlState
    BY <1>a DEF ControlState
  <2>3. control' \in ControlState
    BY <1>b, <2>1, <2>2
  <2>   QED  BY <1>2, <2>3 DEF EndTeardown
<1>3. CASE Take
  <2>1. LoadStep.takes \in Resource
    BY <1>3, <1>f, LoadTable, OwnResources DEF Take, LoadStep, StepFits
  <2>   QED  BY <1>3, <2>1 DEF Take, NextLoadStep, ControlState
<1>4. CASE Skip
  BY <1>4 DEF Skip, NextLoadStep, ControlState
<1>5. CASE Fail
  <2>1. LoadStep.undo \in Seq(Resource)
    BY <1>5, <1>f, LoadTable DEF Fail, LoadStep, StepFits
  <2>   QED  BY <1>5, <2>1 DEF Fail, ControlState
<1>6. CASE Publish
  BY <1>6, <1>b DEF Publish
<1>7. CASE ReleaseOne
  <2>1. Tail(control.todo) \in Seq(Resource)
    BY <1>7, HeadTailProperties DEF ReleaseOne, ControlState
  <2>   QED  BY <1>7, <2>1 DEF ReleaseOne, ControlState
<1>8. CASE EndRelease
  BY <1>8, <1>b, <1>c DEF EndRelease
<1>9. CASE SlotShowEditor
  <2>1. control' = [at |-> "showing", step |-> 1, todo |-> <<>>, command |-> "show"]
    BY <1>9, CommandSets DEF SlotShowEditor
  <2>2. control' \in ControlState
    BY <1>a, <2>1 DEF ControlState
  <2>3. held' \subseteq held \cup {"view", "gui"}
    BY <1>9 DEF SlotShowEditor
  <2>   QED  BY <1>9, <2>2, <2>3 DEF SlotShowEditor, Resource
<1>10. CASE HandleShow
  <2>1. gui' \in GuiState
    BY <1>10, <1>b DEF HandleShow, GuiState
  <2>   QED  BY <1>10, <2>1 DEF HandleShow, TakeRequest
<1>11. CASE AttachTake
  <2>1. AttachStep.takes \in Resource
    BY <1>11, <1>g, AttachTable, OwnResources DEF AttachTake, AttachStep, AttachFits
  <2>   QED  BY <1>11, <2>1 DEF AttachTake, GuiState
<1>12. CASE AttachSkip
  BY <1>12 DEF AttachSkip, GuiState
<1>13. CASE AttachFail
  <2>1. AttachStep.undo \in Seq(Resource)
    BY <1>13, <1>g, AttachTable DEF AttachFail, AttachStep, AttachFits
  <2>   QED  BY <1>13, <2>1 DEF AttachFail, GuiState
<1>14. CASE AttachDone
  BY <1>14, <1>b DEF AttachDone, GuiState
<1>15. CASE HandleHide
  <2>1. gui' \in GuiState
    BY <1>15, <1>a, <1>b DEF HandleHide, GuiState
  <2>   QED  BY <1>15, <2>1 DEF HandleHide, TakeRequest
<1>16. CASE UserCloses
  BY <1>16, <1>a, <1>b DEF UserCloses, GuiState
<1>17. CASE GuiReleaseOne
  <2>1. Tail(gui.todo) \in Seq(Resource)
    BY <1>17, HeadTailProperties DEF GuiReleaseOne, GuiState
  <2>   QED  BY <1>17, <2>1 DEF GuiReleaseOne, GuiState
<1>18. CASE GuiEndRelease
  <2>1. gui' \in GuiState
    BY <1>18, <1>a, <1>b DEF GuiEndRelease, GuiState
  <2>   QED  BY <1>18, <2>1 DEF GuiEndRelease
<1>19. CASE Reply
  <2>1. control' \in ControlState
    BY <1>19, <1>e DEF Reply
  <2>   QED  BY <1>19, <1>b, <2>1 DEF Reply
<1>20. CASE GiveUp
  <2>1. late' \in {"handled", "show", "hide"}
    BY <1>20 DEF GiveUp
  <2>   QED  BY <1>20, <1>e, <2>1 DEF GiveUp
<1>21. CASE UNCHANGED lifevars
  BY <1>21 DEF lifevars
<1>   QED
  BY <1>1, <1>2, <1>3, <1>4, <1>5, <1>6, <1>7, <1>8, <1>9, <1>10, <1>11, <1>12, <1>13, <1>14, <1>15,
     <1>16, <1>17, <1>18, <1>19, <1>20, <1>21
     DEF Next, LifeStep, EmptySlot, Opens, Closes, LoopStep, OtherStep, vars

\* Where a list is started, and for which command.
LEMMA Started ==
  ASSUME LifeTypeOK
  PROVE  /\ StartTeardown.at = "teardown" /\ StartTeardown.command = control.command
         /\ StartRelease("refused").at = "refused" /\ StartRelease("release").at = "release"
  BY DEF StartTeardown, StartRelease, LifeTypeOK, ControlState

\* Answers go to whom they are for, and the end of main waits for its own.
LEMMA RequestKept ==
  ASSUME LifeTypeOK, RequestInv, [Next]_vars
  PROVE  RequestInv'
<1> USE DEF RequestInv, Handling, Queued, LifeTypeOK, ControlState, GuiState
<1>1. CASE StartCommand /\ UNCHANGED loopvars
  <2>1. control.at = "idle" /\ control'.at = "hiding" /\ UNCHANGED <<gui, late, open>>
    BY <1>1, CommandSets DEF StartCommand, loopvars
  <2>   QED  BY <2>1
<1>2. CASE (Take \/ Skip \/ Fail \/ Publish \/ ReleaseOne) /\ UNCHANGED loopvars
  <2>1. UNCHANGED <<gui, late, open>>
    BY <1>2 DEF Take, Skip, Fail, Publish, ReleaseOne, loopvars
  <2>2. /\ control.at \notin {"showing", "hiding"} /\ control'.at \notin {"showing", "hiding"}
        /\ control'.at = "teardown" => control.at = "teardown" /\ control'.command = control.command
    <3>1. CASE Take
      BY <3>1 DEF Take, Loading, NextLoadStep
    <3>2. CASE Skip
      BY <3>2 DEF Skip, Loading, NextLoadStep
    <3>3. CASE Fail
      BY <3>3 DEF Fail, Loading
    <3>4. CASE Publish
      BY <3>4 DEF Publish, IdleControl
    <3>5. CASE ReleaseOne
      BY <3>5 DEF ReleaseOne
    <3>   QED  BY <1>2, <3>1, <3>2, <3>3, <3>4, <3>5
  <2>   QED  BY <2>1, <2>2
<1>3. CASE EndRelease /\ UNCHANGED loopvars
  <2>1. control.at \notin {"showing", "hiding"} /\ UNCHANGED <<gui, late, open>>
    BY <1>3 DEF EndRelease, loopvars
  <2>2. control' = IdleControl \/ (control' = StartTeardown /\ control.command # "quit")
    BY <1>3 DEF EndRelease
  <2>3. control'.at = "idle" \/ (control'.at = "teardown" /\ control'.command # "quit")
    BY <2>2, Started DEF IdleControl
  <2>   QED  BY <2>1, <2>3
<1>4. CASE SlotShowEditor /\ UNCHANGED loopvars
  <2>1. control.at = "idle" /\ control'.at = "showing" /\ UNCHANGED <<gui, late, open>>
    BY <1>4, CommandSets DEF SlotShowEditor, loopvars
  <2>   QED  BY <2>1
<1>5. CASE (AttachTake \/ AttachSkip \/ AttachFail) /\ UNCHANGED loopvars
  <2>1. /\ gui.at = "attaching" /\ gui'.at \in {"attaching", "undoing"}
        /\ gui'.answer = gui.answer /\ UNCHANGED <<control, late, open>>
    BY <1>5 DEF AttachTake, AttachSkip, AttachFail, Attaching, loopvars
  <2>   QED  BY <2>1
<1>6. CASE GuiReleaseOne /\ UNCHANGED loopvars
  <2>1. gui'.at = gui.at /\ gui'.answer = gui.answer /\ UNCHANGED <<control, late, open>>
    BY <1>6 DEF GuiReleaseOne, loopvars
  <2>   QED  BY <2>1
<1>7. CASE GuiEndRelease /\ UNCHANGED loopvars
  <2>1. gui.at \in {"undoing", "detaching", "callback"} /\ UNCHANGED <<control, late, open>>
    BY <1>7 DEF GuiEndRelease, loopvars
  <2>2. CASE gui.at = "callback"
    <3>1. gui' = IdleGui
      BY <1>7, <2>2 DEF GuiEndRelease
    <3>2. gui'.at = "idle" /\ ~gui'.answer
      BY <3>1 DEF IdleGui
    <3>   QED  BY <2>1, <2>2, <3>2
  <2>3. CASE gui.at = "undoing" \/ (gui.at = "detaching" /\ gui.answer)
    <3>1. gui'.at = "reply" /\ gui'.answer = gui.answer
      BY <1>7, <2>3 DEF GuiEndRelease
    <3>   QED  BY <2>1, <2>3, <3>1
  <2>4. CASE gui.at = "detaching" /\ ~gui.answer
    <3>1. gui'.at = "callback" /\ ~gui'.answer
      BY <1>7, <2>4 DEF GuiEndRelease
    <3>   QED  BY <2>1, <2>4, <3>1
  <2>   QED  BY <2>1, <2>2, <2>3, <2>4
<1>8. CASE Reply /\ UNCHANGED loopvars
  <2>1. gui.at = "reply" /\ gui'.at = "idle" /\ ~gui'.answer /\ open' = open /\ late' # "show" /\ late' # "hide"
    BY <1>8 DEF Reply, IdleGui, loopvars
  <2>2. CASE late = "handled"
    <3>1. control' = control
      BY <1>8, <2>2 DEF Reply
    <3>   QED  BY <2>1, <2>2, <3>1
  <2>3. CASE late # "handled"
    <3>1. Answered(gui.answer) /\ control.at \in {"showing", "hiding"} /\ late' = late
      BY <1>8, <2>1, <2>3 DEF Reply
    <3>2. CASE control' = IdleControl \/ control' = StartRelease("refused") \/ control' = StartRelease("release")
      <4>1. control'.at # "teardown"
        BY <3>2, Started DEF IdleControl
      <4>   QED  BY <2>1, <3>1, <4>1
    <3>3. CASE control' = StartTeardown /\ control.at = "hiding"
      <4>1. open = None
        BY <2>1, <2>3, <3>3
      <4>   QED  BY <2>1, <3>1, <4>1
    <3>   QED  BY <3>1, <3>2, <3>3 DEF Answered
  <2>   QED  BY <2>2, <2>3
<1>9. CASE GiveUp /\ UNCHANGED loopvars
  <2>1. /\ control.at \in {"showing", "hiding"} /\ control.command # "quit"
        /\ UNCHANGED <<gui, open>>
    BY <1>9 DEF GiveUp, loopvars
  <2>2. /\ Handling => late' = "handled"
        /\ ~Handling => late' \in {"show", "hide"}
    BY <1>9 DEF GiveUp
  <2>3. control' \in {IdleControl, StartRelease("refused"), StartTeardown}
    BY <1>9 DEF GiveUp, Answered
  <2>4. control'.at = "teardown" => control'.command # "quit"
    BY <2>1, <2>3, Started DEF IdleControl
  <2>   QED  BY <2>1, <2>2, <2>4
<1>10. CASE HandleShow /\ UNCHANGED loopvars
  <2>1. /\ gui.at = "idle" /\ UNCHANGED <<control, open>>
        /\ gui'.at \in {"attaching", "reply"} /\ late' \notin {"show", "hide"}
        /\ control.at = "showing" \/ (late' = "handled" /\ late = "show")
    BY <1>10 DEF HandleShow, TakeRequest, IdleGui, loopvars
  <2>   QED  BY <2>1
<1>11. CASE HandleHide /\ open' = None
  <2>1. /\ gui.at = "idle" /\ control' = control /\ late' \notin {"show", "hide"}
        /\ gui'.at \in {"detaching", "reply"}
        /\ control.at = "hiding" \/ (late' = "handled" /\ late = "hide")
    BY <1>11 DEF HandleHide, TakeRequest, IdleGui
  <2>   QED  BY <1>11, <2>1
<1>12. CASE EmptySlot
  <2>1. /\ control.at = "teardown" /\ UNCHANGED <<gui, open, late>>
    BY <1>12 DEF EmptySlot, EndTeardown
  <2>2. control'.at \in {"loading", "idle"}
    BY <1>12, CommandSets DEF EmptySlot, EndTeardown, IdleControl
  <2>   QED  BY <2>1, <2>2
<1>13. CASE Opens
  <2>1. gui.at = "attaching" /\ gui'.at = "reply" /\ UNCHANGED <<control, late>>
    BY <1>13 DEF Opens, AttachDone, IdleGui
  <2>   QED  BY <2>1
<1>14. CASE UserCloses /\ Close
  <2>1. /\ gui.at = "idle" /\ gui'.at = "detaching" /\ ~gui'.answer /\ UNCHANGED <<control, late>>
        /\ open # None /\ open' = None
    BY <1>14 DEF UserCloses, Close, IdleGui
  <2>   QED  BY <2>1
<1>15. CASE LoopStep \/ OtherStep
  <2>1. UNCHANGED lifevars /\ open' = open
    BY <1>15 DEF LoopStep, OtherStep, RoundNext, StartRound, EventsDone, IdleTick, TestFlag, Flush,
         ReportFlush, CollectTimers, FireTimer, TimersDone, Select, DispatchFd, EndRound, Return,
         NextEvent, registerEventHandler, unregisterEventHandler, registerTimer, unregisterTimer,
         resizeView, UserResizes, TurnKnob, RequestFlush, Process, ReportProcess
  <2>   QED  BY <2>1 DEF lifevars
<1>16. CASE UNCHANGED vars
  BY <1>16 DEF vars, lifevars, loopvars
<1>17. CASE Closes
  <2>1. (HandleHide /\ open' = None) \/ (UserCloses /\ Close)
    BY <1>17 DEF Closes, Close, loopvars
  <2>   QED  BY <2>1, <1>11, <1>14
<1>   QED
  BY <1>1, <1>2, <1>3, <1>4, <1>5, <1>6, <1>7, <1>8, <1>9, <1>10, <1>12, <1>13, <1>15, <1>16, <1>17
     DEF Next, LifeStep

\* A lapse is not undone, and only GiveUp makes one.
LEMMA LapseStays ==
  ASSUME [Next]_vars, ~Lapsed'
  PROVE  ~Lapsed /\ ~GiveUp
<1>1. late' \in {late, "handled", "answered", "show", "hide"}
  BY DEF Next, LifeStep, EmptySlot, Opens, Closes, LoopStep, OtherStep, vars, lifevars, StartCommand,
         EndTeardown, Take, Skip, Fail, Publish, ReleaseOne, EndRelease, SlotShowEditor, HandleShow,
         AttachTake, AttachSkip, AttachFail, AttachDone, HandleHide, UserCloses, GuiReleaseOne,
         GuiEndRelease, Reply, GiveUp, TakeRequest
<1>2. GiveUp => late' # "none"
  BY DEF GiveUp
<1>   QED  BY <1>1, <1>2 DEF Lapsed

\* An editor is open while its window is there.
LEMMA OpenKept ==
  ASSUME TypeOK, LifeInv, RoundInv, OpenInv, [Next]_vars, ~Lapsed'
  PROVE  OpenInv'
<1> USE DEF OpenInv
<1>0. ~Lapsed /\ ~GiveUp
  BY LapseStays
<1>1. CASE StartCommand /\ UNCHANGED loopvars
  BY <1>1 DEF StartCommand, loopvars
<1>2. CASE Take /\ UNCHANGED loopvars
  <2>1. ~loaded
    BY <1>2 DEF Take, Loading, LifeInv, PhaseInv
  <2>   QED  BY <1>2, <2>1 DEF loopvars, Take
<1>3. CASE Skip /\ UNCHANGED loopvars
  <2>1. ~loaded
    BY <1>3 DEF Skip, Loading, LifeInv, PhaseInv
  <2>   QED  BY <1>3, <2>1 DEF loopvars, Skip
<1>4. CASE Fail /\ UNCHANGED loopvars
  BY <1>4 DEF Fail, loopvars
<1>5. CASE Publish /\ UNCHANGED loopvars
  BY <1>5 DEF Publish, loopvars
<1>6. CASE ReleaseOne /\ UNCHANGED loopvars
  <2>1. control.at \in {"failing", "refused", "release", "teardown"} /\ UNCHANGED <<loaded, gui>>
    BY <1>6 DEF ReleaseOne
  <2>2. open = None
    BY <2>1 DEF LifeInv, PhaseInv, EditorInv, Surface
  <2>   QED  BY <1>6, <2>1, <2>2 DEF loopvars
<1>7. CASE EndRelease /\ UNCHANGED loopvars
  BY <1>7 DEF EndRelease, loopvars
<1>8. CASE SlotShowEditor /\ UNCHANGED loopvars
  BY <1>8 DEF SlotShowEditor, loopvars
<1>9. CASE AttachTake /\ UNCHANGED loopvars
  <2>1. gui.at = "attaching"
    BY <1>9 DEF AttachTake, Attaching
  <2>2. gui'.at = "attaching"
    BY <1>9, <2>1 DEF AttachTake, TypeOK, LifeTypeOK, GuiState
  <2>   QED  BY <1>9, <2>1, <2>2 DEF loopvars
<1>10. CASE AttachSkip /\ UNCHANGED loopvars
  <2>1. gui.at = "attaching"
    BY <1>10 DEF AttachSkip, Attaching
  <2>2. gui'.at = "attaching"
    BY <1>10, <2>1 DEF AttachSkip, TypeOK, LifeTypeOK, GuiState
  <2>   QED  BY <1>10, <2>1, <2>2 DEF loopvars
<1>11. CASE AttachFail /\ UNCHANGED loopvars
  <2>1. gui.at = "attaching"
    BY <1>11 DEF AttachFail, Attaching
  <2>   QED  BY <1>11, <2>1 DEF loopvars
<1>12. CASE GuiReleaseOne /\ UNCHANGED loopvars
  <2>1. gui.at \notin {"idle", "reply"}
    BY <1>12 DEF GuiReleaseOne
  <2>   QED  BY <1>12, <2>1 DEF loopvars
<1>13. CASE GuiEndRelease /\ UNCHANGED loopvars
  <2>1. gui.at \notin {"idle", "reply"}
    BY <1>13 DEF GuiEndRelease
  <2>   QED  BY <1>13, <2>1 DEF loopvars
<1>14. CASE Reply /\ UNCHANGED loopvars
  <2>1. gui.at = "reply" /\ gui'.at = "idle" /\ UNCHANGED <<loaded, held>>
    BY <1>14 DEF Reply, IdleGui
  <2>   QED  BY <1>14, <2>1 DEF loopvars
<1>15. CASE AtTop /\ HandleShow /\ UNCHANGED loopvars
  <2>1. /\ gui.at = "idle" /\ UNCHANGED <<loaded, held>> /\ round.at = "top"
        /\ "window" \in held => gui'.at = "reply"
    BY <1>15 DEF HandleShow, TakeRequest, AtTop, IdleGui
  <2>   QED  BY <1>15, <2>1 DEF loopvars
<1>16. CASE EmptySlot
  <2>1. control.at = "teardown" /\ UNCHANGED <<gui, open, round>>
    BY <1>16 DEF EmptySlot, EndTeardown
  <2>2. open = None
    BY <2>1 DEF LifeInv, EditorInv, Surface
  <2>   QED  BY <2>1, <2>2
<1>17. CASE Opens
  <2>1. gui.at = "attaching" /\ gui'.at = "reply" /\ UNCHANGED <<loaded, held, round>> /\ round.at = "top"
    BY <1>17 DEF Opens, AttachDone, Open, IdleGui
  <2>2. loaded /\ "window" \in held
    BY <1>17, <2>1, TableLengths
       DEF Opens, AttachDone, LifeInv, PhaseInv, AttachInv, TypeOK, LifeTypeOK, GuiState
  <2>   QED  BY <2>1, <2>2
<1>18. CASE AtTop /\ HandleHide /\ (IF open # None THEN Close ELSE UNCHANGED loopvars)
  BY <1>18 DEF AtTop, HandleHide, Close, Top, loopvars
<1>19. CASE round.at = "events" /\ UserCloses /\ Close
  BY <1>19 DEF UserCloses, Close, Top
<1>20. CASE LoopStep
  <2>1. gui.at = "idle" /\ UNCHANGED lifevars /\ open' = open
    BY <1>20 DEF LoopStep, RoundNext, StartRound, EventsDone, IdleTick, TestFlag, Flush, ReportFlush,
         CollectTimers, FireTimer, TimersDone, Select, DispatchFd, EndRound, Return, NextEvent,
         registerEventHandler, unregisterEventHandler, registerTimer, unregisterTimer, resizeView
  <2>   QED  BY <2>1 DEF lifevars
<1>21. CASE OtherStep
  <2>1. UNCHANGED <<lifevars, open, round>>
    BY <1>21 DEF OtherStep, UserResizes, TurnKnob, RequestFlush, Process, ReportProcess
  <2>   QED  BY <2>1 DEF lifevars
<1>22. CASE UNCHANGED vars
  BY <1>22 DEF vars, lifevars, loopvars
<1>   QED
  BY <1>0, <1>1, <1>2, <1>3, <1>4, <1>5, <1>6, <1>7, <1>8, <1>9, <1>10, <1>11, <1>12, <1>13, <1>14, <1>15, <1>16, <1>17, <1>18, <1>19, <1>20, <1>21, <1>22 DEF Next, LifeStep, Closes

\* Of PluginLife's steps every one keeps its invariant, until a request lapses.
LEMMA LifeKept ==
  ASSUME LifeTypeOK, LifeInv, [Next]_vars, ~Lapsed'
  PROVE  LifeInv'
<1>1. ~Lapsed /\ ~GiveUp
  BY LapseStays
<1>2. CASE LifeNext
  BY <1>1, <1>2, StartCommandKeeps, EndTeardownKeeps, TakeKeeps, SkipKeeps, FailKeeps, PublishKeeps,
     ReleaseOneKeeps, EndReleaseKeeps, SlotShowEditorKeeps, HandleShowKeeps, AttachTakeKeeps,
     AttachSkipKeeps, AttachFailKeeps, AttachDoneKeeps, HandleHideKeeps, UserClosesKeeps,
     GuiReleaseOneKeeps, GuiEndReleaseKeeps, ReplyKeeps
     DEF LifeNext
<1>3. CASE UNCHANGED lifevars
  BY <1>3
     DEF lifevars, LifeInv, PhaseInv, LoadingInv, FailingInv, EmptyInv, LoadedInv, TeardownInv,
         ReleaseInv, EditorInv, AttachInv, ReplyInv, Bracketed, ControllerLeft, ShowRefused, Lapsed
<1>   QED
  BY <1>2, <1>3
     DEF Next, LifeStep, EmptySlot, Opens, Closes, LoopStep, OtherStep, LifeNext, vars

LEMMA InitIInv == Init => IInv
<1> SUFFICES ASSUME Init PROVE IInv
  OBVIOUS
<1> USE DEF Init, LifeInit, LoopInit
<1>1. LifeTypeOK
  <2>1. <<>> \in Seq(Resource)
    BY EmptySeq
  <2>2. IdleControl \in ControlState /\ IdleGui \in GuiState
    BY <2>1 DEF IdleControl, IdleGui, ControlState, GuiState
  <2>   QED  BY <2>2 DEF LifeTypeOK
<1>2. LifeInv
  BY DEF LifeInv, PhaseInv, LoadingInv, FailingInv, EmptyInv, LoadedInv, TeardownInv, ReleaseInv,
         EditorInv, AttachInv, ReplyInv, Bracketed, ControllerLeft, ShowRefused, IdleControl, IdleGui
<1>3. LoopTypeOK
  <2>1. AnySize \in Size
    BY LoopAssumption DEF AnySize
  <2>2. <<>> \in Seq(Size) /\ Len(<<>>) = 0
    BY EmptySeq
  <2>   QED  BY <2>1, <2>2, LoopAssumption DEF LoopTypeOK, Top, NoKnob, Place, NoCall, Call
<1>4. SizeInv /\ KnobNeverStranded /\ RoundInv /\ OpenInv /\ RequestInv
  BY DEF SizeInv, KnobNeverStranded, RoundInv, OpenInv, RequestInv, Handling, Queued, Top, NoCall,
         NoKnob, IdleGui, IdleControl
<1>   QED  BY <1>1, <1>2, <1>3, <1>4 DEF IInv, TypeOK

LEMMA NextIInv == IInv /\ [Next]_vars => IInv'
<1> SUFFICES ASSUME IInv, [Next]_vars PROVE IInv'
  OBVIOUS
<1>1. LoopMove
  BY LoopMoves DEF IInv, TypeOK
<1>2. TypeOK' /\ SizeInv' /\ KnobNeverStranded' /\ RoundInv' /\ RequestInv'
  BY <1>1, LifeTypes, LoopTypes, SizeKept, KnobKept, RoundKept, RequestKept DEF IInv, TypeOK
<1>3. ASSUME ~Lapsed' PROVE LifeInv' /\ OpenInv'
  BY <1>3, LapseStays, LifeKept, OpenKept DEF IInv, TypeOK
<1>   QED  BY <1>2, <1>3 DEF IInv

\* IInv holds of every behaviour.
LEMMA Invariance == Spec => []IInv
  BY InitIInv, NextIInv, PTL DEF Spec

----------------------------------------------------------------------------
(* The theorems. *)

\* Types: a size read from an event, or given by the plugin, is one a window can
\* have, and the events on their way stay within the bound.
THEOREM TypeCorrect == Spec => []TypeOK
<1>1. IInv => TypeOK
  BY DEF IInv
<1>   QED  BY <1>1, Invariance, PTL

\* As long as no request lapsed: at every step of every load, failed load, show,
\* failed show, close and unload, in each format, a release finds what it calls
\* into (but in the two places that Bracketed names).
THEOREM ReleasesInOrder == Spec => []Bracketed
<1>1. IInv => Bracketed
  BY DEF IInv, LifeInv, Bracketed
<1>   QED  BY <1>1, Invariance, PTL

\* As long as no request lapsed: an unload and the end of an editor leave
\* nothing behind, and a failed load nothing but a VST3 controller that it had
\* initialised or connected.
THEOREM SlotLeftEmpty == Spec => []NothingLeft
<1>1. IInv => NothingLeft
  BY DEF IInv, LifeInv, EmptyInv, EditorInv, EditorParts, Surface, Forgotten, NothingLeft, ControllerLeft
<1>   QED  BY <1>1, Invariance, PTL

\* As long as no request lapsed the GUI thread calls into a plugin that is there;
\* and main, at its end, never tears one down beside a call, whatever lapsed.
THEOREM CallbacksFindPlugin == Spec => []CallsFindPlugin
<1>1. ASSUME IInv, round.call # NoCall \/ round.todo # {}
      PROVE  control.at = "teardown" => control.command # "quit"
  BY <1>1 DEF IInv, RoundInv, RequestInv
<1>2. ASSUME IInv, round.call # NoCall \/ round.todo # {}, ~Lapsed
      PROVE  loaded /\ {"module", "view", "window"} \subseteq held /\ control.at # "teardown"
  <2>1. open # None /\ gui.at = "idle" /\ loaded /\ "window" \in held
    BY <1>2 DEF IInv, RoundInv, OpenInv
  <2>2. "view" \in held /\ control.at \notin {"teardown", "failing"} /\ control.at # "refused"
    BY <1>2, <2>1 DEF IInv, LifeInv, EditorInv, PhaseInv, Surface
  <2>3. ControllerLeft = {} /\ "view" \notin ShowRefused /\ "plugin" \notin ShowRefused
        /\ "entry" \notin ShowRefused /\ "controller" \notin ShowRefused
    BY <1>2, <2>1 DEF IInv, LifeInv, PhaseInv, ControllerLeft, ShowRefused
  <2>4. \A r \in {"view", "plugin", "entry", "controller"} : r \in held => Needs(plugin, r) \subseteq held
    BY <1>2, <2>3 DEF IInv, LifeInv, Bracketed
  <2>5. "module" \in held
    BY <2>2, <2>4 DEF Needs
  <2>   QED  BY <2>1, <2>2, <2>5
<1>3. IInv => CallsFindPlugin
  BY <1>1, <1>2 DEF CallsFindPlugin
<1>   QED  BY <1>3, Invariance, PTL

\* The window, EditorWindow and the view agree once every event has been read.
THEOREM SizesMeet == Spec => []SizesAgree
<1>1. IInv => SizesAgree
  BY DEF IInv, SizeInv, SizesAgree
<1>   QED  BY <1>1, Invariance, PTL

\* A change a CLAP plugin has queued always has a request or a flush under way.
THEOREM KnobIsServed == Spec => []KnobNeverStranded
<1>1. IInv => KnobNeverStranded
  BY DEF IInv
<1>   QED  BY <1>1, Invariance, PTL

\* No callback goes to a registration that is gone (but in the two cases that
\* Current names), however the plugin changes its registrations from within the
\* callbacks before it: HostRunLoop looks again before each.
THEOREM CallbacksCurrent == Spec => CallsCurrent
<1>1. ASSUME IInv, [Next]_vars
      PROVE  [round'.call # round.call => Current(round'.call)]_round
  <2> SUFFICES ASSUME round'.call # round.call
               PROVE  Current(round'.call)
    OBVIOUS
  <2>1. LoopMove
    BY <1>1, LoopMoves DEF IInv, TypeOK
  <2>2. LoopTypeOK /\ RoundInv
    BY <1>1 DEF IInv, TypeOK
  <2>   QED  BY <2>1, <2>2, CallIsCurrent
<1>   QED  BY <1>1, Invariance, PTL DEF Spec, CallsCurrent
=============================================================================
