----------------------------- MODULE PluginLife -----------------------------
(***************************************************************************)
(* What the sidecar holds of the plugin in one slot, from the opening of   *)
(* its library to the last release: PluginHost, Vst2Plugin and ClapPlugin  *)
(* under PluginChain, and its editor's view and window.                    *)
(*                                                                         *)
(* Each format takes resources one after the other and lets them go in     *)
(* code of its own: after each call that may fail, at the end of a show    *)
(* that failed, when an editor closes, and at the unload.  A table says    *)
(* what each of these places lets go, in its order.                        *)
(*                                                                         *)
(* The control thread loads, unloads and asks for the editor; the GUI      *)
(* thread opens and closes it.  The control thread waits for an answer a   *)
(* second at most, and goes on without it: one request of a run may lapse, *)
(* and the run is followed to the end of the editor and of the plugin that *)
(* were there, not into the next load.  A show does not cross a close by   *)
(* the operator: EditorSession has that, and any number of late requests.  *)
(***************************************************************************)
EXTENDS Naturals, Sequences

VARIABLES
  plugin,     \* the kind of plugin in the slot
  loaded,     \* loaded_[slot]
  held,       \* what is held of it
  control,    \* the control thread: where, which step of a load, what is to
              \* be released yet, and the command
  gui,        \* the GUI thread: where, which step of an attach, what is to be
              \* released yet, and the answer it will give
  failed,     \* history: the last load failed
  late        \* the request whose caller gave up: none so far, still queued, in
              \* the hands of the GUI thread, or answered to nobody

lifevars == <<plugin, loaded, held, control, gui, failed, late>>

\* A VST3 plugin may be one object or have a controller of its own.
Plugin == [format : {"vst3"}, single : BOOLEAN] \cup [format : {"vst2", "clap"}, single : {FALSE}]

Resource ==
  {"module", "entry", "plugin", "component", "initialized", "processor",
   "controller", "controllerInit", "connected", "active", "processing", "handler",
   "view", "gui", "window", "frame", "attached", "embedded", "shown"}

ControlState ==
  [at : {"idle", "loading", "failing", "showing", "refused", "hiding", "release", "teardown"},
   step : Nat \ {0}, todo : Seq(Resource),
   command : {"none", "load", "show", "hide", "unload", "quit"}]
GuiState ==
  [at : {"idle", "attaching", "undoing", "detaching", "callback", "reply"},
   step : Nat \ {0}, todo : Seq(Resource), answer : BOOLEAN]

LifeTypeOK ==
  /\ plugin \in Plugin
  /\ loaded \in BOOLEAN
  /\ held \subseteq Resource
  /\ control \in ControlState
  /\ gui \in GuiState
  /\ failed \in BOOLEAN
  /\ late \in {"none", "show", "hide", "handled", "answered"}

IdleControl == [at |-> "idle", step |-> 1, todo |-> <<>>, command |-> "none"]
IdleGui == [at |-> "idle", step |-> 1, todo |-> <<>>, answer |-> FALSE]

LifeInit ==
  /\ plugin \in Plugin
  /\ loaded = FALSE
  /\ held = {}
  /\ control = IdleControl
  /\ gui = IdleGui
  /\ failed = FALSE
  /\ late = "none"

Lapsed == late # "none"
Queued == late \in {"show", "hide"}

----------------------------------------------------------------------------
(* The tables. *)

\* A step takes a resource.  One whose call may fail says what is undone then;
\* an optional one may come to nothing, and drops what is of no use without it;
\* and one may do either.
Must(r, undo)      == [takes |-> r, fails |-> TRUE, undo |-> undo, optional |-> FALSE, drops |-> {}]
Always(r)          == [takes |-> r, fails |-> FALSE, undo |-> <<>>, optional |-> FALSE, drops |-> {}]
Optional(r, drops) == [takes |-> r, fails |-> FALSE, undo |-> <<>>, optional |-> TRUE, drops |-> drops]
May(r, undo)       == [takes |-> r, fails |-> TRUE, undo |-> undo, optional |-> TRUE, drops |-> {}]

\* ClapPlugin::Load.
ClapLoad ==
  <<Must("module", <<>>),
    Must("entry", <<"module">>),
    Must("plugin", <<"entry", "module">>),
    Must("active", <<"plugin", "entry", "module">>),
    Must("processing", <<"active", "plugin", "entry", "module">>)>>

\* Vst2Plugin::Load: from effOpen on nothing is tested.
Vst2Load ==
  <<Must("module", <<>>), Must("plugin", <<"module">>), Always("active"), Always("processing")>>

\* PluginHost::Load with InstantiateAndActivate.  A plugin without a
\* controller, or whose controller cannot be initialised or connected, will
\* do.  When setupProcessing, setActive or setProcessing fails, the component
\* is terminated, and the rest dropped with the structure that holds it.
Vst3Load ==
  <<Must("module", <<>>),
    Must("component", <<"module">>),
    Must("initialized", <<"component", "module">>),
    Must("processor", <<"initialized", "component", "module">>),
    Optional("controller", {}),
    Optional("controllerInit", {"controller"}),
    Optional("connected", {}),
    Must("active", <<"initialized", "processor", "component", "controller", "module">>),
    Must("processing",
         <<"active", "initialized", "processor", "component", "controller", "module">>),
    Always("handler")>>

LoadSteps == [vst3 |-> Vst3Load, vst2 |-> Vst2Load, clap |-> ClapLoad]

\* Mutant of Teardown: an unload leaves the controller as it is.
Teardown_KeepsController ==
  [vst3 |-> <<"view", "processing", "active", "connected", "handler", "controller",
              "initialized", "processor", "component", "module">>,
   vst2 |-> <<"attached", "view", "processing", "active", "plugin", "module">>,
   clap |-> <<"shown", "embedded", "gui", "view", "processing", "active", "plugin",
              "entry", "module">>]

\* Unload and TearDownActive of each format: first what is left of the editor.
Teardown ==
  [vst3 |-> <<"view", "processing", "active", "connected", "handler", "controllerInit",
              "controller", "initialized", "processor", "component", "module">>,
   vst2 |-> <<"attached", "view", "processing", "active", "plugin", "module">>,
   clap |-> <<"shown", "embedded", "gui", "view", "processing", "active", "plugin",
              "entry", "module">>]

\* EditorWindow::Attach: the window, the frame, and the view's attached.
WindowUndo == <<"frame", "window">>
AttachSteps ==
  LET inWindow == <<Must("window", <<>>), Always("frame")>>
  IN  [vst3 |-> inWindow \o <<Must("attached", WindowUndo)>>,
       vst2 |-> inWindow \o <<Must("attached", WindowUndo)>>,
       clap |-> inWindow \o <<Must("embedded", WindowUndo),
                              May("shown", WindowUndo)>>]

\* Mutant of Detach: the window is destroyed before the view is told.
Detach_WindowFirst ==
  [vst3 |-> <<"frame", "window", "attached">>,
   vst2 |-> <<"frame", "window", "attached">>,
   clap |-> <<"frame", "window", "shown", "embedded", "gui">>]

\* EditorWindow::Detach, and each view's removed within it.
Detach ==
  [vst3 |-> <<"frame", "attached", "window">>,
   vst2 |-> <<"frame", "attached", "window">>,
   clap |-> <<"frame", "shown", "embedded", "gui", "window">>]

\* ReleaseEditorView: the wrapper's destructor closes what is still open.
ReleaseView ==
  [vst3 |-> <<"view">>,
   vst2 |-> <<"attached", "view">>,
   clap |-> <<"shown", "embedded", "gui", "view">>]

\* What must be there while a resource is held: the code and the objects its
\* release calls into.
Needs(p, r) ==
  LET body == IF p.format = "vst3" THEN "initialized" ELSE "plugin"
  IN  CASE r = "module"         -> {}
        [] r = "plugin"         -> IF p.format = "clap" THEN {"entry"} ELSE {"module"}
        [] r = "initialized"    -> {"component"}
        [] r = "controllerInit" -> {"controller"}
        [] r = "connected"      -> {"initialized", "controllerInit"}
        [] r = "active"         -> {body}
        [] r = "processing"     -> {"active"}
        [] r = "handler"        -> {"controller", IF p.single THEN "initialized" ELSE "controllerInit"}
        [] r = "view"           -> IF p.format = "vst3" THEN {"controller"} ELSE {"plugin"}
        [] r = "gui"            -> {"view"}
        [] r = "window"         -> {}
        [] r = "frame"          -> {"view", "window"}
        [] r = "attached"       -> {"view", "window"}
        [] r = "embedded"       -> {"gui", "window"}
        [] r = "shown"          -> {"embedded"}
        [] OTHER                -> {"module"}

\* A step can be tried: what it builds on is there.
Applies(s) ==
  /\ Needs(plugin, s.takes) \subseteq held
  /\ s.takes \in {"controllerInit", "connected"} => ~plugin.single

----------------------------------------------------------------------------
(* Loading and unloading: the control thread under chainMutex_. *)

Command(at, command) == control' = [IdleControl EXCEPT !.at = at, !.command = command]

\* SlotLoadPlugin, SlotUnloadPlugin, SlotHideEditor and the end of main have
\* the editor closed first.
StartCommand ==
  /\ control.at = "idle"
  /\ \E c \in {"load", "unload", "hide", "quit"} : Command("hiding", c)
  /\ UNCHANGED <<plugin, loaded, held, gui, failed, late>>

\* The slot is empty: on with the load, or back.
EndTeardown ==
  /\ control.at = "teardown" /\ control.todo = <<>>
  /\ loaded' = FALSE
  /\ IF control.command = "load" /\ ~Lapsed
     THEN /\ plugin' \in Plugin
          /\ held' = {}          \* of this plugin
          /\ failed' = FALSE
          /\ Command("loading", "load")
     ELSE /\ control' = IdleControl
          /\ UNCHANGED <<plugin, held, failed>>
  /\ UNCHANGED <<gui, late>>

LoadStep == LoadSteps[plugin.format][control.step]
Loading == control.at = "loading" /\ control.step <= Len(LoadSteps[plugin.format])
NextLoadStep == control' = [control EXCEPT !.step = @ + 1]

Take ==
  /\ Loading /\ Applies(LoadStep)
  /\ held' = held \cup {LoadStep.takes}
  /\ NextLoadStep
  /\ UNCHANGED <<plugin, loaded, gui, failed, late>>

Skip ==
  /\ Loading
  /\ IF Applies(LoadStep)
     THEN LoadStep.optional /\ held' = held \ LoadStep.drops
     ELSE UNCHANGED held
  /\ NextLoadStep
  /\ UNCHANGED <<plugin, loaded, gui, failed, late>>

Fail ==
  /\ Loading /\ LoadStep.fails
  /\ control' = [control EXCEPT !.at = "failing", !.todo = LoadStep.undo]
  /\ failed' = TRUE
  /\ UNCHANGED <<plugin, loaded, held, gui, late>>

\* The last step is done: the plugin is published.
Publish ==
  /\ control.at = "loading" /\ control.step > Len(LoadSteps[plugin.format])
  /\ loaded' = TRUE
  /\ control' = IdleControl
  /\ UNCHANGED <<plugin, held, gui, failed, late>>

\* One more call or reference of a list of releases; what is not held is passed
\* over.  The callback of the GUI thread holds chainMutex_ to its end.
ReleaseOne ==
  /\ control.at \in {"failing", "refused", "release", "teardown"} /\ control.todo # <<>>
  /\ gui.at # "callback"
  /\ held' = held \ {Head(control.todo)}
  /\ control' = [control EXCEPT !.todo = Tail(@)]
  /\ UNCHANGED <<plugin, loaded, gui, failed, late>>

StartTeardown == [control EXCEPT !.at = "teardown",
                                 !.todo = IF loaded THEN Teardown[plugin.format] ELSE <<>>]

StartRelease(at) == [control EXCEPT !.at = at, !.todo = ReleaseView[plugin.format]]

\* The end of a list: a load or show that failed, or a view released after the
\* editor closed.
EndRelease ==
  /\ control.at \in {"failing", "refused", "release"} /\ control.todo = <<>>
  /\ control' = IF control.at = "release" /\ control.command \in {"load", "unload"}
                THEN StartTeardown ELSE IdleControl
  /\ UNCHANGED <<plugin, loaded, held, gui, failed, late>>

----------------------------------------------------------------------------
(* The editor. *)

\* SlotShowEditor acquires the view, made now if there is none: for CLAP, with
\* the plugin's GUI if it will make one.  The plugin may have no editor.
SlotShowEditor ==
  /\ control.at = "idle" /\ gui.at = "idle" /\ loaded
  /\ Needs(plugin, "view") \subseteq held
  /\ IF "view" \in held
     THEN UNCHANGED held
     ELSE \E made \in IF plugin.format = "clap" THEN {{"view"}, {"view", "gui"}} ELSE {{"view"}} :
            held' = held \cup made
  /\ Command("showing", "show")
  /\ UNCHANGED <<plugin, loaded, gui, failed, late>>

\* The GUI thread takes a request of this kind: the late one comes first.
TakeRequest(kind, waiting) ==
  /\ gui.at = "idle"
  /\ IF Queued THEN late = kind /\ late' = "handled"
               ELSE control.at = waiting /\ UNCHANGED late

\* HandleShow: an open editor is good enough.
HandleShow ==
  /\ TakeRequest("show", "showing")
  /\ gui' = IF "window" \in held THEN [IdleGui EXCEPT !.at = "reply", !.answer = TRUE]
                                  ELSE [IdleGui EXCEPT !.at = "attaching"]
  /\ UNCHANGED <<plugin, loaded, held, control, failed>>

AttachStep == AttachSteps[plugin.format][gui.step]
Attaching == gui.at = "attaching" /\ gui.step <= Len(AttachSteps[plugin.format])

\* A view that is gone since its show lapsed may do anything.
AttachTake ==
  /\ Attaching
  /\ Applies(AttachStep) \/ (Lapsed /\ "view" \notin held)
  /\ held' = held \cup {AttachStep.takes}
  /\ gui' = [gui EXCEPT !.step = @ + 1]
  /\ UNCHANGED <<plugin, loaded, control, failed, late>>

AttachSkip ==
  /\ Attaching /\ AttachStep.optional
  /\ gui' = [gui EXCEPT !.step = @ + 1]
  /\ UNCHANGED <<plugin, loaded, held, control, failed, late>>

AttachFail ==
  /\ Attaching /\ AttachStep.fails
  /\ gui' = [gui EXCEPT !.at = "undoing", !.todo = AttachStep.undo]
  /\ UNCHANGED <<plugin, loaded, held, control, failed, late>>

AttachDone ==
  /\ gui.at = "attaching" /\ gui.step > Len(AttachSteps[plugin.format])
  /\ gui' = [IdleGui EXCEPT !.at = "reply", !.answer = TRUE]
  /\ UNCHANGED <<plugin, loaded, held, control, failed, late>>

\* HandleHide.
HandleHide ==
  /\ TakeRequest("hide", "hiding")
  /\ gui' = IF "window" \in held
            THEN [IdleGui EXCEPT !.at = "detaching", !.todo = Detach[plugin.format],
                                 !.answer = TRUE]
            ELSE [IdleGui EXCEPT !.at = "reply"]
  /\ UNCHANGED <<plugin, loaded, held, control, failed>>

\* The operator closes the window: its callback will release the view.
UserCloses ==
  /\ gui.at = "idle" /\ "window" \in held /\ control.at # "showing"
  /\ gui' = [IdleGui EXCEPT !.at = "detaching", !.todo = Detach[plugin.format]]
  /\ UNCHANGED <<plugin, loaded, held, control, failed, late>>

GuiReleaseOne ==
  /\ gui.at \in {"undoing", "detaching", "callback"} /\ gui.todo # <<>>
  /\ held' = held \ {Head(gui.todo)}
  /\ gui' = [gui EXCEPT !.todo = Tail(@)]
  /\ UNCHANGED <<plugin, loaded, control, failed, late>>

\* The control thread is in PluginChain, under chainMutex_.
InChain == control.at \in {"loading", "failing", "refused", "release", "teardown"}

\* What follows the list: the answer, or the callback, once it has chainMutex_,
\* and its release.
GuiEndRelease ==
  /\ gui.at \in {"undoing", "detaching", "callback"} /\ gui.todo = <<>>
  /\ gui.at = "detaching" /\ ~gui.answer => ~InChain
  /\ gui' = CASE gui.at = "callback" -> IdleGui
              [] gui.at = "detaching" /\ ~gui.answer ->
                   [gui EXCEPT !.at = "callback", !.todo = ReleaseView[plugin.format]]
              [] OTHER -> [gui EXCEPT !.at = "reply"]
  /\ UNCHANGED <<plugin, loaded, held, control, failed, late>>

\* A refused show, and a hide of an open editor, release the slot's view.  At
\* the end of main the chain's destructor does, with the rest.
Answered(open) ==
  \/ control.at = "showing" /\ open /\ control' = IdleControl
  \/ control.at = "showing" /\ ~open /\ control' = StartRelease("refused")
  \/ /\ control.at = "hiding" /\ open /\ control.command # "quit"
     /\ control' = StartRelease("release")
  \/ /\ control.at = "hiding" /\ open /\ control.command = "quit"
     /\ control' = StartTeardown
  \/ /\ control.at = "hiding" /\ ~open
     /\ control' = IF control.command = "hide" THEN IdleControl ELSE StartTeardown

\* The answer; that of a late request changes nothing.
Reply ==
  /\ gui.at = "reply"
  /\ gui' = IdleGui
  /\ IF late = "handled" THEN late' = "answered" /\ UNCHANGED control
                          ELSE Answered(gui.answer) /\ UNCHANGED late
  /\ UNCHANGED <<plugin, loaded, held, failed>>

\* The GUI thread is at the request of the control thread.
Handling == gui.at \in {"attaching", "undoing", "reply"} \/ gui.answer

\* Mutant of GiveUp: the end of main does not wait longer than a command.
GiveUp_AlsoQuit ==
  /\ control.at \in {"showing", "hiding"}
  /\ late = "none"
  /\ late' = IF Handling THEN "handled" ELSE IF control.at = "showing" THEN "show" ELSE "hide"
  /\ Answered(FALSE)
  /\ UNCHANGED <<plugin, loaded, held, gui, failed>>

\* RequestShow and RequestHide after a second: as if the answer were no.  The
\* end of main joins the GUI thread for as long as it takes.
GiveUp ==
  /\ control.at \in {"showing", "hiding"} /\ control.command # "quit"
  /\ late = "none"
  /\ late' = IF Handling THEN "handled" ELSE IF control.at = "showing" THEN "show" ELSE "hide"
  /\ Answered(FALSE)
  /\ UNCHANGED <<plugin, loaded, held, gui, failed>>

----------------------------------------------------------------------------
LifeNext ==
  \/ StartCommand \/ EndTeardown \/ Take \/ Skip \/ Fail \/ Publish \/ ReleaseOne \/ EndRelease
  \/ SlotShowEditor \/ HandleShow \/ AttachTake \/ AttachSkip \/ AttachFail \/ AttachDone
  \/ HandleHide \/ UserCloses \/ GuiReleaseOne \/ GuiEndRelease \/ Reply \/ GiveUp

----------------------------------------------------------------------------
(* Properties. *)

\* A VST3 plugin with a controller of its own whose load fails late: nothing
\* disconnects or terminates the controller, until the next load or for good.
\* (Against plugin_host.cpp on the failure of InstantiateAndActivate: "the
\* helper unwinds anything it allocated before failing".)
ControllerLeft == IF failed THEN {"connected", "controllerInit"} ELSE {}

\* A CLAP plugin that was given its parent and then refused to show: the
\* window goes before the GUI in it.
ShowRefused ==
  IF plugin.format = "clap" /\ (gui.at = "undoing" \/ (gui.at = "reply" /\ ~gui.answer) \/ control.at = "refused")
  THEN {"embedded"} ELSE {}

\* As long as no request lapsed, every call of a release finds what it calls
\* into, at each step of each load, failed load, show, failed show, close and
\* unload, but for the two places above.  (clap_view.cpp: the GUI is torn down
\* "BEFORE EditorWindow::Detach destroys our parent X Window"; Unload: "Drop
\* the editor wrapper before tearing down the plugin - its dtor calls
\* hide/destroy on the live plugin instance".)
Bracketed ==
  ~Lapsed =>
    \A r \in held \ (ControllerLeft \cup ShowRefused) : Needs(plugin, r) \subseteq held

\* As long as no request lapsed, an unload leaves nothing of its plugin, and a
\* load that failed nothing but the controller above; nor is anything left of
\* an editor once it is closed, or was refused, and the GUI thread is done.
NothingLeft ==
  ~Lapsed =>
    /\ control.at = "idle" /\ ~loaded => held \subseteq ControllerLeft
    /\ control.at = "idle" /\ gui.at = "idle" /\ "window" \notin held =>
         held \intersect {"view", "gui", "frame", "attached", "embedded", "shown"} = {}
=============================================================================
