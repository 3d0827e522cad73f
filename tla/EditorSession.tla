--------------------------- MODULE EditorSession ---------------------------
(***************************************************************************)
(* Plugin editors: the control reader's commands (main.cpp), the GUI       *)
(* thread that owns the windows (vst3/gui_thread.cpp), the editor views    *)
(* the plugins hand out, and the end of main.                              *)
(*                                                                         *)
(* The control reader posts a request and waits for its reply, at most a   *)
(* second; the request points into its stack.  The GUI thread handles      *)
(* requests and window events, and calls back when the operator closes a   *)
(* window.  The view crosses between the threads as a raw pointer.         *)
(*                                                                         *)
(* A plugin may keep the GUI thread for longer than that second, and its   *)
(* select may fail, which ends the thread: `lapsed` records that a caller  *)
(* gave up.                                                                *)
(***************************************************************************)
EXTENDS Naturals, Sequences

CONSTANTS
  Slot,
  Counted,     \* slots whose view is reference counted: VST3.  The wrapper of
               \* a VST2 or CLAP plugin is deleted when the slot releases it
  View,        \* view objects; the memory of one that died is used again
  None,
  MaxQueue     \* the model's bound (queue_ has none): no command comes while
               \* so many requests are queued

ASSUME EditorAssumption ==
  /\ Slot # {} /\ Counted \subseteq Slot
  /\ None \notin View
  /\ MaxQueue \in Nat \ {0}

VARIABLES
  loaded,      \* the slot has a plugin
  held,        \* editorView of the slot's plugin
  window,      \* windows_[s]: the view in the slot's window
  running,     \* running_
  queue,       \* queue_
  batch,       \* local, in DrainRequests
  gui,         \* where the GUI thread stands
  control,     \* the command in progress
  told,        \* what the host last heard: is the editor open?
  main,        \* how far main is
  lapsed       \* history: a request outlived its caller's second

guiside == <<queue, batch, gui>>
vars == <<loaded, held, window, running, queue, batch, gui, control, told, main, lapsed>>

Request ==
  [kind : {"show", "hide", "quit"}, slot : Slot, view : View \cup {None},
   caller : {"waits", "gone"}]

Commands == {"show", "hide", "change"}
ControlSteps ==
  {"idle", "acquire", "pump", "post", "wait", "answered", "release", "tell",
   "teardown", "exited"}
GuiSteps ==
  {"off", "idle", "attaching", "reply", "closed", "callback", "notify",
   "closing", "exited"}

AnySlot == CHOOSE s \in Slot : TRUE
NoRequest == [kind |-> "quit", slot |-> AnySlot, view |-> None, caller |-> "gone"]
NoCommand ==
  [at |-> "idle", command |-> "show", slot |-> AnySlot, view |-> None, answer |-> FALSE]

\* The types, and that a command adds at most one request to those left behind,
\* and the end of main one more.
TypeOK ==
  /\ loaded \in [Slot -> BOOLEAN]
  /\ held \in [Slot -> View \cup {None}]
  /\ window \in [Slot -> View \cup {None}]
  /\ running \in BOOLEAN
  /\ queue \in Seq(Request) /\ Len(queue) <= MaxQueue + 1
  /\ batch \in Seq(Request)
  /\ gui \in [at : GuiSteps, request : Request, answer : BOOLEAN]
  /\ control \in [at : ControlSteps, command : Commands, slot : Slot,
                  view : View \cup {None}, answer : BOOLEAN]
  /\ told \in [Slot -> BOOLEAN]
  /\ main \in {"running", "cleared", "joining", "closed"}
  /\ lapsed \in BOOLEAN

Init ==
  /\ loaded = [s \in Slot |-> FALSE]
  /\ held = [s \in Slot |-> None]
  /\ window = held
  /\ running = FALSE
  /\ queue = <<>> /\ batch = <<>>
  /\ gui = [at |-> "off", request |-> NoRequest, answer |-> FALSE]
  /\ control = NoCommand
  /\ told = [s \in Slot |-> FALSE]
  /\ main = "running"
  /\ lapsed = FALSE

\* A view lives while its plugin holds it, and a counted one while a window does.
Alive(v) == \E s \in Slot : held[s] = v \/ (s \in Counted /\ window[s] = v)

----------------------------------------------------------------------------
(* The control reader. *)

\* The next command may come.  In the code the requests left behind by callers
\* that gave up may be any number; here no command comes at MaxQueue of them.
Ready == control.at = "idle" /\ Len(queue) < MaxQueue

\* SlotShowEditor on a loaded slot starts the GUI thread if need be.
SlotShowEditor ==
  /\ Ready
  /\ \E s \in Slot :
       /\ loaded[s]
       /\ control' = [NoCommand EXCEPT !.at = "acquire", !.slot = s]
  /\ running' = TRUE
  /\ gui' = IF running THEN gui ELSE [gui EXCEPT !.at = "idle"]
  /\ UNCHANGED <<loaded, held, window, queue, batch, told, main, lapsed>>

SlotHideEditor ==
  /\ Ready /\ running
  /\ \E s \in Slot :
       control' = [NoCommand EXCEPT !.at = "post", !.command = "hide", !.slot = s]
  /\ UNCHANGED <<loaded, held, window, running, guiside, told, main, lapsed>>

\* Mutant of ChangePlugin: the editor is not closed first.
ChangePlugin_Unhidden ==
  /\ Ready
  /\ \E s \in Slot :
       control' = [NoCommand EXCEPT !.at = "teardown", !.command = "change", !.slot = s]
  /\ UNCHANGED <<loaded, held, window, running, guiside, told, main, lapsed>>

\* SlotLoadPlugin and SlotUnloadPlugin close the slot's editor first.
ChangePlugin ==
  /\ Ready
  /\ \E s \in Slot :
       control' = [NoCommand EXCEPT !.at = IF running THEN "post" ELSE "teardown",
                                    !.command = "change", !.slot = s]
  /\ UNCHANGED <<loaded, held, window, running, guiside, told, main, lapsed>>

\* AcquireEditorView: the plugin's view, made now if there is none; no count
\* is taken.  A plugin may have none to offer.
AcquireEditorView ==
  /\ control.at = "acquire"
  /\ \/ /\ held[control.slot] # None
        /\ control' = [control EXCEPT !.at = "pump", !.view = held[control.slot]]
        /\ UNCHANGED held
     \/ \E v \in View :
          /\ held[control.slot] = None
          /\ ~Alive(v)
          /\ held' = [held EXCEPT ![control.slot] = v]
          /\ control' = [control EXCEPT !.at = "pump", !.view = v]
     \/ /\ held[control.slot] = None
        /\ control' = NoCommand
        /\ UNCHANGED held
  /\ UNCHANGED <<loaded, window, running, guiside, told, main, lapsed>>

\* AcquireEditorIdlePump: for a wrapper, AcquireEditorView once more.
AcquireEditorIdlePump ==
  /\ control.at = "pump"
  /\ \/ /\ control.slot \in Counted \/ held[control.slot] # None
        /\ UNCHANGED held
     \/ \E v \in View :
          /\ control.slot \notin Counted /\ held[control.slot] = None
          /\ ~Alive(v)
          /\ held' = [held EXCEPT ![control.slot] = v]
  /\ control' = [control EXCEPT !.at = "post"]
  /\ UNCHANGED <<loaded, window, running, guiside, told, main, lapsed>>

\* RequestShow and RequestHide: queue the request, then wait.
PostRequest ==
  /\ control.at = "post"
  /\ queue' = Append(queue,
                [kind |-> IF control.command = "show" THEN "show" ELSE "hide",
                 slot |-> control.slot, view |-> control.view, caller |-> "waits"])
  /\ control' = [control EXCEPT !.at = "wait"]
  /\ UNCHANGED <<loaded, held, window, running, batch, gui, told, main, lapsed>>

\* The caller of a request has returned: its stack frame is gone.
Abandon(r) == [r EXCEPT !.caller = "gone"]
AbandonAll(q) == [k \in DOMAIN q |-> Abandon(q[k])]

\* Mutant of GiveUp: the wait has no timeout.
GiveUp_Never == FALSE /\ UNCHANGED vars

\* The second is over: RequestShow reports status 5, RequestHide "not open".
GiveUp ==
  /\ control.at = "wait"
  /\ control' = [control EXCEPT !.at = "answered", !.answer = FALSE]
  /\ queue' = AbandonAll(queue) /\ batch' = AbandonAll(batch)
  /\ gui' = [gui EXCEPT !.request = Abandon(gui.request)]
  /\ lapsed' = TRUE
  /\ UNCHANGED <<loaded, held, window, running, told, main>>

\* Mutant of Resume: a failed show keeps the view.
Resume_Keeps ==
  /\ control.at = "answered"
  /\ control' =
       CASE control.command = "show" /\ control.answer     -> [control EXCEPT !.at = "tell"]
         [] control.command = "change" /\ ~control.answer  -> [control EXCEPT !.at = "teardown"]
         [] control.command # "show" /\ control.answer     -> [control EXCEPT !.at = "release"]
         [] OTHER                                          -> NoCommand
  /\ UNCHANGED <<loaded, held, window, running, guiside, told, main, lapsed>>

\* What the command does with the answer: whether the editor is open after a
\* show, was open before a hide.
Resume ==
  /\ control.at = "answered"
  /\ control' =
       CASE control.command = "show" /\ control.answer     -> [control EXCEPT !.at = "tell"]
         [] control.command = "hide" /\ ~control.answer    -> NoCommand
         [] control.command = "change" /\ ~control.answer  -> [control EXCEPT !.at = "teardown"]
         [] OTHER                                          -> [control EXCEPT !.at = "release"]
  /\ UNCHANGED <<loaded, held, window, running, guiside, told, main, lapsed>>

ReleaseEditorView ==
  /\ control.at = "release"
  /\ held' = [held EXCEPT ![control.slot] = None]
  /\ control' = IF control.command = "show" THEN NoCommand ELSE [control EXCEPT !.at = "tell"]
  /\ UNCHANGED <<loaded, window, running, guiside, told, main, lapsed>>

\* SlotShowEditorResult, SlotHideEditorResult, or EditorClosed before a change.
TellHost ==
  /\ control.at = "tell"
  /\ told' = [told EXCEPT ![control.slot] = control.command = "show"]
  /\ control' =
       IF control.command = "change" THEN [control EXCEPT !.at = "teardown"] ELSE NoCommand
  /\ UNCHANGED <<loaded, held, window, running, guiside, main, lapsed>>

\* LoadSlot or UnloadSlot, under chainMutex_ all along: the old plugin and its
\* view go, and a new plugin may come.
ChangeSlot ==
  /\ control.at = "teardown"
  /\ held' = [held EXCEPT ![control.slot] = None]
  /\ \E l \in BOOLEAN : loaded' = [loaded EXCEPT ![control.slot] = l]
  /\ control' = NoCommand
  /\ UNCHANGED <<window, running, guiside, told, main, lapsed>>

\* Goodbye, a closed pipe or a stop flag ends the reader between commands.
Goodbye ==
  /\ control.at = "idle"
  /\ control' = [control EXCEPT !.at = "exited"]
  /\ UNCHANGED <<loaded, held, window, running, guiside, told, main, lapsed>>

----------------------------------------------------------------------------
(* main, once the audio loop has returned. *)

\* The reader is joined, then the asynchronous callback is removed.
ClearCallback ==
  /\ main = "running" /\ control.at = "exited"
  /\ main' = "cleared"
  /\ UNCHANGED <<loaded, held, window, running, guiside, control, told, lapsed>>

\* Mutant of StopGui: it can be called again and again.
StopGui_Repeats ==
  /\ main = "cleared"
  /\ queue' = IF running THEN Append(queue, NoRequest) ELSE queue
  /\ UNCHANGED <<loaded, held, window, running, batch, gui, control, told, main, lapsed>>

\* Mutant of StopGui: no Quit request.
StopGui_Silent ==
  /\ main = "cleared"
  /\ main' = "joining"
  /\ UNCHANGED <<loaded, held, window, running, guiside, control, told, lapsed>>

StopGui ==
  /\ main = "cleared"
  /\ main' = "joining"
  /\ queue' = IF running THEN Append(queue, NoRequest) ELSE queue
  /\ UNCHANGED <<loaded, held, window, running, batch, gui, control, told, lapsed>>

\* Mutant of ClosePipe: the GUI thread is not joined.
ClosePipe_Unjoined ==
  /\ main = "joining"
  /\ main' = "closed"
  /\ UNCHANGED <<loaded, held, window, running, guiside, control, told, lapsed>>

\* thread_.join(), then control.Close().
ClosePipe ==
  /\ main = "joining"
  /\ gui.at \in {"off", "exited"}
  /\ main' = "closed"
  /\ UNCHANGED <<loaded, held, window, running, guiside, control, told, lapsed>>

----------------------------------------------------------------------------
(* The GUI thread. *)

\* Back at the top of the loop.
Free == [at |-> "idle", request |-> NoRequest, answer |-> FALSE]

\* DrainRequests takes the whole queue.
TakeBatch ==
  /\ gui.at = "idle" /\ batch = <<>> /\ queue # <<>>
  /\ batch' = queue
  /\ queue' = <<>>
  /\ UNCHANGED <<loaded, held, window, running, gui, control, told, main, lapsed>>

\* The next request of the batch.
Front(kind) ==
  /\ gui.at = "idle" /\ batch # <<>>
  /\ Head(batch).kind = kind
  /\ UNCHANGED <<loaded, held, running, queue, control, told, main, lapsed>>

\* HandleShow: an open editor is good enough; otherwise attach one.
HandleShow ==
  /\ Front("show")
  /\ batch' = Tail(batch)
  /\ LET open == window[Head(batch).slot] # None
     IN  gui' = [at |-> IF open THEN "reply" ELSE "attaching",
                 request |-> Head(batch), answer |-> open]
  /\ UNCHANGED window

\* EditorWindow::Attach calls into the view, and keeps it if all went well.
Attach ==
  /\ gui.at = "attaching"
  /\ \/ /\ window' = [window EXCEPT ![gui.request.slot] = gui.request.view]
        /\ gui' = [gui EXCEPT !.at = "reply", !.answer = TRUE]
     \/ /\ gui' = [gui EXCEPT !.at = "reply", !.answer = FALSE]
        /\ UNCHANGED window
  /\ UNCHANGED <<loaded, held, running, queue, batch, control, told, main, lapsed>>

HandleHide ==
  /\ Front("hide")
  /\ batch' = Tail(batch)
  /\ gui' = [at |-> "reply", request |-> Head(batch),
             answer |-> window[Head(batch).slot] # None]
  /\ window' = [window EXCEPT ![Head(batch).slot] = None]

\* The reply is written into the caller's stack frame.
SignalReply ==
  /\ gui.at = "reply"
  /\ control' = IF gui.request.caller = "waits"
                THEN [control EXCEPT !.at = "answered", !.answer = gui.answer]
                ELSE control
  /\ gui' = Free
  /\ UNCHANGED <<loaded, held, window, running, queue, batch, told, main, lapsed>>

\* Quit ends the loop; what is left of the batch is dropped.
HandleQuit ==
  /\ Front("quit")
  /\ batch' = <<>>
  /\ gui' = [gui EXCEPT !.at = "closing"]
  /\ UNCHANGED window

\* A failed select ends it too.
SelectFails ==
  /\ gui.at = "idle" /\ batch = <<>>
  /\ gui' = [gui EXCEPT !.at = "closing"]
  /\ UNCHANGED <<loaded, held, window, running, queue, batch, control, told, main, lapsed>>

\* The thread closes every window on its way out, and tells nobody.
CloseAll ==
  /\ gui.at = "closing"
  /\ window' = [s \in Slot |-> None]
  /\ gui' = [gui EXCEPT !.at = "exited"]
  /\ UNCHANGED <<loaded, held, running, queue, batch, control, told, main, lapsed>>

\* The operator closes a window: CloseEditorOnGuiThread.
UserCloses ==
  /\ gui.at = "idle" /\ batch = <<>>
  /\ \E s \in Slot :
       /\ window[s] # None
       /\ window' = [window EXCEPT ![s] = None]
       /\ gui' = [gui EXCEPT !.at = "closed", !.request.slot = s]
  /\ UNCHANGED <<loaded, held, running, queue, batch, control, told, main, lapsed>>

\* EnqueueAsyncEvent copies the callback, if it is still set.
EnqueueAsyncEvent ==
  /\ gui.at = "closed"
  /\ gui' = IF main = "running" THEN [gui EXCEPT !.at = "callback"] ELSE Free
  /\ UNCHANGED <<loaded, held, window, running, queue, batch, control, told, main, lapsed>>

\* The callback waits for chainMutex_, and drops the slot's view.
AsyncRelease ==
  /\ gui.at = "callback"
  /\ control.at # "teardown"
  /\ held' = [held EXCEPT ![gui.request.slot] = None]
  /\ gui' = [gui EXCEPT !.at = "notify"]
  /\ UNCHANGED <<loaded, window, running, queue, batch, control, told, main, lapsed>>

\* sendEditorClosed.
AsyncTell ==
  /\ gui.at = "notify"
  /\ told' = [told EXCEPT ![gui.request.slot] = FALSE]
  /\ gui' = Free
  /\ UNCHANGED <<loaded, held, window, running, queue, batch, control, main, lapsed>>

----------------------------------------------------------------------------
\* Posting a request, and waiting for its answer at most a second.
RequestNext == PostRequest \/ GiveUp \/ Resume
\* What a command does outside the program's hands: it calls the plugin, joins
\* the drain thread of a replaced slot, or sends to the host.
WorkNext ==
  \/ AcquireEditorView \/ AcquireEditorIdlePump \/ ReleaseEditorView
  \/ TellHost \/ ChangeSlot
MainNext == ClearCallback \/ StopGui \/ ClosePipe
GuiNext ==
  \/ TakeBatch \/ HandleShow \/ Attach \/ HandleHide \/ SignalReply \/ HandleQuit
  \/ CloseAll \/ EnqueueAsyncEvent \/ AsyncRelease \/ AsyncTell

Next ==
  \/ SlotShowEditor \/ SlotHideEditor \/ ChangePlugin \/ Goodbye
  \/ RequestNext \/ WorkNext \/ MainNext \/ GuiNext \/ SelectFails \/ UserCloses

\* The control reader and main are scheduled.  Nothing is assumed of the GUI
\* thread, which a plugin may hold for ever, or of the work of a command.
Spec == Init /\ [][Next]_vars /\ WF_vars(RequestNext) /\ WF_vars(MainNext)

\* Plugins return from the calls the GUI thread makes, and so does its send.
PluginsReturn == WF_vars(GuiNext)

\* Loads, unloads and the calls for a view return, and so do the reader's sends:
\* an unload may wait for ever for the drain thread (ParamBridge), and a send for
\* a host that reads nothing (ControlSend).
WorkReturns == WF_vars(WorkNext)

----------------------------------------------------------------------------
(* Properties. *)

\* In normal service, no command is in progress and the GUI thread has
\* nothing to do.
Rest ==
  /\ main = "running"
  /\ control.at \in {"idle", "exited"}
  /\ gui.at \in {"off", "idle"}
  /\ queue = <<>> /\ batch = <<>>

\* At rest, no view is kept for an editor that is not open, and the host knows
\* of every one that is, whichever of the operator and the host closed it last
\* and whether or not attaching it worked, unless a request outlived its
\* caller.  (The failed show, the callback and both hides each release the
\* view; replies and events are sent by two threads.)
EditorsAtRest ==
  Rest /\ ~lapsed =>
    \A s \in Slot : /\ held[s] # None => window[s] # None
                    /\ window[s] # None => told[s]

\* plugin_host.cpp on teardown: "by the time we reach Unload, the GUI thread
\* should have closed any window"; "PluginChain forces editor close before
\* calling Unload".  A hide that lapsed is taken for one of a closed editor,
\* and breaks it.
UnloadFindsEditorClosed ==
  control.at = "teardown" /\ ~lapsed => window[control.slot] = None

\* main.cpp on the end: "Detach the async callback BEFORE Stop() so any final
\* teardown events don't try to write to a control socket we're closing".  An
\* event on its way when the callback is removed is still sent in time.
SendsWhileOpen == gui.at \in {"callback", "notify"} => main # "closed"

\* The GUI thread never keeps the reader: if a command's own work returns, the
\* command ends, though a plugin holds the GUI thread, the thread is gone, or a
\* request of an earlier caller is still before it.
ReaderNotHeld ==
  WorkReturns =>
    (control.at \notin {"idle", "exited"} ~> control.at \in {"idle", "exited"})

\* If plugins and the send of the GUI thread return, main gets to its end once
\* the reader has left, and no window is left open.
StopEnds ==
  PluginsReturn =>
    (control.at = "exited" ~> main = "closed" /\ \A s \in Slot : window[s] = None)

\* gui_thread.h on what a request points to: "The caller (control thread)
\* acquires `view` (with refcount bumped) before calling", and of the reply
\* pointers, "caller waits on the same condvar".  The GUI thread finds them
\* alive.
RequestPointsToLive ==
  /\ gui.at = "attaching" => Alive(gui.request.view)
  /\ gui.at = "reply" => gui.request.caller = "waits"
============================================================================
