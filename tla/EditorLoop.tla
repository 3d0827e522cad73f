----------------------------- MODULE EditorLoop -----------------------------
(***************************************************************************)
(* The round of the GUI thread while an editor is open: window events      *)
(* (EditorWindow), the tick of a wrapper (OnEditorIdleTick of ClapPlugin,  *)
(* Idle of Vst2ViewWrapper), and the timers and descriptors a VST3 plugin  *)
(* registers (HostRunLoop).  In each of its callbacks the plugin may       *)
(* register, unregister or, through its frame, resize.                     *)
(*                                                                         *)
(* The audio thread is here as far as it takes the same parameter changes  *)
(* from a CLAP plugin as the tick's flush does.                            *)
(***************************************************************************)
EXTENDS Naturals, Sequences

CONSTANTS
  Fd,          \* descriptors a plugin may register
  Handler,     \* its handlers for them
  Timer,       \* its timers: handlers for VST3, ids for CLAP
  Size,        \* sizes of a window
  None,
  MaxNotices   \* bound on the resize events on their way

ASSUME LoopAssumption ==
  /\ Size # {}
  /\ None \notin Handler
  /\ MaxNotices \in Nat \ {0}

VARIABLES
  open,        \* the format of the plugin whose editor is open, or None
  size,        \* of the X window, in EditorWindow (width_), and of the view
  notices,     \* ConfigureNotify events that have not been read
  fds,         \* eventHandlers_
  timers,      \* timers_
  round,       \* where the GUI thread is, the callbacks still to make, and the
               \* one it is in
  changed,     \* history: registrations made or dropped while the list of
               \* callbacks is worked off
  knob         \* the change the plugin has to tell, and who is telling it

loopvars == <<open, size, notices, fds, timers, round, changed, knob>>
registry == <<fds, timers, changed>>

Format == {"vst3", "vst2", "clap"}
AnySize == CHOOSE s \in Size : TRUE
Place == {"top", "events", "idle", "flag", "flush", "report", "collect", "fire", "select", "dispatch"}

NoCall == [kind |-> "none", id |-> None, to |-> None]
Call == [kind : {"none", "size", "idle"}, id : {None}, to : {None}]
          \cup [kind : {"timer"}, id : Timer, to : {None}]
          \cup [kind : {"fd"}, id : Fd, to : Handler]

LoopTypeOK ==
  /\ open \in Format \cup {None}
  /\ size \in [x : Size, width : Size, view : Size]
  /\ notices \in Seq(Size) /\ Len(notices) <= MaxNotices
  /\ fds \in [Fd -> Handler \cup {None}]
  /\ timers \subseteq Timer
  /\ round \in [at : Place, todo : SUBSET Call, call : Call]
  /\ changed \subseteq Fd \cup Timer
  /\ knob \in [queued : BOOLEAN, asking : BOOLEAN, flush : BOOLEAN, carried : SUBSET {"gui", "audio"}]

Top == [at |-> "top", todo |-> {}, call |-> NoCall]
NoKnob == [queued |-> FALSE, asking |-> FALSE, flush |-> FALSE, carried |-> {}]

LoopInit ==
  /\ open = None
  /\ size = [x |-> AnySize, width |-> AnySize, view |-> AnySize]
  /\ notices = <<>>
  /\ fds = [f \in Fd |-> None]
  /\ timers = {}
  /\ round = Top
  /\ changed = {}
  /\ knob = NoKnob

----------------------------------------------------------------------------
(* The editor opens and closes, at the top of a round or among its events. *)

\* Mutant of SizeAfterAttach: the view's size is not read again.
SizeAfterAttach_Unread(s, asked, after) == [x |-> asked, width |-> s, view |-> after]

\* EditorWindow::Attach makes a window of the view's size s.  During attached
\* the plugin may have asked for another (asked), or its view changed by
\* itself: the view's size is read again, and given to the window.
SizeAfterAttach(s, asked, after) ==
  [x |-> IF after # s THEN after ELSE asked, width |-> IF after # s THEN after ELSE s, view |-> after]

\* During attached a VST3 plugin registers what it likes, a CLAP plugin timers.
Open(format) ==
  /\ open = None /\ round.at = "top"
  /\ open' = format
  /\ \E s, after \in Size, own \in BOOLEAN :
       /\ ~own => format = "vst3"
       /\ size' = SizeAfterAttach(s, IF own THEN s ELSE after, after)
       /\ notices' = IF after # s THEN <<after>> ELSE <<>>
  /\ fds' \in IF format = "vst3" THEN [Fd -> Handler \cup {None}] ELSE {fds}
  /\ timers' \in IF format = "vst2" THEN {{}} ELSE SUBSET Timer
  /\ UNCHANGED <<round, changed, knob>>

\* The plugin unregisters what it had in removed; for this slot there is
\* nothing more in the round.
Close ==
  /\ open # None /\ round.at \in {"top", "events"} /\ round.call = NoCall
  /\ open' = None
  /\ size' = [x |-> AnySize, width |-> AnySize, view |-> AnySize]
  /\ notices' = <<>>
  /\ fds' = [f \in Fd |-> None]
  /\ timers' = {}
  /\ round' = Top
  /\ UNCHANGED <<changed, knob>>

----------------------------------------------------------------------------
(* The round. *)

At(place) == open # None /\ round.at = place /\ round.call = NoCall
Go(place) == round' = [round EXCEPT !.at = place]

\* After DrainRequests.
StartRound ==
  /\ At("top")
  /\ Go("events")
  /\ UNCHANGED <<open, size, notices, registry, knob>>

\* EditorWindow::OnEvent on a ConfigureNotify.
OnEvent(s) == [size EXCEPT !.width = s, !.view = s]

\* DispatchPendingXEvents: the next event, if it has arrived.
NextEvent ==
  /\ At("events") /\ notices # <<>>
  /\ notices' = Tail(notices)
  /\ IF Head(notices) # size.width
     THEN /\ size' = OnEvent(Head(notices))
          /\ round' = [round EXCEPT !.call = [NoCall EXCEPT !.kind = "size"]]
     ELSE UNCHANGED <<size, round>>
  /\ UNCHANGED <<open, registry, knob>>

EventsDone ==
  /\ At("events")
  /\ Go("idle")
  /\ UNCHANGED <<open, size, notices, registry, knob>>

\* OnIdleTick: on_main_thread, effEditIdle, or nothing.
IdleTick ==
  /\ At("idle")
  /\ round' = [round EXCEPT !.at = IF open = "clap" THEN "flag" ELSE "collect",
                            !.call = IF open = "vst3" THEN NoCall ELSE [NoCall EXCEPT !.kind = "idle"]]
  /\ UNCHANGED <<open, size, notices, registry, knob>>

\* flushRequested.exchange(false).
TestFlag ==
  /\ At("flag")
  /\ IF knob.flush THEN Go("flush") ELSE Go("collect")
  /\ knob' = [knob EXCEPT !.flush = FALSE]
  /\ UNCHANGED <<open, size, notices, registry>>

\* paramsExt->flush: the plugin hands over what it has queued.
Flush ==
  /\ At("flush")
  /\ Go("report")
  /\ knob' = [knob EXCEPT !.queued = FALSE, !.carried = IF knob.queued THEN @ \cup {"gui"} ELSE @]
  /\ UNCHANGED <<open, size, notices, registry>>

\* Mutant of ReportFlush: the request is cleared once it has been served.
ReportFlush_Clears ==
  /\ At("report")
  /\ Go("collect")
  /\ knob' = [knob EXCEPT !.carried = @ \ {"gui"}, !.flush = FALSE]
  /\ UNCHANGED <<open, size, notices, registry>>

\* The callback, for what flush handed over.
ReportFlush ==
  /\ At("report")
  /\ Go("collect")
  /\ knob' = [knob EXCEPT !.carried = @ \ {"gui"}]
  /\ UNCHANGED <<open, size, notices, registry>>

\* The timers that are due, of the run loop or of the CLAP plugin.
CollectTimers ==
  /\ At("collect")
  /\ \E due \in SUBSET timers :
       round' = [round EXCEPT !.at = "fire", !.todo = {[kind |-> "timer", id |-> t, to |-> None] : t \in due}]
  /\ UNCHANGED <<open, size, notices, registry, knob>>

\* The next callback, made if the registration still allows it.
Make(allowed) ==
  \E c \in round.todo :
    round' = [round EXCEPT !.todo = @ \ {c}, !.call = IF c \in allowed THEN c ELSE NoCall]

\* HandleTimersAndGetNextFireMs looks the handler up again, OnEditorIdleTick
\* does not.
StillTimer(c) == open = "clap" \/ c.id \in timers

FireTimer ==
  /\ At("fire")
  /\ Make({c \in round.todo : StillTimer(c)})
  /\ UNCHANGED <<open, size, notices, registry, knob>>

\* Mutant of StillRegistered: DispatchFds does not look again.
StillRegistered_Unchecked(c) == c.id \in Fd

\* DispatchFds looks for the descriptor, whoever handles it now.
StillRegistered(c) == fds[c.id] # None

DispatchFd ==
  /\ At("dispatch")
  /\ Make({c \in round.todo : StillRegistered(c)})
  /\ UNCHANGED <<open, size, notices, registry, knob>>

TimersDone ==
  /\ At("fire") /\ round.todo = {}
  /\ Go("select")
  /\ changed' = {}
  /\ UNCHANGED <<open, size, notices, fds, timers, knob>>

\* select, with some of the descriptors ready, and DispatchFds' snapshot.
Select ==
  /\ At("select")
  /\ \E ready \in SUBSET {f \in Fd : fds[f] # None} :
       round' = [round EXCEPT !.at = "dispatch",
                              !.todo = {[kind |-> "fd", id |-> f, to |-> fds[f]] : f \in ready}]
  /\ UNCHANGED <<open, size, notices, registry, knob>>

EndRound ==
  /\ At("dispatch") /\ round.todo = {}
  /\ Go("top")
  /\ changed' = {}
  /\ UNCHANGED <<open, size, notices, fds, timers, knob>>

\* The plugin returns from a callback.
Return ==
  /\ round.call # NoCall
  /\ round' = [round EXCEPT !.call = NoCall]
  /\ UNCHANGED <<open, size, notices, registry, knob>>

----------------------------------------------------------------------------
(* The plugin, from within a callback. *)

InCall(format) == open = format /\ round.call # NoCall

Changes(r) == changed' = IF round.at \in {"fire", "dispatch"} THEN changed \cup {r} ELSE changed

\* A descriptor that is taken is refused.
registerEventHandler ==
  /\ InCall("vst3")
  /\ \E h \in Handler, f \in Fd :
       /\ fds[f] = None
       /\ fds' = [fds EXCEPT ![f] = h]
       /\ Changes(f)
  /\ UNCHANGED <<open, size, notices, timers, round, knob>>

\* One of the handler's descriptors, if it has several.
unregisterEventHandler ==
  /\ InCall("vst3")
  /\ \E f \in Fd :
       /\ fds[f] # None
       /\ fds' = [fds EXCEPT ![f] = None]
       /\ Changes(f)
  /\ UNCHANGED <<open, size, notices, timers, round, knob>>

\* The id of a CLAP timer is not handed out twice.
registerTimer ==
  /\ InCall("vst3") \/ InCall("clap")
  /\ \E t \in Timer \ timers :
       /\ open = "clap" => t \notin changed
       /\ timers' = timers \cup {t}
       /\ Changes(t)
  /\ UNCHANGED <<open, size, notices, fds, round, knob>>

unregisterTimer ==
  /\ InCall("vst3") \/ InCall("clap")
  /\ \E t \in timers :
       /\ timers' = timers \ {t}
       /\ Changes(t)
  /\ UNCHANGED <<open, size, notices, fds, round, knob>>

\* The X server sends an event when the window's size changes, or when the
\* window manager gives another than was asked for.
Resized(s, given) ==
  notices' = IF given # size.x \/ given # s THEN Append(notices, given) ELSE notices

\* Mutant of resizeView: a rectangle is not tested for null.
resizeView_Unchecked ==
  /\ InCall("vst3") /\ Len(notices) < MaxNotices
  /\ \E s \in Size \cup {None}, given \in Size :
       /\ size' = [x |-> given, width |-> s, view |-> s]
       /\ Resized(s, given)
  /\ UNCHANGED <<open, registry, round, knob>>

\* HostPlugFrame::resizeView: the window, the view, and OnResized.
resizeView ==
  /\ InCall("vst3") /\ Len(notices) < MaxNotices
  /\ \E s, given \in Size :
       /\ size' = [x |-> given, width |-> s, view |-> s]
       /\ Resized(s, given)
  /\ UNCHANGED <<open, registry, round, knob>>

----------------------------------------------------------------------------
(* The operator, the plugin's own threads and the audio thread. *)

UserResizes ==
  /\ open # None /\ Len(notices) < MaxNotices
  /\ \E s \in Size \ {size.x} :
       /\ size' = [size EXCEPT !.x = s]
       /\ Resized(s, s)
  /\ UNCHANGED <<open, registry, round, knob>>

\* The operator turns a knob: the plugin queues the change,
TurnKnob ==
  /\ open = "clap" /\ ~knob.asking
  /\ knob' = [knob EXCEPT !.queued = TRUE, !.asking = TRUE]
  /\ UNCHANGED <<open, size, notices, registry, round>>

\* and calls request_flush, from any thread.
RequestFlush ==
  /\ knob.asking
  /\ knob' = [knob EXCEPT !.asking = FALSE, !.flush = TRUE]
  /\ UNCHANGED <<open, size, notices, registry, round>>

\* ClapPlugin::Process: the block's output events carry it,
Process ==
  /\ knob.queued
  /\ knob' = [knob EXCEPT !.queued = FALSE, !.carried = @ \cup {"audio"}]
  /\ UNCHANGED <<open, size, notices, registry, round>>

\* and the audio thread calls back.
ReportProcess ==
  /\ "audio" \in knob.carried
  /\ knob' = [knob EXCEPT !.carried = @ \ {"audio"}]
  /\ UNCHANGED <<open, size, notices, registry, round>>

----------------------------------------------------------------------------
RoundNext ==
  \/ StartRound \/ EventsDone \/ IdleTick \/ TestFlag \/ Flush \/ ReportFlush
  \/ CollectTimers \/ FireTimer \/ TimersDone \/ Select \/ DispatchFd \/ EndRound \/ Return
PluginNext ==
  \/ registerEventHandler \/ unregisterEventHandler \/ registerTimer \/ unregisterTimer \/ resizeView
  \/ TurnKnob \/ Process \/ ReportProcess

LoopNext == RoundNext \/ NextEvent \/ PluginNext \/ RequestFlush \/ UserResizes

----------------------------------------------------------------------------
(* Properties. *)

\* When no event is on its way, the window, what EditorWindow keeps and the
\* view agree on the size, whichever of the operator, the window manager and
\* the plugin changed it last, during attached as well as later, and even
\* when an older event is read after a newer resize.
SizesAgree ==
  open # None /\ notices = <<>> => size.x = size.width /\ size.width = size.view

\* A callback goes to a current registration, though handlers register and
\* unregister each other while the list is worked off.  Two cases are left: a
\* descriptor that changed hands since the list was made, which DispatchFds
\* cannot tell, and a CLAP timer dropped since.  (host_run_loop.cpp: "The
\* handler may unregister itself during this call".)
Current(c) ==
  CASE c.kind = "fd"    -> fds[c.id] = c.to \/ (c.id \in changed /\ fds[c.id] # None)
    [] c.kind = "timer" -> c.id \in timers \/ (open = "clap" /\ c.id \in changed)
    [] OTHER            -> TRUE
CallsCurrent == [][round'.call # round.call => Current(round'.call)]_round

\* A change the plugin has queued is never left without a request that will
\* take it, even if the audio thread never processes: one that comes while
\* another is being served is not lost with it.  (clap_plugin.cpp: without the
\* flush "an operator could turn knobs all day while RX-only and the host would
\* never see the changes".)
KnobNeverStranded ==
  knob.queued /\ ~knob.asking => knob.flush \/ round.at = "flush"
=============================================================================
