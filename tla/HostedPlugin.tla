---------------------------- MODULE HostedPlugin ----------------------------
(***************************************************************************)
(* PluginLife and EditorLoop together: the plugin in one slot, loaded and  *)
(* unloaded by the control thread, and the GUI thread that opens and       *)
(* closes its editor and, between requests, goes round calling into it.    *)
(*                                                                         *)
(* The GUI thread does one thing at a time: a request is handled at the    *)
(* top of a round, the operator closes the window among its events, and a  *)
(* round goes on only when nothing of that is in progress.                 *)
(***************************************************************************)
EXTENDS PluginLife, EditorLoop

vars == <<lifevars, loopvars>>

TypeOK == LifeTypeOK /\ LoopTypeOK

Init == LifeInit /\ LoopInit

\* The GUI thread is between two rounds, or not there yet.
AtTop == round.at = "top"

\* The control thread, and what the GUI thread does of an attach or a detach.
LifeStep ==
  /\ \/ StartCommand \/ Take \/ Skip \/ Fail \/ Publish \/ ReleaseOne \/ EndRelease
     \/ SlotShowEditor \/ AttachTake \/ AttachSkip \/ AttachFail
     \/ GuiReleaseOne \/ GuiEndRelease \/ Reply \/ GiveUp
     \/ AtTop /\ HandleShow
  /\ UNCHANGED loopvars

\* The parameter state of a CLAP plugin goes with its host object.
EmptySlot ==
  /\ EndTeardown
  /\ knob' = NoKnob
  /\ UNCHANGED <<open, size, notices, registry, round>>

Opens == AttachDone /\ Open(plugin.format)

\* A hide closes the window, if there is one, at the top of a round; the
\* operator does among the round's events.
Closes ==
  \/ /\ AtTop /\ HandleHide
     /\ IF open # None THEN Close ELSE UNCHANGED loopvars
  \/ round.at = "events" /\ UserCloses /\ Close

\* The rest of the round, with no request in progress.
LoopStep ==
  /\ gui.at = "idle"
  /\ RoundNext \/ NextEvent \/ registerEventHandler \/ unregisterEventHandler
     \/ registerTimer \/ unregisterTimer \/ resizeView
  /\ UNCHANGED lifevars

\* What other threads do beside it.
OtherStep ==
  /\ UserResizes \/ TurnKnob \/ RequestFlush \/ Process \/ ReportProcess
  /\ UNCHANGED lifevars

Next == LifeStep \/ EmptySlot \/ Opens \/ Closes \/ LoopStep \/ OtherStep

Spec == Init /\ [][Next]_vars

----------------------------------------------------------------------------
(* Properties. *)

\* While the GUI thread is inside a callback of the plugin, or works through a
\* list of them, the plugin, its view and its window are all there, as long as
\* no request lapsed.  A hide that lapses while a callback holds the GUI thread
\* is taken for one of a closed editor, and the unload goes on beside the
\* callback; but the end of main never does, not even after a lapse.
\* (clap_plugin.cpp and vst2_view.h leave the tick without a lock.)
CallsFindPlugin ==
  round.call # NoCall \/ round.todo # {} =>
    /\ ~Lapsed => loaded /\ {"module", "view", "window"} \subseteq held /\ control.at # "teardown"
    /\ control.at = "teardown" => control.command # "quit"
=============================================================================
