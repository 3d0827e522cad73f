------------------------ MODULE EditorSessionProofs ------------------------
(***************************************************************************)
(* Theorems about the editor commands, for every number of slots, pool of  *)
(* views and bound on the requests left behind.                            *)
(***************************************************************************)
EXTENDS EditorSession, SequenceTheorems, TLAPS

\* A show names a view.
Posted == {r \in Request : r.kind = "show" => r.view # None}

\* TypeOK, and who adds to the queue: a command posts at most one request to the
\* MaxQueue that Ready allows it to find there, and main posts the last.
Types ==
  /\ TypeOK
  /\ queue \in Seq(Posted) /\ batch \in Seq(Posted) /\ gui.request \in Posted
  /\ control.at \in {"acquire", "pump", "post"} => Len(queue) < MaxQueue
  /\ main \in {"running", "cleared"} => Len(queue) <= MaxQueue

\* The steps of a command belong to its kind.
CommandInv ==
  /\ control.at \in {"acquire", "pump"} => control.command = "show"
  /\ control.at = "teardown" => control.command = "change"
  /\ control.at \in {"pump", "post", "wait"} /\ control.command = "show" => control.view # None

\* main leaves its service after the reader, and closes after the GUI thread.
MainInv ==
  /\ main # "running" => control.at = "exited"
  /\ main = "closed" => gui.at \in {"off", "exited"}

\* At most one request has a caller who waits for its reply, and that caller is
\* the command in progress, even when older requests were left behind.
NoneWaits(q) == \A k \in 1 .. Len(q) : q[k].caller = "gone"

OneWaits(q) ==
  \A j, k \in 1 .. Len(q) : q[j].caller = "waits" /\ q[k].caller = "waits" => j = k

Handling == gui.at \in {"attaching", "reply"}

CallerInv ==
  /\ OneWaits(queue) /\ OneWaits(batch)
  /\ NoneWaits(queue) \/ NoneWaits(batch)
  /\ gui.request.caller = "waits" => Handling /\ NoneWaits(queue) /\ NoneWaits(batch)
  /\ control.at # "wait" =>
       NoneWaits(queue) /\ NoneWaits(batch) /\ gui.request.caller = "gone"

\* What the GUI thread is at, and the window it is about.
GuiInv ==
  /\ running <=> gui.at # "off"
  /\ gui.at = "off" => \A s \in Slot : window[s] = None
  /\ gui.at = "attaching" => gui.request.kind = "show"
  /\ gui.at \in {"attaching", "closed", "callback", "notify"} =>
       window[gui.request.slot] = None
  /\ gui.at = "reply" =>
       IF gui.request.kind = "show"
       THEN gui.answer <=> window[gui.request.slot] # None
       ELSE window[gui.request.slot] = None

\* While no request outlived its caller there is at most one, in one place, and
\* it is the one of the command in progress.
Asked ==
  [kind |-> IF control.command = "show" THEN "show" ELSE "hide",
   slot |-> control.slot, view |-> control.view, caller |-> "waits"]

Underway ==
  \/ queue = <<Asked>> /\ batch = <<>> /\ ~Handling
  \/ queue = <<>> /\ batch = <<Asked>> /\ ~Handling
  \/ queue = <<>> /\ batch = <<>> /\ Handling /\ gui.request = Asked

ExchangeInv ==
  ~lapsed =>
    IF control.at = "wait" THEN Underway
    ELSE /\ ~Handling
         /\ main \in {"running", "cleared"} => queue = <<>> /\ batch = <<>>
         /\ queue \in {<<>>, <<NoRequest>>} /\ batch \in {<<>>, <<NoRequest>>}

\* Once a hide was answered its window is closed, and once a show failed.
AnswerInv ==
  ~lapsed /\ control.at \in {"answered", "release", "tell", "teardown"} =>
    \/ window[control.slot] = None
    \/ control.command = "show" /\ control.at = "answered" /\ control.answer
    \/ control.command = "show" /\ control.at = "tell"

\* A view is kept for an open window, or for one that somebody is about to open,
\* or is about to be released by whoever closed the window.
Showing(s) ==
  /\ control.slot = s /\ control.command = "show"
  /\ \/ control.at \in {"pump", "post", "wait", "release"}
     \/ control.at = "answered" /\ ~control.answer

Hiding(s) ==
  /\ control.slot = s /\ control.command # "show"
  /\ \/ control.at = "wait" /\ gui.at = "reply" /\ gui.answer
     \/ control.at = "answered" /\ control.answer
     \/ control.at = "release"

UserClosed(s) == gui.at \in {"closed", "callback"} /\ gui.request.slot = s

\* The host knows of an open window, or is about to be told.
Telling(s) ==
  /\ control.slot = s /\ control.command = "show"
  /\ \/ control.at = "wait" /\ gui.at = "reply"
     \/ control.at = "answered" /\ control.answer
     \/ control.at = "tell"

InService == ~lapsed /\ main = "running" /\ gui.at \notin {"closing", "exited"}

Settled(s) ==
  /\ held[s] # None => window[s] # None \/ Showing(s) \/ Hiding(s) \/ UserClosed(s)
  /\ window[s] # None => told[s] \/ Telling(s)

ServiceInv == InService => \A s \in Slot : Settled(s)

IInv ==
  Types /\ CommandInv /\ CallerInv /\ MainInv /\ GuiInv /\ ExchangeInv /\ AnswerInv /\ ServiceInv

----------------------------------------------------------------------------
(* Types. *)

\* What the records of the two threads are made of.
LEMMA RecordTypes ==
  /\ NoRequest \in Posted /\ NoRequest \in Request /\ AnySlot \in Slot
  /\ NoRequest.view = None /\ NoRequest.caller = "gone" /\ NoRequest.kind = "quit"
  /\ \A r \in Posted : r \in Request /\ Abandon(r) \in Posted
<1>1. AnySlot \in Slot
  BY EditorAssumption DEF AnySlot
<1> QED  BY <1>1 DEF NoRequest, Request, Posted, Abandon

\* TypeOK without the queue and the batch, whose members' types imply theirs.
Scalars ==
  /\ loaded \in [Slot -> BOOLEAN]
  /\ held \in [Slot -> View \cup {None}]
  /\ window \in [Slot -> View \cup {None}]
  /\ running \in BOOLEAN
  /\ gui \in [at : GuiSteps, request : Posted, answer : BOOLEAN]
  /\ control \in [at : ControlSteps, command : Commands, slot : Slot,
                  view : View \cup {None}, answer : BOOLEAN]
  /\ told \in [Slot -> BOOLEAN]
  /\ main \in {"running", "cleared", "joining", "closed"}
  /\ lapsed \in BOOLEAN

Queues ==
  /\ queue \in Seq(Posted) /\ batch \in Seq(Posted)
  /\ Len(queue) <= MaxQueue + 1
  /\ control.at \in {"acquire", "pump", "post"} => Len(queue) < MaxQueue
  /\ main \in {"running", "cleared"} => Len(queue) <= MaxQueue

LEMMA TypesParts == Types <=> Scalars /\ Queues
<1>1. Types => Scalars /\ Queues
  <2> SUFFICES ASSUME Types PROVE Scalars /\ Queues
    OBVIOUS
  <2>1. gui \in [at : GuiSteps, request : Posted, answer : BOOLEAN]
    BY DEF Types, TypeOK
  <2>   QED  BY <2>1 DEF Types, TypeOK, Scalars, Queues
<1>2. Scalars /\ Queues => Types
  <2> SUFFICES ASSUME Scalars, Queues PROVE Types
    OBVIOUS
  <2>1. Posted \subseteq Request
    BY DEF Posted
  <2>2. queue \in Seq(Request) /\ batch \in Seq(Request)
    BY <2>1, SeqMonotonic DEF Queues
  <2>3. /\ gui \in [at : GuiSteps, request : Request, answer : BOOLEAN]
        /\ gui.request \in Posted
    BY <2>1 DEF Scalars
  <2>   QED  BY <2>2, <2>3 DEF Types, TypeOK, Scalars, Queues
<1> QED  BY <1>1, <1>2

LEMMA InitTypes == Init => Types
<1> SUFFICES ASSUME Init PROVE Scalars /\ Queues
  BY TypesParts
<1>1. Scalars
  BY RecordTypes DEF Init, Scalars, GuiSteps, ControlSteps, Commands, NoCommand
<1>2. Queues
  BY EditorAssumption, EmptySeq DEF Init, Queues, NoCommand
<1> QED  BY <1>1, <1>2

LEMMA NextScalars ==
  ASSUME Scalars, Queues, [Next]_vars
  PROVE  Scalars'
<1>1. CASE SlotShowEditor
  BY <1>1, RecordTypes DEF SlotShowEditor, Ready, Scalars, GuiSteps, ControlSteps, Commands, NoCommand, guiside
<1>2. CASE SlotHideEditor
  BY <1>2, RecordTypes DEF SlotHideEditor, Ready, Scalars, GuiSteps, ControlSteps, Commands, NoCommand, guiside
<1>3. CASE ChangePlugin
  BY <1>3, RecordTypes DEF ChangePlugin, Ready, Scalars, GuiSteps, ControlSteps, Commands, NoCommand, guiside
<1>4. CASE Goodbye
  BY <1>4, RecordTypes DEF Goodbye, Scalars, GuiSteps, ControlSteps, Commands, NoCommand, guiside
<1>5. CASE AcquireEditorView
  <2>1. control.slot \in Slot
    BY DEF Scalars
  <2>2. held' \in [Slot -> View \cup {None}] /\ held[control.slot] \in View \cup {None}
    <3>1. held' = held \/ \E v \in View : held' = [held EXCEPT ![control.slot] = v]
      BY <1>5 DEF AcquireEditorView
    <3>   QED  BY <2>1, <3>1 DEF Scalars
  <2>3. control' \in [at : ControlSteps, command : Commands, slot : Slot,
                     view : View \cup {None}, answer : BOOLEAN]
    <3>1. CASE control' = NoCommand
      BY <3>1, RecordTypes DEF NoCommand, ControlSteps, Commands
    <3>2. CASE \E v \in View \cup {None} : control' = [control EXCEPT !.at = "pump", !.view = v]
      BY <3>2 DEF Scalars, ControlSteps
    <3>   QED  BY <1>5, <2>2, <3>1, <3>2 DEF AcquireEditorView
  <2>   QED  BY <1>5, <2>2, <2>3 DEF AcquireEditorView, Scalars, guiside
<1>6. CASE AcquireEditorIdlePump
  BY <1>6, RecordTypes DEF AcquireEditorIdlePump, Scalars, GuiSteps, ControlSteps, Commands, NoCommand, guiside
<1>7. CASE PostRequest
  BY <1>7, RecordTypes DEF PostRequest, Scalars, GuiSteps, ControlSteps, Commands, NoCommand, guiside
<1>8. CASE GiveUp
  <2>1. gui' \in [at : GuiSteps, request : Posted, answer : BOOLEAN]
    BY <1>8, RecordTypes DEF GiveUp, Scalars
  <2>2. control' \in [at : ControlSteps, command : Commands, slot : Slot,
                     view : View \cup {None}, answer : BOOLEAN]
    BY <1>8 DEF GiveUp, Scalars, ControlSteps
  <2>   QED  BY <1>8, <2>1, <2>2 DEF GiveUp, Scalars
<1>9. CASE Resume
  BY <1>9, RecordTypes DEF Resume, Scalars, GuiSteps, ControlSteps, Commands, NoCommand, guiside
<1>10. CASE ReleaseEditorView
  BY <1>10, RecordTypes DEF ReleaseEditorView, Scalars, GuiSteps, ControlSteps, Commands, NoCommand, guiside
<1>11. CASE TellHost
  BY <1>11, RecordTypes DEF TellHost, Scalars, GuiSteps, ControlSteps, Commands, NoCommand, guiside
<1>12. CASE ChangeSlot
  BY <1>12, RecordTypes DEF ChangeSlot, Scalars, GuiSteps, ControlSteps, Commands, NoCommand, guiside
<1>13. CASE ClearCallback
  BY <1>13, RecordTypes DEF ClearCallback, Scalars, GuiSteps, ControlSteps, Commands, NoCommand, guiside
<1>14. CASE StopGui
  BY <1>14, RecordTypes DEF StopGui, Scalars, GuiSteps, ControlSteps, Commands, NoCommand, guiside
<1>15. CASE ClosePipe
  BY <1>15, RecordTypes DEF ClosePipe, Scalars, GuiSteps, ControlSteps, Commands, NoCommand, guiside
<1>16. CASE TakeBatch
  BY <1>16 DEF TakeBatch, Scalars
<1>17. CASE HandleShow
  <2>1. Head(batch) \in Posted /\ Head(batch).slot \in Slot
    BY <1>17, EmptySeq, HeadTailProperties DEF HandleShow, Front, Queues, Posted, Request
  <2>2. gui' \in [at : GuiSteps, request : Posted, answer : BOOLEAN]
    BY <1>17, <2>1 DEF HandleShow, GuiSteps
  <2>   QED  BY <1>17, <2>1, <2>2 DEF HandleShow, Front, Scalars
<1>18. CASE Attach
  <2>1. gui.request.slot \in Slot /\ gui.request.view \in View \cup {None}
    BY DEF Scalars, Posted, Request
  <2>2. gui' \in [at : GuiSteps, request : Posted, answer : BOOLEAN]
    BY <1>18 DEF Attach, Scalars, GuiSteps
  <2>   QED  BY <1>18, <2>1, <2>2 DEF Attach, Scalars
<1>19. CASE HandleHide
  <2>1. Head(batch) \in Posted /\ Head(batch).slot \in Slot
    BY <1>19, EmptySeq, HeadTailProperties DEF HandleHide, Front, Queues, Posted, Request
  <2>2. gui' \in [at : GuiSteps, request : Posted, answer : BOOLEAN]
    BY <1>19, <2>1 DEF HandleHide, GuiSteps
  <2>   QED  BY <1>19, <2>1, <2>2 DEF HandleHide, Front, Scalars
<1>20. CASE SignalReply
  BY <1>20, RecordTypes DEF SignalReply, Free, Scalars, GuiSteps, ControlSteps, Commands, NoCommand, guiside
<1>21. CASE HandleQuit
  BY <1>21, RecordTypes DEF HandleQuit, Front, Scalars, GuiSteps, ControlSteps, Commands, NoCommand, guiside
<1>22. CASE CloseAll
  BY <1>22, RecordTypes DEF CloseAll, Scalars, GuiSteps, ControlSteps, Commands, NoCommand, guiside
<1>23. CASE EnqueueAsyncEvent
  BY <1>23, RecordTypes DEF EnqueueAsyncEvent, Free, Scalars, GuiSteps, ControlSteps, Commands, NoCommand, guiside
<1>24. CASE AsyncRelease
  BY <1>24, RecordTypes DEF AsyncRelease, Scalars, GuiSteps, ControlSteps, Commands, NoCommand, guiside
<1>25. CASE AsyncTell
  BY <1>25, RecordTypes DEF AsyncTell, Free, Scalars, GuiSteps, ControlSteps, Commands, NoCommand, guiside
<1>26. CASE SelectFails
  BY <1>26, RecordTypes DEF SelectFails, Scalars, GuiSteps, ControlSteps, Commands, NoCommand, guiside
<1>27. CASE UserCloses
  <2>1. PICK s \in Slot :
          /\ window' = [window EXCEPT ![s] = None]
          /\ gui' = [gui EXCEPT !.at = "closed", !.request.slot = s]
    BY <1>27 DEF UserCloses
  <2>2. gui' \in [at : GuiSteps, request : Posted, answer : BOOLEAN]
    BY <2>1 DEF Scalars, GuiSteps, Posted, Request
  <2>   QED  BY <1>27, <2>1, <2>2 DEF UserCloses, Scalars
<1>28. CASE UNCHANGED vars
  BY <1>28, RecordTypes DEF vars, guiside, Scalars, GuiSteps, ControlSteps, Commands, NoCommand, guiside
<1> QED
  BY <1>1, <1>2, <1>3, <1>4, <1>5, <1>6, <1>7, <1>8, <1>9, <1>10, <1>11, <1>12, <1>13, <1>14, <1>15, <1>16, <1>17, <1>18, <1>19, <1>20, <1>21, <1>22, <1>23, <1>24, <1>25, <1>26, <1>27, <1>28
     DEF Next, RequestNext, WorkNext, MainNext, GuiNext

LEMMA NextQueues ==
  ASSUME Scalars, Queues, CommandInv, MainInv, [Next]_vars
  PROVE  Queues'
<1>1. CASE SlotShowEditor
  BY <1>1 DEF SlotShowEditor, Ready, Scalars, Queues, NoCommand, guiside
<1>2. CASE SlotHideEditor
  BY <1>2 DEF SlotHideEditor, Ready, Scalars, Queues, NoCommand, guiside
<1>3. CASE ChangePlugin
  BY <1>3 DEF ChangePlugin, Ready, Scalars, Queues, NoCommand, guiside
<1>4. CASE Goodbye
  BY <1>4 DEF Goodbye, Scalars, Queues, NoCommand, guiside
<1>5. CASE AcquireEditorView
  BY <1>5 DEF AcquireEditorView, Scalars, Queues, NoCommand, guiside
<1>6. CASE AcquireEditorIdlePump
  BY <1>6 DEF AcquireEditorIdlePump, Scalars, Queues, NoCommand, guiside
<1>7. CASE PostRequest
  <2> DEFINE r == [kind |-> IF control.command = "show" THEN "show" ELSE "hide",
                   slot |-> control.slot, view |-> control.view, caller |-> "waits"]
  <2>1. r \in Posted
    BY <1>7 DEF PostRequest, Scalars, CommandInv, Posted, Request
  <2>2. queue' \in Seq(Posted) /\ Len(queue') = Len(queue) + 1 /\ Len(queue) \in Nat
    BY <1>7, <2>1, AppendProperties, LenProperties DEF PostRequest, Queues
  <2>3. Len(queue) < MaxQueue /\ MaxQueue \in Nat
    BY <1>7, EditorAssumption DEF PostRequest, Queues
  <2>   QED  BY <1>7, <2>2, <2>3 DEF PostRequest, Queues, Scalars
<1>8. CASE GiveUp
  <2>1. ASSUME NEW q \in Seq(Posted) PROVE AbandonAll(q) \in Seq(Posted) /\ Len(AbandonAll(q)) = Len(q)
    <3>1. Len(q) \in Nat /\ q \in [1 .. Len(q) -> Posted] /\ DOMAIN q = 1 .. Len(q)
      BY LenProperties
    <3>2. AbandonAll(q) \in [1 .. Len(q) -> Posted]
      BY <3>1, RecordTypes DEF AbandonAll
    <3>3. AbandonAll(q) \in Seq(Posted)
      BY <3>1, <3>2, SeqDef
    <3>   QED  BY <3>1, <3>2, <3>3, LenProperties
  <2>   QED  BY <1>8, <2>1 DEF GiveUp, Queues, Scalars
<1>9. CASE Resume
  BY <1>9 DEF Resume, Scalars, Queues, NoCommand, guiside
<1>10. CASE ReleaseEditorView
  BY <1>10 DEF ReleaseEditorView, Scalars, Queues, NoCommand, guiside
<1>11. CASE TellHost
  BY <1>11 DEF TellHost, Scalars, Queues, NoCommand, guiside
<1>12. CASE ChangeSlot
  BY <1>12 DEF ChangeSlot, Scalars, Queues, NoCommand, guiside
<1>13. CASE ClearCallback
  BY <1>13 DEF ClearCallback, Scalars, Queues, NoCommand, guiside
<1>14. CASE StopGui
  <2>1. queue' \in Seq(Posted) /\ Len(queue') <= MaxQueue + 1
    BY <1>14, RecordTypes, AppendProperties, LenProperties, EditorAssumption DEF StopGui, Queues
  <2>2. control.at \notin {"acquire", "pump", "post"}
    BY <1>14 DEF StopGui, MainInv
  <2>   QED  BY <1>14, <2>1, <2>2 DEF StopGui, Queues
<1>15. CASE ClosePipe
  BY <1>15 DEF ClosePipe, Scalars, Queues, NoCommand, guiside
<1>16. CASE TakeBatch
  BY <1>16, EmptySeq, EditorAssumption DEF TakeBatch, Queues
<1>17. CASE HandleShow
  BY <1>17, HeadTailProperties DEF HandleShow, Front, Queues
<1>18. CASE Attach
  BY <1>18 DEF Attach, Scalars, Queues, NoCommand, guiside
<1>19. CASE HandleHide
  BY <1>19, HeadTailProperties DEF HandleHide, Front, Queues
<1>20. CASE SignalReply
  BY <1>20 DEF SignalReply, Free, Scalars, Queues, NoCommand, guiside
<1>21. CASE HandleQuit
  BY <1>21, EmptySeq DEF HandleQuit, Front, Queues
<1>22. CASE CloseAll
  BY <1>22 DEF CloseAll, Scalars, Queues, NoCommand, guiside
<1>23. CASE EnqueueAsyncEvent
  BY <1>23 DEF EnqueueAsyncEvent, Free, Scalars, Queues, NoCommand, guiside
<1>24. CASE AsyncRelease
  BY <1>24 DEF AsyncRelease, Scalars, Queues, NoCommand, guiside
<1>25. CASE AsyncTell
  BY <1>25 DEF AsyncTell, Free, Scalars, Queues, NoCommand, guiside
<1>26. CASE SelectFails
  BY <1>26 DEF SelectFails, Scalars, Queues, NoCommand, guiside
<1>27. CASE UserCloses
  BY <1>27 DEF UserCloses, Scalars, Queues, NoCommand, guiside
<1>28. CASE UNCHANGED vars
  BY <1>28 DEF vars, guiside, Scalars, Queues, NoCommand, guiside
<1> QED
  BY <1>1, <1>2, <1>3, <1>4, <1>5, <1>6, <1>7, <1>8, <1>9, <1>10, <1>11, <1>12, <1>13, <1>14, <1>15, <1>16, <1>17, <1>18, <1>19, <1>20, <1>21, <1>22, <1>23, <1>24, <1>25, <1>26, <1>27, <1>28
     DEF Next, RequestNext, WorkNext, MainNext, GuiNext

----------------------------------------------------------------------------
(* The steps of a command, of main and of the GUI thread. *)

LEMMA HeadPosted ==
  ASSUME Queues, batch # <<>>
  PROVE  Head(batch) \in Posted /\ Head(batch).slot \in Slot /\ Head(batch).kind \in {"show", "hide", "quit"}
BY HeadTailProperties DEF Queues, Posted, Request

LEMMA NextCommand ==
  ASSUME Scalars, CommandInv, [Next]_vars
  PROVE  CommandInv'
<1>1. CASE SlotShowEditor
  BY <1>1 DEF SlotShowEditor, Ready, Scalars, CommandInv, NoCommand, Commands, guiside
<1>2. CASE SlotHideEditor
  BY <1>2 DEF SlotHideEditor, Ready, Scalars, CommandInv, NoCommand, Commands, guiside
<1>3. CASE ChangePlugin
  BY <1>3 DEF ChangePlugin, Ready, Scalars, CommandInv, NoCommand, Commands, guiside
<1>4. CASE Goodbye
  BY <1>4 DEF Goodbye, Scalars, CommandInv, NoCommand, Commands, guiside
<1>5. CASE AcquireEditorView
  <2>1. control.command = "show"
    BY <1>5 DEF AcquireEditorView, CommandInv
  <2>2. CASE control' = NoCommand
    BY <2>2 DEF NoCommand, CommandInv
  <2>3. CASE \E v \in View \cup {None} : v # None /\ control' = [control EXCEPT !.at = "pump", !.view = v]
    BY <2>1, <2>3 DEF Scalars, CommandInv
  <2>4. held[control.slot] \in View \cup {None}
    BY DEF Scalars
  <2>   QED  BY <1>5, <2>2, <2>3, <2>4, EditorAssumption DEF AcquireEditorView
<1>6. CASE AcquireEditorIdlePump
  BY <1>6 DEF AcquireEditorIdlePump, Scalars, CommandInv, NoCommand, Commands, guiside
<1>7. CASE PostRequest
  BY <1>7 DEF PostRequest, Scalars, CommandInv, NoCommand, Commands, guiside
<1>8. CASE GiveUp
  BY <1>8 DEF GiveUp, Scalars, CommandInv, NoCommand, Commands, guiside
<1>9. CASE Resume
  BY <1>9 DEF Resume, Scalars, CommandInv, NoCommand, Commands, guiside
<1>10. CASE ReleaseEditorView
  BY <1>10 DEF ReleaseEditorView, Scalars, CommandInv, NoCommand, Commands, guiside
<1>11. CASE TellHost
  BY <1>11 DEF TellHost, Scalars, CommandInv, NoCommand, Commands, guiside
<1>12. CASE ChangeSlot
  BY <1>12 DEF ChangeSlot, Scalars, CommandInv, NoCommand, Commands, guiside
<1>13. CASE ClearCallback
  BY <1>13 DEF ClearCallback, Scalars, CommandInv, NoCommand, Commands, guiside
<1>14. CASE StopGui
  BY <1>14 DEF StopGui, Scalars, CommandInv, NoCommand, Commands, guiside
<1>15. CASE ClosePipe
  BY <1>15 DEF ClosePipe, Scalars, CommandInv, NoCommand, Commands, guiside
<1>16. CASE TakeBatch
  BY <1>16 DEF TakeBatch, Scalars, CommandInv, NoCommand, Commands, guiside
<1>17. CASE HandleShow
  BY <1>17 DEF HandleShow, Front, Scalars, CommandInv, NoCommand, Commands, guiside
<1>18. CASE Attach
  BY <1>18 DEF Attach, Scalars, CommandInv, NoCommand, Commands, guiside
<1>19. CASE HandleHide
  BY <1>19 DEF HandleHide, Front, Scalars, CommandInv, NoCommand, Commands, guiside
<1>20. CASE SignalReply
  BY <1>20 DEF SignalReply, Free, Scalars, CommandInv, NoCommand, Commands, guiside
<1>21. CASE HandleQuit
  BY <1>21 DEF HandleQuit, Front, Scalars, CommandInv, NoCommand, Commands, guiside
<1>22. CASE CloseAll
  BY <1>22 DEF CloseAll, Scalars, CommandInv, NoCommand, Commands, guiside
<1>23. CASE EnqueueAsyncEvent
  BY <1>23 DEF EnqueueAsyncEvent, Free, Scalars, CommandInv, NoCommand, Commands, guiside
<1>24. CASE AsyncRelease
  BY <1>24 DEF AsyncRelease, Scalars, CommandInv, NoCommand, Commands, guiside
<1>25. CASE AsyncTell
  BY <1>25 DEF AsyncTell, Free, Scalars, CommandInv, NoCommand, Commands, guiside
<1>26. CASE SelectFails
  BY <1>26 DEF SelectFails, Scalars, CommandInv, NoCommand, Commands, guiside
<1>27. CASE UserCloses
  BY <1>27 DEF UserCloses, Scalars, CommandInv, NoCommand, Commands, guiside
<1>28. CASE UNCHANGED vars
  BY <1>28 DEF vars, guiside, Scalars, CommandInv, NoCommand, Commands, guiside
<1> QED
  BY <1>1, <1>2, <1>3, <1>4, <1>5, <1>6, <1>7, <1>8, <1>9, <1>10, <1>11, <1>12, <1>13, <1>14, <1>15, <1>16, <1>17, <1>18, <1>19, <1>20, <1>21, <1>22, <1>23, <1>24, <1>25, <1>26, <1>27, <1>28
     DEF Next, RequestNext, WorkNext, MainNext, GuiNext

\* How the waiting requests of a sequence change with it.
LEMMA WaitsFacts ==
  ASSUME NEW q \in Seq(Posted)
  PROVE  /\ NoneWaits(<<>>) /\ OneWaits(<<>>)
         /\ NoneWaits(q) => OneWaits(q)
         /\ NoneWaits(q) => \A r \in Posted : OneWaits(Append(q, r))
         /\ NoneWaits(q) => \A r \in Posted : r.caller = "gone" => NoneWaits(Append(q, r))
         /\ NoneWaits(AbandonAll(q))
         /\ q # <<>> /\ OneWaits(q) => OneWaits(Tail(q))
         /\ q # <<>> /\ NoneWaits(q) => NoneWaits(Tail(q)) /\ Head(q).caller = "gone"
         /\ q # <<>> /\ OneWaits(q) /\ Head(q).caller = "waits" => NoneWaits(Tail(q))
<1>1. Len(q) \in Nat /\ \A k \in 1 .. Len(q) : q[k] \in Posted /\ q[k].caller \in {"waits", "gone"}
  BY LenProperties DEF Posted, Request
<1>2. NoneWaits(<<>>) /\ OneWaits(<<>>)
  BY DEF NoneWaits, OneWaits
<1>3. NoneWaits(q) => OneWaits(q)
  BY DEF NoneWaits, OneWaits
<1>4. ASSUME NEW r \in Posted, NoneWaits(q)
      PROVE  OneWaits(Append(q, r)) /\ (r.caller = "gone" => NoneWaits(Append(q, r)))
  BY <1>1, <1>4, AppendProperties DEF NoneWaits, OneWaits
<1>5. NoneWaits(AbandonAll(q))
  <2>1. DOMAIN q = 1 .. Len(q)
    BY LenProperties
  <2>2. AbandonAll(q) = [k \in 1 .. Len(q) |-> Abandon(q[k])]
    BY <2>1 DEF AbandonAll
  <2>3. \A k \in 1 .. Len(q) : Abandon(q[k]) \in Posted /\ Abandon(q[k]).caller = "gone"
    BY <1>1, RecordTypes DEF Abandon, Posted, Request
  <2>4. Len(AbandonAll(q)) = Len(q)
    <3>1. AbandonAll(q) \in [1 .. Len(q) -> Posted]
      BY <2>2, <2>3
    <3>2. AbandonAll(q) \in Seq(Posted)
      BY <1>1, <3>1, SeqDef
    <3>   QED  BY <1>1, <2>2, <3>2, LenProperties
  <2>   QED  BY <2>2, <2>3, <2>4 DEF NoneWaits
<1>6. ASSUME q # <<>>
      PROVE  /\ OneWaits(q) => OneWaits(Tail(q))
             /\ NoneWaits(q) => NoneWaits(Tail(q)) /\ Head(q).caller = "gone"
             /\ OneWaits(q) /\ Head(q).caller = "waits" => NoneWaits(Tail(q))
  <2>1. /\ Len(q) \in Nat \ {0} /\ Head(q) = q[1]
        /\ Len(Tail(q)) = Len(q) - 1
        /\ \A k \in 1 .. Len(q) - 1 : Tail(q)[k] = q[k + 1]
    BY <1>1, <1>6, HeadTailProperties, EmptySeq
  <2>   QED  BY <1>1, <2>1 DEF NoneWaits, OneWaits
<1> QED  BY <1>2, <1>3, <1>4, <1>5, <1>6

LEMMA NextCaller ==
  ASSUME Scalars, Queues, CommandInv, MainInv, GuiInv, CallerInv, [Next]_vars
  PROVE  CallerInv'
<1>1. CASE SlotShowEditor
  <2>1. gui'.request = gui.request /\ control.at = "idle" /\ (Handling => Handling')
    BY <1>1 DEF SlotShowEditor, Ready, Scalars, Handling, GuiInv
  <2>   QED  BY <1>1, <2>1 DEF SlotShowEditor, CallerInv
<1>2. CASE SlotHideEditor
  BY <1>2, RecordTypes DEF SlotHideEditor, Ready, Scalars, CallerInv, Handling, NoCommand, guiside
<1>3. CASE ChangePlugin
  BY <1>3, RecordTypes DEF ChangePlugin, Ready, Scalars, CallerInv, Handling, NoCommand, guiside
<1>4. CASE Goodbye
  BY <1>4, RecordTypes DEF Goodbye, Scalars, CallerInv, Handling, NoCommand, guiside
<1>5. CASE AcquireEditorView
  BY <1>5, RecordTypes DEF AcquireEditorView, Scalars, CallerInv, Handling, NoCommand, guiside
<1>6. CASE AcquireEditorIdlePump
  BY <1>6, RecordTypes DEF AcquireEditorIdlePump, Scalars, CallerInv, Handling, NoCommand, guiside
<1>7. CASE PostRequest
  <2> DEFINE r == [kind |-> IF control.command = "show" THEN "show" ELSE "hide",
                   slot |-> control.slot, view |-> control.view, caller |-> "waits"]
  <2>1. r \in Posted
    BY <1>7 DEF PostRequest, Scalars, CommandInv, Posted, Request
  <2>2. /\ queue' = Append(queue, r) /\ control'.at = "wait" /\ UNCHANGED <<batch, gui>>
        /\ control.at # "wait"
    BY <1>7 DEF PostRequest, Scalars
  <2>3. OneWaits(queue') /\ NoneWaits(batch') /\ OneWaits(batch') /\ gui'.request.caller = "gone"
    BY <2>1, <2>2, WaitsFacts DEF CallerInv, Queues
  <2>   QED  BY <2>2, <2>3 DEF CallerInv
<1>8. CASE GiveUp
  <2>1. gui'.request.caller = "gone" /\ control'.at = "answered"
    BY <1>8 DEF GiveUp, Abandon, Scalars, Posted, Request
  <2>2. NoneWaits(queue') /\ NoneWaits(batch')
    BY <1>8, WaitsFacts DEF GiveUp, Queues
  <2>3. OneWaits(queue') /\ OneWaits(batch')
    BY <2>2 DEF NoneWaits, OneWaits
  <2>   QED  BY <2>1, <2>2, <2>3 DEF CallerInv
<1>9. CASE Resume
  BY <1>9, RecordTypes DEF Resume, Scalars, CallerInv, Handling, NoCommand, guiside
<1>10. CASE ReleaseEditorView
  BY <1>10, RecordTypes DEF ReleaseEditorView, Scalars, CallerInv, Handling, NoCommand, guiside
<1>11. CASE TellHost
  BY <1>11, RecordTypes DEF TellHost, Scalars, CallerInv, Handling, NoCommand, guiside
<1>12. CASE ChangeSlot
  BY <1>12, RecordTypes DEF ChangeSlot, Scalars, CallerInv, Handling, NoCommand, guiside
<1>13. CASE ClearCallback
  BY <1>13, RecordTypes DEF ClearCallback, Scalars, CallerInv, Handling, NoCommand, guiside
<1>14. CASE StopGui
  <2>1. (NoneWaits(queue) => NoneWaits(queue')) /\ control.at # "wait"
    BY <1>14, RecordTypes, WaitsFacts DEF StopGui, Queues, MainInv
  <2>2. NoneWaits(queue') => OneWaits(queue')
    BY DEF NoneWaits, OneWaits
  <2>   QED  BY <1>14, <2>1, <2>2 DEF StopGui, CallerInv, Handling
<1>15. CASE ClosePipe
  BY <1>15, RecordTypes DEF ClosePipe, Scalars, CallerInv, Handling, NoCommand, guiside
<1>16. CASE TakeBatch
  BY <1>16, WaitsFacts DEF TakeBatch, CallerInv, Handling, Queues
<1>17. CASE HandleShow
  <2>1. /\ gui.at = "idle" /\ batch # <<>> /\ batch' = Tail(batch) /\ queue' = queue
        /\ gui'.request = Head(batch) /\ gui'.at \in {"attaching", "reply"} /\ control' = control
    BY <1>17 DEF HandleShow, Front
  <2>2. Head(batch).caller \in {"waits", "gone"}
    BY <2>1, HeadPosted DEF Posted, Request
  <2>   QED  BY <2>1, <2>2, WaitsFacts DEF CallerInv, Handling, Queues
<1>18. CASE Attach
  BY <1>18, RecordTypes DEF Attach, Scalars, CallerInv, Handling, NoCommand, guiside
<1>19. CASE HandleHide
  <2>1. /\ gui.at = "idle" /\ batch # <<>> /\ batch' = Tail(batch) /\ queue' = queue
        /\ gui'.request = Head(batch) /\ gui'.at \in {"attaching", "reply"} /\ control' = control
    BY <1>19 DEF HandleHide, Front
  <2>2. Head(batch).caller \in {"waits", "gone"}
    BY <2>1, HeadPosted DEF Posted, Request
  <2>   QED  BY <2>1, <2>2, WaitsFacts DEF CallerInv, Handling, Queues
<1>20. CASE SignalReply
  BY <1>20, RecordTypes DEF SignalReply, Free, Scalars, CallerInv, Handling, NoCommand, guiside
<1>21. CASE HandleQuit
  <2>1. gui.request.caller \in {"waits", "gone"} /\ gui'.request = gui.request
    BY <1>21 DEF HandleQuit, Scalars, Posted, Request
  <2>   QED  BY <1>21, <2>1, WaitsFacts DEF HandleQuit, Front, CallerInv, Handling, Queues
<1>22. CASE CloseAll
  BY <1>22, RecordTypes DEF CloseAll, Scalars, CallerInv, Handling, NoCommand, guiside
<1>23. CASE EnqueueAsyncEvent
  BY <1>23, RecordTypes DEF EnqueueAsyncEvent, Free, Scalars, CallerInv, Handling, NoCommand, guiside
<1>24. CASE AsyncRelease
  BY <1>24, RecordTypes DEF AsyncRelease, Scalars, CallerInv, Handling, NoCommand, guiside
<1>25. CASE AsyncTell
  BY <1>25, RecordTypes DEF AsyncTell, Free, Scalars, CallerInv, Handling, NoCommand, guiside
<1>26. CASE SelectFails
  BY <1>26, RecordTypes DEF SelectFails, Scalars, CallerInv, Handling, NoCommand, guiside
<1>27. CASE UserCloses
  <2>1. gui'.request.caller = gui.request.caller /\ gui'.at = "closed" /\ gui.at = "idle"
    BY <1>27 DEF UserCloses, Scalars, Posted, Request
  <2>   QED  BY <1>27, <2>1 DEF UserCloses, CallerInv, Handling
<1>28. CASE UNCHANGED vars
  BY <1>28, RecordTypes DEF vars, guiside, Scalars, CallerInv, Handling, NoCommand, guiside
<1> QED
  BY <1>1, <1>2, <1>3, <1>4, <1>5, <1>6, <1>7, <1>8, <1>9, <1>10, <1>11, <1>12, <1>13, <1>14, <1>15, <1>16, <1>17, <1>18, <1>19, <1>20, <1>21, <1>22, <1>23, <1>24, <1>25, <1>26, <1>27, <1>28
     DEF Next, RequestNext, WorkNext, MainNext, GuiNext

LEMMA NextMain ==
  ASSUME MainInv, CallerInv, [Next]_vars
  PROVE  MainInv'
<1>1. CASE SlotShowEditor
  BY <1>1 DEF SlotShowEditor, Ready, MainInv, NoCommand, guiside
<1>2. CASE SlotHideEditor
  BY <1>2 DEF SlotHideEditor, Ready, MainInv, NoCommand, guiside
<1>3. CASE ChangePlugin
  BY <1>3 DEF ChangePlugin, Ready, MainInv, NoCommand, guiside
<1>4. CASE Goodbye
  BY <1>4 DEF Goodbye, MainInv, NoCommand, guiside
<1>5. CASE AcquireEditorView
  BY <1>5 DEF AcquireEditorView, MainInv, NoCommand, guiside
<1>6. CASE AcquireEditorIdlePump
  BY <1>6 DEF AcquireEditorIdlePump, MainInv, NoCommand, guiside
<1>7. CASE PostRequest
  BY <1>7 DEF PostRequest, MainInv, NoCommand, guiside
<1>8. CASE GiveUp
  BY <1>8 DEF GiveUp, MainInv, NoCommand, guiside
<1>9. CASE Resume
  BY <1>9 DEF Resume, MainInv, NoCommand, guiside
<1>10. CASE ReleaseEditorView
  BY <1>10 DEF ReleaseEditorView, MainInv, NoCommand, guiside
<1>11. CASE TellHost
  BY <1>11 DEF TellHost, MainInv, NoCommand, guiside
<1>12. CASE ChangeSlot
  BY <1>12 DEF ChangeSlot, MainInv, NoCommand, guiside
<1>13. CASE ClearCallback
  BY <1>13 DEF ClearCallback, MainInv, NoCommand, guiside
<1>14. CASE StopGui
  BY <1>14 DEF StopGui, MainInv, NoCommand, guiside
<1>15. CASE ClosePipe
  BY <1>15 DEF ClosePipe, MainInv, NoCommand, guiside
<1>16. CASE TakeBatch
  BY <1>16 DEF TakeBatch, MainInv, NoCommand, guiside
<1>17. CASE HandleShow
  BY <1>17 DEF HandleShow, Front, MainInv, NoCommand, guiside
<1>18. CASE Attach
  BY <1>18 DEF Attach, MainInv, NoCommand, guiside
<1>19. CASE HandleHide
  BY <1>19 DEF HandleHide, Front, MainInv, NoCommand, guiside
<1>20. CASE SignalReply
  BY <1>20 DEF SignalReply, Free, MainInv, NoCommand, guiside, CallerInv
<1>21. CASE HandleQuit
  BY <1>21 DEF HandleQuit, Front, MainInv, NoCommand, guiside
<1>22. CASE CloseAll
  BY <1>22 DEF CloseAll, MainInv, NoCommand, guiside
<1>23. CASE EnqueueAsyncEvent
  BY <1>23 DEF EnqueueAsyncEvent, Free, MainInv, NoCommand, guiside
<1>24. CASE AsyncRelease
  BY <1>24 DEF AsyncRelease, MainInv, NoCommand, guiside
<1>25. CASE AsyncTell
  BY <1>25 DEF AsyncTell, Free, MainInv, NoCommand, guiside
<1>26. CASE SelectFails
  BY <1>26 DEF SelectFails, MainInv, NoCommand, guiside
<1>27. CASE UserCloses
  BY <1>27 DEF UserCloses, MainInv, NoCommand, guiside
<1>28. CASE UNCHANGED vars
  BY <1>28 DEF vars, guiside, MainInv, NoCommand, guiside
<1> QED
  BY <1>1, <1>2, <1>3, <1>4, <1>5, <1>6, <1>7, <1>8, <1>9, <1>10, <1>11, <1>12, <1>13, <1>14, <1>15, <1>16, <1>17, <1>18, <1>19, <1>20, <1>21, <1>22, <1>23, <1>24, <1>25, <1>26, <1>27, <1>28
     DEF Next, RequestNext, WorkNext, MainNext, GuiNext

LEMMA NextGui ==
  ASSUME Scalars, Queues, GuiInv, [Next]_vars
  PROVE  GuiInv'
<1>1. CASE SlotShowEditor
  <2>1. gui'.request = gui.request /\ gui'.answer = gui.answer /\ window' = window
    BY <1>1 DEF SlotShowEditor, Scalars
  <2>2. IF running THEN gui' = gui ELSE gui'.at = "idle"
    BY <1>1 DEF SlotShowEditor, Scalars
  <2>   QED  BY <1>1, <2>1, <2>2 DEF SlotShowEditor, GuiInv
<1>2. CASE SlotHideEditor
  BY <1>2 DEF SlotHideEditor, Ready, Scalars, GuiInv, guiside
<1>3. CASE ChangePlugin
  BY <1>3 DEF ChangePlugin, Ready, Scalars, GuiInv, guiside
<1>4. CASE Goodbye
  BY <1>4 DEF Goodbye, Scalars, GuiInv, guiside
<1>5. CASE AcquireEditorView
  BY <1>5 DEF AcquireEditorView, Scalars, GuiInv, guiside
<1>6. CASE AcquireEditorIdlePump
  BY <1>6 DEF AcquireEditorIdlePump, Scalars, GuiInv, guiside
<1>7. CASE PostRequest
  BY <1>7 DEF PostRequest, Scalars, GuiInv, guiside
<1>8. CASE GiveUp
  <2>1. /\ gui'.at = gui.at /\ gui'.answer = gui.answer
        /\ gui'.request.kind = gui.request.kind /\ gui'.request.slot = gui.request.slot
    BY <1>8 DEF GiveUp, Scalars, Posted, Request, Abandon
  <2>   QED  BY <1>8, <2>1 DEF GiveUp, GuiInv
<1>9. CASE Resume
  BY <1>9 DEF Resume, Scalars, GuiInv, guiside
<1>10. CASE ReleaseEditorView
  BY <1>10 DEF ReleaseEditorView, Scalars, GuiInv, guiside
<1>11. CASE TellHost
  BY <1>11 DEF TellHost, Scalars, GuiInv, guiside
<1>12. CASE ChangeSlot
  BY <1>12 DEF ChangeSlot, Scalars, GuiInv, guiside
<1>13. CASE ClearCallback
  BY <1>13 DEF ClearCallback, Scalars, GuiInv, guiside
<1>14. CASE StopGui
  BY <1>14 DEF StopGui, Scalars, GuiInv, guiside
<1>15. CASE ClosePipe
  BY <1>15 DEF ClosePipe, Scalars, GuiInv, guiside
<1>16. CASE TakeBatch
  BY <1>16 DEF TakeBatch, Scalars, GuiInv, guiside
<1>17. CASE HandleShow
  <2>1. gui'.request = Head(batch) /\ gui'.at \in {"reply", "attaching"} /\ window' = window
        /\ gui'.answer = (window[Head(batch).slot] # None)
        /\ gui'.at = "reply" <=> window[Head(batch).slot] # None
    BY <1>17 DEF HandleShow, Front
  <2>   QED  BY <1>17, <2>1 DEF HandleShow, Front, GuiInv
<1>18. CASE Attach
  <2>1. /\ gui.request.slot \in Slot /\ gui.request.view # None /\ gui.request.kind = "show"
        /\ window[gui.request.slot] = None /\ running' = running
    BY <1>18 DEF Attach, Scalars, Posted, Request, GuiInv
  <2>2. gui'.request = gui.request /\ gui'.at = "reply"
    BY <1>18 DEF Attach, Scalars
  <2>3. \/ gui'.answer /\ window'[gui.request.slot] = gui.request.view
        \/ ~gui'.answer /\ window' = window
    BY <1>18, <2>1 DEF Attach, Scalars
  <2>   QED  BY <1>18, <2>1, <2>2, <2>3 DEF Attach, GuiInv
<1>19. CASE HandleHide
  <2>1. Head(batch).slot \in Slot /\ window'[Head(batch).slot] = None
    BY <1>19, HeadPosted DEF HandleHide, Front, Scalars
  <2>2. gui'.request = Head(batch) /\ gui'.at = "reply" /\ running' = running
        /\ Head(batch).kind = "hide" /\ gui.at = "idle"
    BY <1>19 DEF HandleHide, Front
  <2>   QED  BY <2>1, <2>2 DEF GuiInv
<1>20. CASE SignalReply
  BY <1>20 DEF SignalReply, Free, Scalars, GuiInv, guiside
<1>21. CASE HandleQuit
  BY <1>21 DEF HandleQuit, Front, Scalars, GuiInv, guiside
<1>22. CASE CloseAll
  <2>1. gui'.at = "exited" /\ running' = running /\ gui.at = "closing"
    BY <1>22 DEF CloseAll, Scalars
  <2>   QED  BY <2>1 DEF GuiInv
<1>23. CASE EnqueueAsyncEvent
  <2>1. /\ \/ gui'.at = "callback" /\ gui'.request = gui.request
           \/ gui'.at = "idle"
        /\ gui.at = "closed" /\ UNCHANGED <<window, running>>
    BY <1>23 DEF EnqueueAsyncEvent, Free, Scalars
  <2>   QED  BY <2>1 DEF GuiInv
<1>24. CASE AsyncRelease
  <2>1. /\ gui'.at = "notify" /\ gui'.request = gui.request
        /\ gui.at = "callback" /\ UNCHANGED <<window, running>>
    BY <1>24 DEF AsyncRelease, Scalars
  <2>   QED  BY <2>1 DEF GuiInv
<1>25. CASE AsyncTell
  BY <1>25 DEF AsyncTell, Free, Scalars, GuiInv, guiside
<1>26. CASE SelectFails
  BY <1>26 DEF SelectFails, Scalars, GuiInv, guiside
<1>27. CASE UserCloses
  <2>1. PICK s \in Slot :
          /\ window' = [window EXCEPT ![s] = None]
          /\ gui' = [gui EXCEPT !.at = "closed", !.request.slot = s]
    BY <1>27 DEF UserCloses
  <2>2. gui'.at = "closed" /\ gui'.request.slot = s /\ window'[s] = None
    BY <2>1 DEF Scalars, Posted, Request
  <2>   QED  BY <1>27, <2>2 DEF UserCloses, GuiInv
<1>28. CASE UNCHANGED vars
  BY <1>28 DEF vars, guiside, Scalars, GuiInv, guiside
<1> QED
  BY <1>1, <1>2, <1>3, <1>4, <1>5, <1>6, <1>7, <1>8, <1>9, <1>10, <1>11, <1>12, <1>13, <1>14, <1>15, <1>16, <1>17, <1>18, <1>19, <1>20, <1>21, <1>22, <1>23, <1>24, <1>25, <1>26, <1>27, <1>28
     DEF Next, RequestNext, WorkNext, MainNext, GuiNext

----------------------------------------------------------------------------
(* The request and its answer, while no caller gave up. *)

LEMMA OneRequest ==
  ASSUME NEW r
  PROVE  Head(<<r>>) = r /\ Tail(<<r>>) = <<>>
<1>1. <<r>> \in Seq({r}) /\ <<r>> # <<>> /\ Len(<<r>>) = 1
  OBVIOUS
<1>2. Tail(<<r>>) \in Seq({r}) /\ Len(Tail(<<r>>)) = 0
  BY <1>1, HeadTailProperties
<1>3. Tail(<<r>>) = <<>>
  BY <1>2, EmptySeq
<1> QED  BY <1>1, <1>3

LEMMA AcquireMoves ==
  ASSUME Scalars, AcquireEditorView
  PROVE  control.at = "acquire" /\ control'.at \in {"idle", "pump"}
<1>1. CASE control' = NoCommand
  BY <1>1 DEF NoCommand, AcquireEditorView
<1>2. CASE \E v \in View \cup {None} : control' = [control EXCEPT !.at = "pump", !.view = v]
  BY <1>2 DEF AcquireEditorView, Scalars
<1>3. held[control.slot] \in View \cup {None}
  BY DEF Scalars
<1> QED  BY <1>1, <1>2, <1>3 DEF AcquireEditorView

LEMMA NextExchange ==
  ASSUME Scalars, MainInv, ExchangeInv, [Next]_vars
  PROVE  ExchangeInv'
<1>1. CASE SlotShowEditor
  <2>1. /\ control.at = "idle" /\ control'.at = "acquire" /\ UNCHANGED <<queue, batch, main, lapsed>>
        /\ Handling' => Handling
    BY <1>1 DEF SlotShowEditor, Ready, NoCommand, Handling, Scalars
  <2>   QED  BY <2>1 DEF ExchangeInv
<1>2. CASE SlotHideEditor
  <2>1. control.at # "wait" /\ control'.at # "wait" /\ UNCHANGED <<queue, batch, gui, main, lapsed>>
    BY <1>2 DEF SlotHideEditor, Ready, NoCommand, Scalars, guiside
  <2>   QED  BY <2>1 DEF ExchangeInv, Handling
<1>3. CASE ChangePlugin
  <2>1. control.at # "wait" /\ control'.at # "wait" /\ UNCHANGED <<queue, batch, gui, main, lapsed>>
    BY <1>3 DEF ChangePlugin, Ready, NoCommand, Scalars, guiside
  <2>   QED  BY <2>1 DEF ExchangeInv, Handling
<1>4. CASE Goodbye
  <2>1. control.at # "wait" /\ control'.at # "wait" /\ UNCHANGED <<queue, batch, gui, main, lapsed>>
    BY <1>4 DEF Goodbye, NoCommand, Scalars, guiside
  <2>   QED  BY <2>1 DEF ExchangeInv, Handling
<1>5. CASE AcquireEditorView
  <2>1. control.at # "wait" /\ control'.at # "wait"
    BY <1>5, AcquireMoves
  <2>   QED  BY <1>5, <2>1 DEF AcquireEditorView, guiside, ExchangeInv, Handling
<1>6. CASE AcquireEditorIdlePump
  <2>1. control.at # "wait" /\ control'.at # "wait" /\ UNCHANGED <<queue, batch, gui, main, lapsed>>
    BY <1>6 DEF AcquireEditorIdlePump, NoCommand, Scalars, guiside
  <2>   QED  BY <2>1 DEF ExchangeInv, Handling
<1>7. CASE PostRequest
  <2>1. /\ control'.at = "wait" /\ control.at = "post" /\ UNCHANGED <<batch, gui, lapsed, main>>
        /\ queue' = Append(queue, Asked')
    BY <1>7 DEF PostRequest, Scalars, Asked
  <2>2. main = "running"
    BY <2>1 DEF MainInv, Scalars
  <2>3. ~lapsed => queue = <<>> /\ batch = <<>> /\ ~Handling
    BY <2>1, <2>2 DEF ExchangeInv
  <2>   QED  BY <2>1, <2>3 DEF ExchangeInv, Underway, Handling
<1>8. CASE GiveUp
  BY <1>8 DEF GiveUp, ExchangeInv
<1>9. CASE Resume
  <2>1. control.at # "wait" /\ control'.at # "wait" /\ UNCHANGED <<queue, batch, gui, main, lapsed>>
    BY <1>9 DEF Resume, NoCommand, Scalars, guiside
  <2>   QED  BY <2>1 DEF ExchangeInv, Handling
<1>10. CASE ReleaseEditorView
  <2>1. control.at # "wait" /\ control'.at # "wait" /\ UNCHANGED <<queue, batch, gui, main, lapsed>>
    BY <1>10 DEF ReleaseEditorView, NoCommand, Scalars, guiside
  <2>   QED  BY <2>1 DEF ExchangeInv, Handling
<1>11. CASE TellHost
  <2>1. control.at # "wait" /\ control'.at # "wait" /\ UNCHANGED <<queue, batch, gui, main, lapsed>>
    BY <1>11 DEF TellHost, NoCommand, Scalars, guiside
  <2>   QED  BY <2>1 DEF ExchangeInv, Handling
<1>12. CASE ChangeSlot
  <2>1. control.at # "wait" /\ control'.at # "wait" /\ UNCHANGED <<queue, batch, gui, main, lapsed>>
    BY <1>12 DEF ChangeSlot, NoCommand, Scalars, guiside
  <2>   QED  BY <2>1 DEF ExchangeInv, Handling
<1>13. CASE ClearCallback
  BY <1>13 DEF ClearCallback, guiside, ExchangeInv, Handling, Underway, Asked
<1>14. CASE StopGui
  <2>1. /\ control.at = "exited" /\ main = "cleared" /\ main' = "joining"
        /\ queue' \in {queue, Append(queue, NoRequest)}
        /\ UNCHANGED <<batch, gui, control, lapsed>>
    BY <1>14 DEF StopGui, MainInv
  <2>   QED  BY <2>1 DEF ExchangeInv, Handling
<1>15. CASE ClosePipe
  BY <1>15 DEF ClosePipe, guiside, ExchangeInv, Handling, Underway, Asked
<1>16. CASE TakeBatch
  BY <1>16 DEF TakeBatch, ExchangeInv, Handling, Underway, Asked
<1>17. CASE HandleShow
  <2>1. /\ gui.at = "idle" /\ batch # <<>> /\ Head(batch).kind = "show" /\ batch' = Tail(batch)
        /\ gui'.at \in {"attaching", "reply"} /\ gui'.request = Head(batch)
        /\ UNCHANGED <<queue, control, main, lapsed>>
    BY <1>17 DEF HandleShow, Front
  <2>2. ~lapsed => batch = <<Asked>> /\ queue = <<>> /\ control.at = "wait"
    BY <2>1, RecordTypes DEF ExchangeInv, Underway, Handling
  <2>3. Asked' = Asked /\ lapsed' = lapsed
    BY <2>1 DEF Asked
  <2>4. ASSUME ~lapsed PROVE Tail(batch) = <<>> /\ Head(batch) = Asked
    BY <2>2, <2>4, OneRequest
  <2>   QED  BY <2>1, <2>2, <2>3, <2>4 DEF ExchangeInv, Underway, Handling
<1>18. CASE Attach
  <2>1. /\ gui.at = "attaching" /\ gui'.at = "reply" /\ gui'.request = gui.request
        /\ UNCHANGED <<queue, batch, control, main, lapsed>>
    BY <1>18 DEF Attach, Scalars
  <2>   QED  BY <2>1 DEF ExchangeInv, Underway, Handling, Asked
<1>19. CASE HandleHide
  <2>1. /\ gui.at = "idle" /\ batch # <<>> /\ Head(batch).kind = "hide" /\ batch' = Tail(batch)
        /\ gui'.at \in {"attaching", "reply"} /\ gui'.request = Head(batch)
        /\ UNCHANGED <<queue, control, main, lapsed>>
    BY <1>19 DEF HandleHide, Front
  <2>2. ~lapsed => batch = <<Asked>> /\ queue = <<>> /\ control.at = "wait"
    BY <2>1, RecordTypes DEF ExchangeInv, Underway, Handling
  <2>3. Asked' = Asked /\ lapsed' = lapsed
    BY <2>1 DEF Asked
  <2>4. ASSUME ~lapsed PROVE Tail(batch) = <<>> /\ Head(batch) = Asked
    BY <2>2, <2>4, OneRequest
  <2>   QED  BY <2>1, <2>2, <2>3, <2>4 DEF ExchangeInv, Underway, Handling
<1>20. CASE SignalReply
  <2>1. /\ gui.at = "reply" /\ gui'.at = "idle" /\ UNCHANGED <<queue, batch, main, lapsed>>
        /\ gui.request.caller = "waits" => control'.at = "answered"
    BY <1>20 DEF SignalReply, Free, Scalars
  <2>2. ~lapsed => /\ control.at = "wait" /\ gui.request = Asked
                  /\ queue = <<>> /\ batch = <<>>
    BY <2>1 DEF ExchangeInv, Underway, Handling
  <2>3. ~lapsed => gui.request.caller = "waits"
    BY <2>2 DEF Asked
  <2>   QED  BY <2>1, <2>2, <2>3 DEF ExchangeInv, Handling
<1>21. CASE HandleQuit
  <2>1. /\ gui.at = "idle" /\ batch # <<>> /\ Head(batch).kind = "quit" /\ batch' = <<>>
        /\ gui'.at = "closing" /\ UNCHANGED <<queue, control, main, lapsed>>
    BY <1>21 DEF HandleQuit, Front, Scalars
  <2>2. ~lapsed => control.at # "wait"
    BY <2>1 DEF ExchangeInv, Underway, Handling, Asked
  <2>   QED  BY <2>1, <2>2 DEF ExchangeInv, Handling
<1>22. CASE CloseAll
  <2>1. ~Handling /\ ~Handling' /\ UNCHANGED <<queue, batch, control, main, lapsed>>
    BY <1>22 DEF CloseAll, Free, Scalars, Handling
  <2>   QED  BY <2>1 DEF ExchangeInv, Underway, Asked
<1>23. CASE EnqueueAsyncEvent
  <2>1. ~Handling /\ ~Handling' /\ UNCHANGED <<queue, batch, control, main, lapsed>>
    BY <1>23 DEF EnqueueAsyncEvent, Free, Scalars, Handling
  <2>   QED  BY <2>1 DEF ExchangeInv, Underway, Asked
<1>24. CASE AsyncRelease
  <2>1. ~Handling /\ ~Handling' /\ UNCHANGED <<queue, batch, control, main, lapsed>>
    BY <1>24 DEF AsyncRelease, Free, Scalars, Handling
  <2>   QED  BY <2>1 DEF ExchangeInv, Underway, Asked
<1>25. CASE AsyncTell
  <2>1. ~Handling /\ ~Handling' /\ UNCHANGED <<queue, batch, control, main, lapsed>>
    BY <1>25 DEF AsyncTell, Free, Scalars, Handling
  <2>   QED  BY <2>1 DEF ExchangeInv, Underway, Asked
<1>26. CASE SelectFails
  <2>1. ~Handling /\ ~Handling' /\ UNCHANGED <<queue, batch, control, main, lapsed>>
    BY <1>26 DEF SelectFails, Free, Scalars, Handling
  <2>   QED  BY <2>1 DEF ExchangeInv, Underway, Asked
<1>27. CASE UserCloses
  <2>1. ~Handling /\ ~Handling' /\ UNCHANGED <<queue, batch, control, main, lapsed>>
    BY <1>27 DEF UserCloses, Free, Scalars, Handling
  <2>   QED  BY <2>1 DEF ExchangeInv, Underway, Asked
<1>28. CASE UNCHANGED vars
  BY <1>28 DEF vars, guiside, ExchangeInv, Underway, Asked, Handling
<1> QED
  BY <1>1, <1>2, <1>3, <1>4, <1>5, <1>6, <1>7, <1>8, <1>9, <1>10, <1>11, <1>12, <1>13, <1>14, <1>15, <1>16, <1>17, <1>18, <1>19, <1>20, <1>21, <1>22, <1>23, <1>24, <1>25, <1>26, <1>27, <1>28
     DEF Next, RequestNext, WorkNext, MainNext, GuiNext

\* The reply on its way is that of the command which waits.
LEMMA ReplyIsOurs ==
  ASSUME Scalars, ExchangeInv, ~lapsed, Handling
  PROVE  /\ control.at = "wait" /\ gui.request.caller = "waits"
         /\ gui.request.slot = control.slot /\ gui.request.view = control.view
         /\ gui.request.kind = "show" <=> control.command = "show"
<1>1. control.at = "wait" /\ gui.request = Asked
  BY DEF ExchangeInv, Underway
<1> QED  BY <1>1 DEF Asked

\* The same of the request that is next.
LEMMA NextIsOurs ==
  ASSUME Scalars, ExchangeInv, ~lapsed, batch # <<>>, Head(batch).kind # "quit"
  PROVE  /\ control.at = "wait" /\ Head(batch).slot = control.slot
         /\ Head(batch).kind = "show" <=> control.command = "show"
<1>1. control.at = "wait" /\ batch = <<Asked>>
  BY RecordTypes DEF ExchangeInv, Underway
<1> QED  BY <1>1 DEF Asked

LEMMA NextAnswer ==
  ASSUME Scalars, CommandInv, GuiInv, ExchangeInv, AnswerInv, [Next]_vars
  PROVE  AnswerInv'
<1>1. CASE SlotShowEditor
  BY <1>1 DEF SlotShowEditor, NoCommand, AnswerInv
<1>2. CASE SlotHideEditor
  BY <1>2 DEF SlotHideEditor, NoCommand, AnswerInv
<1>3. CASE ChangePlugin
  <2>1. PICK s \in Slot : control' = [NoCommand EXCEPT !.at = IF running THEN "post" ELSE "teardown",
                                    !.command = "change", !.slot = s]
    BY <1>3 DEF ChangePlugin
  <2>2. /\ control'.at = (IF running THEN "post" ELSE "teardown") /\ control'.slot = s
        /\ window' = window
    BY <1>3, <2>1 DEF ChangePlugin, NoCommand
  <2>3. ~running => window[s] = None
    BY DEF GuiInv, Scalars
  <2>   QED  BY <2>2, <2>3 DEF AnswerInv
<1>4. CASE Goodbye
  BY <1>4 DEF Goodbye, Scalars, AnswerInv
<1>5. CASE AcquireEditorView
  BY <1>5, AcquireMoves DEF AnswerInv
<1>6. CASE AcquireEditorIdlePump
  <2>1. control'.at \in {"idle", "pump", "post", "wait"}
    BY <1>6 DEF AcquireEditorIdlePump, NoCommand, Scalars
  <2>   QED  BY <2>1 DEF AnswerInv
<1>7. CASE PostRequest
  <2>1. control'.at \in {"idle", "pump", "post", "wait"}
    BY <1>7 DEF PostRequest, NoCommand, Scalars
  <2>   QED  BY <2>1 DEF AnswerInv
<1>8. CASE GiveUp
  BY <1>8 DEF GiveUp, AnswerInv
<1>9. CASE Resume
  <2>1. /\ control.at = "answered" /\ UNCHANGED <<window, lapsed>>
        /\ control.command \in {"show", "hide", "change"} /\ control.answer \in BOOLEAN
    BY <1>9 DEF Resume, Scalars, Commands
  <2>2. CASE control' = NoCommand
    BY <2>2 DEF NoCommand, AnswerInv
  <2>3. CASE control.command = "show" /\ control.answer /\ control' = [control EXCEPT !.at = "tell"]
    <3>1. control'.at = "tell" /\ control'.command = "show"
      BY <2>3 DEF Scalars
    <3>   QED  BY <3>1 DEF AnswerInv
  <2>4. CASE /\ ~(control.command = "show" /\ control.answer)
             /\ \E a \in {"teardown", "release"} : control' = [control EXCEPT !.at = a]
    <3>1. control'.slot = control.slot
      BY <2>4 DEF Scalars
    <3>   QED  BY <2>1, <2>4, <3>1 DEF AnswerInv
  <2>   QED  BY <1>9, <2>1, <2>2, <2>3, <2>4 DEF Resume
<1>10. CASE ReleaseEditorView
  BY <1>10 DEF ReleaseEditorView, AnswerInv, Scalars, NoCommand, guiside
<1>11. CASE TellHost
  BY <1>11 DEF TellHost, AnswerInv, Scalars, NoCommand, guiside
<1>12. CASE ChangeSlot
  BY <1>12 DEF ChangeSlot, AnswerInv, Scalars, NoCommand, guiside
<1>13. CASE ClearCallback
  BY <1>13 DEF ClearCallback, AnswerInv, Scalars, NoCommand, guiside
<1>14. CASE StopGui
  BY <1>14 DEF StopGui, AnswerInv, Scalars, NoCommand, guiside
<1>15. CASE ClosePipe
  BY <1>15 DEF ClosePipe, AnswerInv, Scalars, NoCommand, guiside
<1>16. CASE TakeBatch
  BY <1>16 DEF TakeBatch, AnswerInv, Scalars, NoCommand, guiside
<1>17. CASE HandleShow
  BY <1>17 DEF HandleShow, Front, AnswerInv, Scalars, NoCommand, guiside
<1>18. CASE Attach
  <2>1. gui.at = "attaching" /\ UNCHANGED <<control, lapsed>>
    BY <1>18 DEF Attach
  <2>2. ~lapsed => control.at = "wait"
    BY <2>1, ReplyIsOurs DEF Handling
  <2>   QED  BY <2>1, <2>2 DEF AnswerInv
<1>19. CASE HandleHide
  <2>1. UNCHANGED <<control, lapsed>> /\ \A s \in Slot : window'[s] \in {window[s], None}
    BY <1>19 DEF HandleHide, Front, Scalars
  <2>   QED  BY <2>1 DEF AnswerInv, Scalars
<1>20. CASE SignalReply
  <2>1. gui.at = "reply" /\ UNCHANGED <<window, lapsed>>
    BY <1>20 DEF SignalReply
  <2> SUFFICES ASSUME ~lapsed PROVE AnswerInv'
    BY <2>1 DEF AnswerInv
  <2>2. /\ control.at = "wait" /\ gui.request.caller = "waits"
        /\ gui.request.slot = control.slot
        /\ gui.request.kind = "show" <=> control.command = "show"
    BY <2>1, ReplyIsOurs DEF Handling
  <2>3. /\ control'.at = "answered" /\ control'.answer = gui.answer
        /\ control'.slot = control.slot /\ control'.command = control.command
    BY <1>20, <2>2 DEF SignalReply, Scalars
  <2>   QED  BY <2>1, <2>2, <2>3 DEF AnswerInv, GuiInv
<1>21. CASE HandleQuit
  BY <1>21 DEF HandleQuit, Front, AnswerInv, Scalars, NoCommand, guiside
<1>22. CASE CloseAll
  <2>1. UNCHANGED <<control, lapsed>> /\ \A s \in Slot : window'[s] \in {window[s], None}
    BY <1>22 DEF CloseAll, Front, Scalars
  <2>   QED  BY <2>1 DEF AnswerInv, Scalars
<1>23. CASE EnqueueAsyncEvent
  BY <1>23 DEF EnqueueAsyncEvent, Free, AnswerInv, Scalars, NoCommand, guiside
<1>24. CASE AsyncRelease
  BY <1>24 DEF AsyncRelease, AnswerInv, Scalars, NoCommand, guiside
<1>25. CASE AsyncTell
  BY <1>25 DEF AsyncTell, Free, AnswerInv, Scalars, NoCommand, guiside
<1>26. CASE SelectFails
  BY <1>26 DEF SelectFails, AnswerInv, Scalars, NoCommand, guiside
<1>27. CASE UserCloses
  <2>1. UNCHANGED <<control, lapsed>> /\ \A s \in Slot : window'[s] \in {window[s], None}
    BY <1>27 DEF UserCloses, Front, Scalars
  <2>   QED  BY <2>1 DEF AnswerInv, Scalars
<1>28. CASE UNCHANGED vars
  BY <1>28 DEF vars, guiside, AnswerInv, Scalars, NoCommand, guiside
<1> QED
  BY <1>1, <1>2, <1>3, <1>4, <1>5, <1>6, <1>7, <1>8, <1>9, <1>10, <1>11, <1>12, <1>13, <1>14, <1>15, <1>16, <1>17, <1>18, <1>19, <1>20, <1>21, <1>22, <1>23, <1>24, <1>25, <1>26, <1>27, <1>28
     DEF Next, RequestNext, WorkNext, MainNext, GuiNext

----------------------------------------------------------------------------
(* Views, windows and what the host knows, in normal service. *)

LEMMA InServiceStays ==
  ASSUME Scalars, GuiInv, [Next]_vars, InService'
  PROVE  InService
<1>1. CASE SlotShowEditor
  BY <1>1 DEF SlotShowEditor, InService, GuiInv
<1>2. CASE SlotHideEditor
  BY <1>2 DEF SlotHideEditor, Ready, InService, guiside
<1>3. CASE ChangePlugin
  BY <1>3 DEF ChangePlugin, Ready, InService, guiside
<1>4. CASE Goodbye
  BY <1>4 DEF Goodbye, InService, guiside
<1>5. CASE AcquireEditorView
  BY <1>5 DEF AcquireEditorView, InService, guiside
<1>6. CASE AcquireEditorIdlePump
  BY <1>6 DEF AcquireEditorIdlePump, InService, guiside
<1>7. CASE PostRequest
  BY <1>7 DEF PostRequest, InService, guiside
<1>8. CASE GiveUp
  BY <1>8 DEF GiveUp, InService
<1>9. CASE Resume
  BY <1>9 DEF Resume, InService, guiside
<1>10. CASE ReleaseEditorView
  BY <1>10 DEF ReleaseEditorView, InService, guiside
<1>11. CASE TellHost
  BY <1>11 DEF TellHost, InService, guiside
<1>12. CASE ChangeSlot
  BY <1>12 DEF ChangeSlot, InService, guiside
<1>13. CASE ClearCallback
  BY <1>13 DEF ClearCallback, InService, guiside
<1>14. CASE StopGui
  BY <1>14 DEF StopGui, InService, guiside
<1>15. CASE ClosePipe
  BY <1>15 DEF ClosePipe, InService, guiside
<1>16. CASE TakeBatch
  BY <1>16 DEF TakeBatch, Front, Scalars, InService
<1>17. CASE HandleShow
  BY <1>17 DEF HandleShow, Front, Scalars, InService
<1>18. CASE Attach
  BY <1>18 DEF Attach, Front, Scalars, InService
<1>19. CASE HandleHide
  BY <1>19 DEF HandleHide, Front, Scalars, InService
<1>20. CASE SignalReply
  BY <1>20 DEF SignalReply, Front, Scalars, InService
<1>21. CASE HandleQuit
  BY <1>21 DEF HandleQuit, Front, Scalars, InService
<1>22. CASE CloseAll
  BY <1>22 DEF CloseAll, Front, Scalars, InService
<1>23. CASE EnqueueAsyncEvent
  BY <1>23 DEF EnqueueAsyncEvent, Front, Scalars, InService
<1>24. CASE AsyncRelease
  BY <1>24 DEF AsyncRelease, Front, Scalars, InService
<1>25. CASE AsyncTell
  BY <1>25 DEF AsyncTell, Front, Scalars, InService
<1>26. CASE SelectFails
  BY <1>26 DEF SelectFails, Front, Scalars, InService
<1>27. CASE UserCloses
  BY <1>27 DEF UserCloses, Front, Scalars, InService
<1>28. CASE UNCHANGED vars
  BY <1>28 DEF vars, guiside, InService, guiside
<1> QED
  BY <1>1, <1>2, <1>3, <1>4, <1>5, <1>6, <1>7, <1>8, <1>9, <1>10, <1>11, <1>12, <1>13, <1>14, <1>15, <1>16, <1>17, <1>18, <1>19, <1>20, <1>21, <1>22, <1>23, <1>24, <1>25, <1>26, <1>27, <1>28
     DEF Next, RequestNext, WorkNext, MainNext, GuiNext

LEMMA NextService ==
  ASSUME Scalars, CommandInv, GuiInv, ExchangeInv, AnswerInv, ServiceInv, [Next]_vars
  PROVE  ServiceInv'
<1> SUFFICES ASSUME InService', NEW s \in Slot PROVE Settled(s)'
  BY DEF ServiceInv
<1>0. InService /\ InService' /\ Settled(s)
  BY InServiceStays DEF ServiceInv
<1>1. CASE SlotShowEditor
  <2>1. control.at = "idle" /\ control'.at = "acquire" /\ UNCHANGED <<held, window, told>>
    BY <1>1 DEF SlotShowEditor, Ready, NoCommand
  <2>2. /\ gui' = gui \/ gui' = [gui EXCEPT !.at = "idle"]
        /\ gui' = gui \/ gui.at = "off"
    BY <1>1 DEF SlotShowEditor, GuiInv
  <2>3. /\ gui'.request = gui.request
        /\ gui'.at = gui.at \/ (gui'.at = "idle" /\ gui.at = "off")
    <3>1. CASE gui' = gui
      BY <3>1
    <3>2. CASE gui' = [gui EXCEPT !.at = "idle"] /\ gui.at = "off"
      BY <3>2 DEF Scalars
    <3>   QED  BY <2>2, <3>1, <3>2
  <2>   QED  BY <1>0, <2>1, <2>3 DEF Settled, Showing, Hiding, Telling, UserClosed
<1>2. CASE SlotHideEditor
  <2>1. /\ control.at = "idle" /\ control'.at \in {"post", "teardown", "exited"}
        /\ UNCHANGED <<held, window, told, gui>>
        /\ control'.command # "show" \/ control'.at = "exited"
    BY <1>2 DEF SlotHideEditor, Ready, NoCommand, Scalars, guiside
  <2>   QED  BY <1>0, <2>1 DEF Settled, Showing, Hiding, Telling, UserClosed
<1>3. CASE ChangePlugin
  <2>1. /\ control.at = "idle" /\ control'.at \in {"post", "teardown", "exited"}
        /\ UNCHANGED <<held, window, told, gui>>
        /\ control'.command # "show" \/ control'.at = "exited"
    BY <1>3 DEF ChangePlugin, Ready, NoCommand, Scalars, guiside
  <2>   QED  BY <1>0, <2>1 DEF Settled, Showing, Hiding, Telling, UserClosed
<1>4. CASE Goodbye
  <2>1. /\ control.at = "idle" /\ control'.at \in {"post", "teardown", "exited"}
        /\ UNCHANGED <<held, window, told, gui>>
        /\ control'.command # "show" \/ control'.at = "exited"
    BY <1>4 DEF Goodbye, NoCommand, Scalars, guiside
  <2>   QED  BY <1>0, <2>1 DEF Settled, Showing, Hiding, Telling, UserClosed
<1>5. CASE AcquireEditorView
  <2>1. /\ control.at = "acquire" /\ UNCHANGED <<window, told, gui>>
        /\ held[control.slot] \in View \cup {None} /\ control.command = "show"
    BY <1>5 DEF AcquireEditorView, Scalars, guiside, CommandInv
  <2>2. CASE control' = NoCommand
    <3>1. held' = held \/ \E v \in View : control' = [control EXCEPT !.at = "pump", !.view = v]
      BY <1>5 DEF AcquireEditorView
    <3>2. held' = held
      BY <2>2, <3>1 DEF NoCommand, Scalars
    <3>   QED  BY <1>0, <2>1, <2>2, <3>2 DEF NoCommand, Settled, Showing, Hiding, Telling, UserClosed
  <2>3. CASE \E v \in View \cup {None} : control' = [control EXCEPT !.at = "pump", !.view = v]
    <3>1. control'.at = "pump" /\ control'.slot = control.slot /\ control'.command = "show"
      BY <2>1, <2>3 DEF Scalars
    <3>2. s # control.slot => held'[s] = held[s]
      BY <1>5 DEF AcquireEditorView, Scalars
    <3>   QED  BY <1>0, <2>1, <3>1, <3>2 DEF Settled, Showing, Hiding, Telling, UserClosed
  <2>   QED  BY <1>5, <2>1, <2>2, <2>3 DEF AcquireEditorView
<1>6. CASE AcquireEditorIdlePump
  <2>1. /\ control.at = "pump" /\ control'.at = "post" /\ UNCHANGED <<window, told, gui>>
        /\ control'.slot = control.slot /\ control'.command = control.command
        /\ control.command = "show"
    BY <1>6 DEF AcquireEditorIdlePump, Scalars, guiside, CommandInv
  <2>2. s # control.slot => held'[s] = held[s]
    BY <1>6 DEF AcquireEditorIdlePump, Scalars
  <2>   QED  BY <1>0, <2>1, <2>2 DEF Settled, Showing, Hiding, Telling, UserClosed
<1>7. CASE PostRequest
  <2>1. /\ control.at = "post" /\ control'.at = "wait" /\ UNCHANGED <<held, window, told, gui>>
        /\ control'.slot = control.slot /\ control'.command = control.command
    BY <1>7 DEF PostRequest, Scalars
  <2>   QED  BY <1>0, <2>1 DEF Settled, Showing, Hiding, Telling, UserClosed
<1>8. CASE GiveUp
  BY <1>0, <1>8 DEF GiveUp, InService
<1>9. CASE Resume
  <2>1. /\ control.at = "answered" /\ UNCHANGED <<held, window, told, gui>>
        /\ control.command \in {"show", "hide", "change"} /\ control.answer \in BOOLEAN
    BY <1>9 DEF Resume, Scalars, Commands, guiside
  <2>2. CASE control' = NoCommand
    <3>1. control.command # "show" /\ ~control.answer /\ control'.at = "idle"
      BY <1>9, <2>1, <2>2 DEF Resume, NoCommand, Scalars
    <3>   QED  BY <1>0, <2>1, <3>1 DEF Settled, Showing, Hiding, Telling, UserClosed
  <2>3. CASE control' # NoCommand
    <3>1. /\ control'.slot = control.slot /\ control'.command = control.command
          /\ control'.at = IF control.command = "show" /\ control.answer THEN "tell"
                          ELSE IF control.command = "change" /\ ~control.answer THEN "teardown"
                          ELSE "release"
          /\ control.command # "hide" \/ control.answer
      BY <1>9, <2>1, <2>3 DEF Resume, Scalars
    <3>   QED  BY <1>0, <2>1, <3>1 DEF Settled, Showing, Hiding, Telling, UserClosed
  <2>   QED  BY <2>2, <2>3
<1>10. CASE ReleaseEditorView
  <2>1. /\ control.at = "release" /\ UNCHANGED <<window, told, gui>>
        /\ held'[s] = IF s = control.slot THEN None ELSE held[s]
    BY <1>10 DEF ReleaseEditorView, Scalars, guiside
  <2>   QED  BY <1>0, <2>1 DEF Settled, Showing, Hiding, Telling, UserClosed
<1>11. CASE TellHost
  <2>1. /\ control.at = "tell" /\ UNCHANGED <<window, held, gui, lapsed>>
        /\ told'[s] = IF s = control.slot THEN control.command = "show" ELSE told[s]
    BY <1>11 DEF TellHost, Scalars, guiside
  <2>2. control.command # "show" => window[control.slot] = None
    BY <1>0, <2>1 DEF AnswerInv, InService
  <2>   QED  BY <1>0, <2>1, <2>2 DEF Settled, Showing, Hiding, Telling, UserClosed
<1>12. CASE ChangeSlot
  <2>1. /\ control.at = "teardown" /\ control'.at = "idle" /\ UNCHANGED <<window, told, gui>>
        /\ held'[s] = IF s = control.slot THEN None ELSE held[s]
    BY <1>12 DEF ChangeSlot, Scalars, guiside, NoCommand
  <2>   QED  BY <1>0, <2>1 DEF Settled, Showing, Hiding, Telling, UserClosed
<1>13. CASE ClearCallback
  BY <1>0, <1>13 DEF ClearCallback, guiside, Settled, Showing, Hiding, Telling, UserClosed
<1>14. CASE StopGui
  BY <1>0, <1>14 DEF StopGui, guiside, Settled, Showing, Hiding, Telling, UserClosed
<1>15. CASE ClosePipe
  BY <1>0, <1>15 DEF ClosePipe, guiside, Settled, Showing, Hiding, Telling, UserClosed
<1>16. CASE TakeBatch
  BY <1>0, <1>16 DEF TakeBatch, guiside, Settled, Showing, Hiding, Telling, UserClosed
<1>17. CASE HandleShow
  <2>1. /\ gui.at = "idle" /\ gui'.at \in {"reply", "attaching"}
        /\ UNCHANGED <<window, held, told, control>>
        /\ batch # <<>> /\ Head(batch).kind = "show"
    BY <1>17 DEF HandleShow, Front
  <2>2. control.at = "wait" /\ control.command = "show"
    BY <1>0, <2>1, NextIsOurs DEF InService
  <2>   QED  BY <1>0, <2>1, <2>2 DEF Settled, Showing, Hiding, Telling, UserClosed
<1>18. CASE Attach
  <2>1. /\ gui.at = "attaching" /\ gui'.at = "reply" /\ UNCHANGED <<held, told, control>>
        /\ gui.request.kind = "show" /\ gui.request.view # None
    BY <1>18 DEF Attach, Scalars, GuiInv, Posted
  <2>2. control.at = "wait" /\ control.command = "show" /\ gui.request.slot = control.slot
    BY <1>0, <2>1, ReplyIsOurs DEF InService, Handling
  <2>3. IF s = control.slot THEN window'[s] \in {window[s], gui.request.view}
        ELSE window'[s] = window[s]
    <3>1. window' \in {window, [window EXCEPT ![gui.request.slot] = gui.request.view]}
      BY <1>18 DEF Attach
    <3>   QED  BY <2>2, <3>1 DEF Scalars
  <2>   QED  BY <1>0, <2>1, <2>2, <2>3 DEF Settled, Showing, Hiding, Telling, UserClosed
<1>19. CASE HandleHide
  <2>1. /\ gui.at = "idle" /\ gui'.at = "reply" /\ UNCHANGED <<held, told, control>>
        /\ batch # <<>> /\ Head(batch).kind = "hide"
        /\ gui'.answer = (window[Head(batch).slot] # None)
    BY <1>19 DEF HandleHide, Front
  <2>2. control.at = "wait" /\ control.command # "show" /\ Head(batch).slot = control.slot
    BY <1>0, <2>1, NextIsOurs DEF InService
  <2>3. window'[s] = IF s = control.slot THEN None ELSE window[s]
    BY <1>19, <2>2 DEF HandleHide, Front, Scalars
  <2>   QED  BY <1>0, <2>1, <2>2, <2>3 DEF Settled, Showing, Hiding, Telling, UserClosed
<1>20. CASE SignalReply
  <2>1. gui.at = "reply" /\ gui'.at = "idle" /\ UNCHANGED <<window, held, told>>
    BY <1>20 DEF SignalReply, Free
  <2>2. /\ control.at = "wait" /\ gui.request.caller = "waits"
        /\ gui.request.slot = control.slot
        /\ gui.request.kind = "show" <=> control.command = "show"
    BY <1>0, <2>1, ReplyIsOurs DEF InService, Handling
  <2>3. /\ control'.at = "answered" /\ control'.answer = gui.answer
        /\ control'.slot = control.slot /\ control'.command = control.command
    BY <1>20, <2>2 DEF SignalReply, Scalars
  <2>4. control.command = "show" => (gui.answer <=> window[control.slot] # None)
    BY <2>1, <2>2 DEF GuiInv
  <2>   QED  BY <1>0, <2>1, <2>2, <2>3, <2>4 DEF Settled, Showing, Hiding, Telling, UserClosed
<1>21. CASE HandleQuit
  <2>1. gui'.at \in {"closing", "exited"}
    BY <1>21 DEF HandleQuit, Scalars
  <2>   QED  BY <1>0, <2>1 DEF InService
<1>22. CASE CloseAll
  <2>1. gui'.at \in {"closing", "exited"}
    BY <1>22 DEF CloseAll, Scalars
  <2>   QED  BY <1>0, <2>1 DEF InService
<1>23. CASE EnqueueAsyncEvent
  <2>1. /\ gui.at = "closed" /\ gui'.at = "callback" /\ gui'.request = gui.request
        /\ UNCHANGED <<window, held, told, control>>
    BY <1>0, <1>23 DEF EnqueueAsyncEvent, Scalars, InService
  <2>   QED  BY <1>0, <2>1 DEF Settled, Showing, Hiding, Telling, UserClosed
<1>24. CASE AsyncRelease
  <2>1. /\ gui.at = "callback" /\ gui'.at = "notify" /\ gui'.request = gui.request
        /\ UNCHANGED <<window, told, control>>
        /\ held'[s] = IF s = gui.request.slot THEN None ELSE held[s]
    BY <1>24 DEF AsyncRelease, Scalars
  <2>   QED  BY <1>0, <2>1 DEF Settled, Showing, Hiding, Telling, UserClosed
<1>25. CASE AsyncTell
  <2>1. /\ gui.at = "notify" /\ gui'.at = "idle" /\ UNCHANGED <<window, held, control>>
        /\ told'[s] = IF s = gui.request.slot THEN FALSE ELSE told[s]
        /\ window[gui.request.slot] = None
    BY <1>25 DEF AsyncTell, Scalars, GuiInv, Free
  <2>   QED  BY <1>0, <2>1 DEF Settled, Showing, Hiding, Telling, UserClosed
<1>26. CASE SelectFails
  <2>1. gui'.at \in {"closing", "exited"}
    BY <1>26 DEF SelectFails, Scalars
  <2>   QED  BY <1>0, <2>1 DEF InService
<1>27. CASE UserCloses
  <2>1. PICK t \in Slot :
          /\ window' = [window EXCEPT ![t] = None]
          /\ gui' = [gui EXCEPT !.at = "closed", !.request.slot = t]
    BY <1>27 DEF UserCloses
  <2>2. /\ gui.at = "idle" /\ gui'.at = "closed" /\ gui'.request.slot = t
        /\ window'[s] = IF s = t THEN None ELSE window[s]
        /\ UNCHANGED <<held, told, control>>
    BY <1>27, <2>1 DEF UserCloses, Scalars, Posted, Request
  <2>   QED  BY <1>0, <2>2 DEF Settled, Showing, Hiding, Telling, UserClosed
<1>28. CASE UNCHANGED vars
  BY <1>0, <1>28 DEF vars, guiside, Settled, Showing, Hiding, Telling, UserClosed
<1> QED
  BY <1>1, <1>2, <1>3, <1>4, <1>5, <1>6, <1>7, <1>8, <1>9, <1>10, <1>11, <1>12, <1>13, <1>14, <1>15, <1>16, <1>17, <1>18, <1>19, <1>20, <1>21, <1>22, <1>23, <1>24, <1>25, <1>26, <1>27, <1>28
     DEF Next, RequestNext, WorkNext, MainNext, GuiNext

----------------------------------------------------------------------------
LEMMA Inductive == Spec => []IInv
<1>1. Init => IInv
  <2> SUFFICES ASSUME Init PROVE IInv
    OBVIOUS
  <2>1. CommandInv /\ MainInv /\ AnswerInv
    BY DEF Init, NoCommand, CommandInv, MainInv, AnswerInv
  <2>2. CallerInv
    BY RecordTypes DEF Init, CallerInv, NoneWaits, OneWaits
  <2>3. GuiInv /\ ExchangeInv
    BY DEF Init, NoCommand, GuiInv, ExchangeInv, Handling
  <2>4. ServiceInv
    BY DEF Init, ServiceInv, Settled
  <2>   QED  BY <2>1, <2>2, <2>3, <2>4, InitTypes DEF IInv
<1>2. IInv /\ [Next]_vars => IInv'
  <2> SUFFICES ASSUME IInv, [Next]_vars PROVE IInv'
    OBVIOUS
  <2>1. Scalars /\ Queues
    BY TypesParts DEF IInv
  <2>2. Scalars' /\ Queues'
    BY <2>1, NextScalars, NextQueues DEF IInv
  <2>3. Types'
    BY <2>2, TypesParts, PTL
  <2>   QED
    BY <2>1, <2>3, NextCommand, NextCaller, NextMain, NextGui, NextExchange, NextAnswer,
       NextService DEF IInv
<1> QED  BY <1>1, <1>2, PTL DEF Spec

\* Type correctness.  (The length of the queue in TypeOK comes from the bound of
\* the model; what is proved is that a command, and then main, add one request.)
THEOREM TypeCorrect == Spec => []TypeOK
<1>1. IInv => TypeOK
  BY DEF IInv, Types
<1> QED  BY <1>1, Inductive, PTL

\* As long as no request lapsed: at rest no view is kept for a closed editor and
\* the host knows every open one, after any race between its commands, the
\* operator's closes and the events about them.
THEOREM RestIsConsistent == Spec => []EditorsAtRest
<1>1. IInv => EditorsAtRest
  <2> SUFFICES ASSUME IInv, Rest, ~lapsed, NEW s \in Slot
               PROVE  (held[s] # None => window[s] # None) /\ (window[s] # None => told[s])
    BY DEF EditorsAtRest
  <2>1. Settled(s)
    BY DEF IInv, ServiceInv, InService, Rest
  <2>   QED  BY <2>1 DEF Rest, Settled, Showing, Hiding, Telling, UserClosed
<1> QED  BY <1>1, Inductive, PTL

\* As long as no request lapsed, a plugin is unloaded or replaced with its editor
\* closed.
THEOREM UnloadAfterClose == Spec => []UnloadFindsEditorClosed
<1>1. IInv => UnloadFindsEditorClosed
  BY DEF IInv, CommandInv, AnswerInv, UnloadFindsEditorClosed
<1> QED  BY <1>1, Inductive, PTL

\* An event about a closed editor goes out before the socket is closed.
THEOREM EventsBeforeClose == Spec => []SendsWhileOpen
<1>1. IInv => SendsWhileOpen
  BY DEF IInv, MainInv, SendsWhileOpen
<1> QED  BY <1>1, Inductive, PTL
============================================================================
