--------------------------- MODULE ControlReceive ---------------------------
(***************************************************************************)
(* The life of the sidecar as its control socket sees it: main connects,   *)
(* shakes hands, starts its threads, and ends; the reader thread takes one *)
(* frame after the other (main.cpp, ControlPipe::Open, Recv and RecvAll).  *)
(*                                                                         *)
(* Recv reads a frame in three parts, each with the whole timeout, and     *)
(* keeps nothing when one of them fails.  `cut` records that this happened *)
(* with bytes of a frame already read.                                     *)
(*                                                                         *)
(* Three things here may take for ever, each for reasons other modules     *)
(* show: a command (EditorSession, ParamBridge, ControlSend), the drain of *)
(* the input ring (AudioPath) and the join of the GUI thread               *)
(* (EditorSession).  None of them is fair in Spec.                         *)
(*                                                                         *)
(* The host (external) binds, writes frames byte by byte at its own pace,  *)
(* and may close at any time.                                              *)
(***************************************************************************)
EXTENDS ControlFrame

CONSTANTS
  HelloAck, Goodbye,   \* tags
  Command,             \* frames the host may send
  Attempts,            \* tries of Open before its deadline: 2000 ms in 50 ms
  MaxFrames            \* bound on the frames the host sends

ASSUME ReceiveAssumption ==
  /\ {HelloAck, Goodbye} \subseteq Byte /\ HelloAck # Goodbye
  /\ Command \subseteq Frame
  /\ \A f \in Command : Acceptable(Len(f.payload) + 1)
  /\ {Attempts, MaxFrames} \subseteq Nat \ {0}

VARIABLES
  main,        \* how far main is
  tried,       \* tries of Open so far
  code,        \* the exit status, 0 until there is another
  reader,      \* the controlReader thread
  heartbeat,   \* the heartbeat thread
  recv,        \* the Recv in progress: its part, and the bytes it has
  stopFlag,    \* g_stopFlag
  stopFromControl,
  handled,     \* history: the frames Recv returned, in order
  cut,         \* history: a Recv failed in the middle of a frame
  peer,        \* the host's socket
  inbox,       \* bytes on their way to the sidecar
  rest,        \* bytes of its frame the host has yet to write
  sent         \* history: the frames the host began

host  == <<peer, rest, sent>>
input == <<recv, inbox, handled, cut>>
flags == <<stopFlag, stopFromControl>>
vars  == <<main, tried, code, reader, heartbeat, input, flags, host>>

NoRecv == [part |-> "none", got |-> <<>>]

TypeOK ==
  /\ main \in {"connect", "open", "hello", "ack", "run", "heartbeat", "reader", "gui",
               "close", "exited"}
  /\ tried \in 0 .. Attempts
  /\ code \in {0, 2, 3, 4}
  /\ reader \in {"off", "test", "recv", "busy", "done"}
  /\ heartbeat \in {"off", "on", "done"}
  /\ recv \in [part : {"none", "length", "tag", "payload"}, got : Seq(Byte)]
  /\ Len(recv.got) <= LengthBytes + MaxPayload
  /\ recv.part # "none" <=> main = "ack" \/ reader = "recv"
  /\ flags \in BOOLEAN \X BOOLEAN
  /\ handled \in Seq(Frame) /\ cut \in BOOLEAN
  /\ peer \in {"absent", "listening", "connected", "closed"}
  /\ inbox \in Seq(Byte) /\ rest \in Seq(Byte) /\ sent \in Seq(Command)

Init ==
  /\ main = "connect" /\ tried = 0 /\ code = 0
  /\ reader = "off" /\ heartbeat = "off"
  /\ recv = NoRecv
  /\ stopFlag = FALSE /\ stopFromControl = FALSE
  /\ handled = <<>> /\ cut = FALSE
  /\ peer \in {"absent", "listening"}
  /\ inbox = <<>> /\ rest = <<>> /\ sent = <<>>

----------------------------------------------------------------------------
(* Startup. *)

\* The destructors of main's locals close the socket on the way out.
Exit(status) == main' = "exited" /\ code' = status

Connect ==
  /\ main = "connect" /\ peer = "listening"
  /\ main' = "open"
  /\ peer' = "connected"
  /\ UNCHANGED <<tried, code, reader, heartbeat, input, flags, rest, sent>>

\* Mutant of ConnectAgain: the deadline is forgotten.
ConnectAgain_Forever ==
  /\ main = "connect" /\ peer # "listening"
  /\ tried' = tried + 1
  /\ tried <= Attempts
  /\ UNCHANGED <<main, code, reader, heartbeat, input, flags, host>>

\* ENOENT or ECONNREFUSED before the deadline: sleep 50 ms and try again.
ConnectAgain ==
  /\ main = "connect" /\ peer # "listening"
  /\ tried < Attempts
  /\ tried' = tried + 1
  /\ UNCHANGED <<main, code, reader, heartbeat, input, flags, host>>

\* Past the deadline; or at any try, an error of another kind.
ConnectFails ==
  /\ main = "connect"
  /\ Exit(2)
  /\ UNCHANGED <<tried, reader, heartbeat, input, flags, host>>

\* The rings and the semaphores the host made are there, or a constructor throws.
OpenRings ==
  /\ main = "open"
  /\ \/ main' = "hello" /\ UNCHANGED code
     \/ Exit(4)
  /\ UNCHANGED <<tried, reader, heartbeat, input, flags, host>>

SendHello ==
  /\ main = "hello"
  /\ IF peer = "connected"
     THEN main' = "ack" /\ UNCHANGED code /\ recv' = [NoRecv EXCEPT !.part = "length"]
     ELSE Exit(3) /\ UNCHANGED recv
  /\ UNCHANGED <<tried, reader, heartbeat, inbox, handled, cut, flags, host>>

----------------------------------------------------------------------------
(* Recv. *)

\* How many bytes of the frame are needed before the current part is whole.
Needed ==
  CASE recv.part = "length"  -> LengthBytes
    [] recv.part = "tag"     -> LengthBytes + 1
    [] recv.part = "payload" -> LengthBytes + Length(recv.got)

Reading == recv.part # "none" /\ Len(recv.got) < Needed

\* Mutant of RecvBytes: every recv asks for the whole part again.
RecvBytes_Again ==
  /\ Reading
  /\ \E n \in 1 .. Needed :
       /\ n <= Len(inbox)
       /\ recv' = [recv EXCEPT !.got = @ \o SubSeq(inbox, 1, n)]
       /\ inbox' = SubSeq(inbox, n + 1, Len(inbox))
  /\ UNCHANGED <<main, tried, code, reader, heartbeat, handled, cut, flags, host>>

\* One round of RecvAll: poll says there is something, recv takes some of it.
RecvBytes ==
  /\ Reading
  /\ \E n \in 1 .. Needed - Len(recv.got) :
       /\ n <= Len(inbox)
       /\ recv' = [recv EXCEPT !.got = @ \o SubSeq(inbox, 1, n)]
       /\ inbox' = SubSeq(inbox, n + 1, Len(inbox))
  /\ UNCHANGED <<main, tried, code, reader, heartbeat, handled, cut, flags, host>>

\* Recv returns false: the handshake has failed, the reader goes round, and
\* ends if the host closed.
RecvFails(closed) ==
  /\ recv' = NoRecv
  /\ cut' = (cut \/ recv.got # <<>>)
  /\ IF main = "ack"
     THEN Exit(3) /\ UNCHANGED <<reader, stopFromControl>>
     ELSE /\ reader' = IF closed THEN "done" ELSE "test"
          /\ stopFromControl' = (stopFromControl \/ closed)
          /\ UNCHANGED <<main, code>>
  /\ UNCHANGED <<tried, heartbeat, inbox, handled, stopFlag, host>>

\* The deadline is tested before the socket is.  A reset connection (the host
\* closed with bytes of ours unread) looks the same for one Recv.
RecvTimeout == Reading /\ RecvFails(FALSE)

\* Mutant of RecvClosed: outClosed is not set.
RecvClosed_Silent == Reading /\ inbox = <<>> /\ peer = "closed" /\ RecvFails(FALSE)

RecvClosed == Reading /\ inbox = <<>> /\ peer = "closed" /\ RecvFails(TRUE)

\* A length Recv does not accept: the bytes are spent.
RecvRefuses ==
  /\ recv.part = "length" /\ ~Reading /\ ~Acceptable(Length(recv.got))
  /\ RecvFails(FALSE)

RecvNextPart ==
  /\ recv.part \in {"length", "tag"} /\ ~Reading
  /\ recv.part = "length" => Acceptable(Length(recv.got))
  /\ recv.part = "tag" => Length(recv.got) > 1
  /\ recv' = [recv EXCEPT !.part = IF recv.part = "length" THEN "tag" ELSE "payload"]
  /\ UNCHANGED <<main, tried, code, reader, heartbeat, inbox, handled, cut, flags, host>>

\* The frame is whole.
Received ==
  /\ recv.part = "payload" \/ (recv.part = "tag" /\ Len(recv.got) > LengthBytes
                                /\ Length(recv.got) = 1)
  /\ ~Reading

\* The first frame is the answer to Hello, and starts the threads.
HandshakeDone ==
  /\ main = "ack" /\ Received
  /\ handled' = Append(handled, Decoded(recv.got))
  /\ recv' = NoRecv
  /\ IF Decoded(recv.got).tag = HelloAck
     THEN main' = "run" /\ reader' = "test" /\ heartbeat' = "on" /\ UNCHANGED code
     ELSE Exit(3) /\ UNCHANGED <<reader, heartbeat>>
  /\ UNCHANGED <<tried, inbox, cut, flags, host>>

\* The reader takes a command, and has it carried out; Goodbye is its last.
TakeCommand ==
  /\ reader = "recv" /\ Received
  /\ handled' = Append(handled, Decoded(recv.got))
  /\ recv' = NoRecv
  /\ LET last == Decoded(recv.got).tag = Goodbye
     IN  /\ reader' = IF last THEN "done" ELSE "busy"
         /\ stopFromControl' = (stopFromControl \/ last)
  /\ UNCHANGED <<main, tried, code, heartbeat, inbox, cut, stopFlag, host>>

\* It loads or tears down a plugin, joins the plugin's drain thread, waits for
\* the GUI thread or for the host to read its reply, and comes back, or not.
CommandDone ==
  /\ reader = "busy"
  /\ reader' = "test"
  /\ UNCHANGED <<main, tried, code, heartbeat, input, flags, host>>

----------------------------------------------------------------------------
(* The threads, and the end. *)

Stopped == stopFlag \/ stopFromControl

ReaderTest ==
  /\ reader = "test"
  /\ IF Stopped
     THEN reader' = "done" /\ UNCHANGED recv
     ELSE reader' = "recv" /\ recv' = [NoRecv EXCEPT !.part = "length"]
  /\ UNCHANGED <<main, tried, code, heartbeat, inbox, handled, cut, flags, host>>

\* The heartbeat looks at the flags every second.
HeartbeatEnds ==
  /\ heartbeat = "on" /\ Stopped
  /\ heartbeat' = "done"
  /\ UNCHANGED <<main, tried, code, reader, input, flags, host>>

\* SIGINT or SIGTERM.
HandleStopSignal ==
  /\ ~stopFlag /\ main # "exited"
  /\ stopFlag' = TRUE
  /\ UNCHANGED <<main, tried, code, reader, heartbeat, input, stopFromControl, host>>

\* RunPassthrough tests the flags between two drains of the input ring, and
\* returns when the host leaves the ring empty long enough for it to do so.
AudioReturns ==
  /\ main = "run" /\ Stopped
  /\ main' = "heartbeat"
  /\ UNCHANGED <<tried, code, reader, heartbeat, input, flags, host>>

JoinHeartbeat ==
  /\ main = "heartbeat" /\ heartbeat = "done"
  /\ main' = "reader"
  /\ UNCHANGED <<tried, code, reader, heartbeat, input, flags, host>>

JoinReader ==
  /\ main = "reader" /\ reader = "done"
  /\ main' = "gui"
  /\ UNCHANGED <<tried, code, reader, heartbeat, input, flags, host>>

\* main clears the GUI thread's callback and joins the thread, however long a
\* plugin or a send to the host holds it.
StopGui ==
  /\ main = "gui"
  /\ main' = "close"
  /\ UNCHANGED <<tried, code, reader, heartbeat, input, flags, host>>

Close ==
  /\ main = "close"
  /\ Exit(0)
  /\ UNCHANGED <<tried, reader, heartbeat, input, flags, host>>

----------------------------------------------------------------------------
(* The host. *)

HostBind ==
  /\ peer = "absent"
  /\ peer' = "listening"
  /\ UNCHANGED <<main, tried, code, reader, heartbeat, input, flags, rest, sent>>

HostBegin ==
  /\ peer = "connected" /\ rest = <<>> /\ Len(sent) < MaxFrames
  /\ \E f \in Command : rest' = Encoded(f) /\ sent' = Append(sent, f)
  /\ UNCHANGED <<main, tried, code, reader, heartbeat, input, flags, peer>>

HostWrite ==
  /\ peer = "connected" /\ rest # <<>>
  /\ inbox' = Append(inbox, Head(rest))
  /\ rest' = Tail(rest)
  /\ UNCHANGED <<main, tried, code, reader, heartbeat, recv, handled, cut, flags, peer, sent>>

HostClose ==
  /\ peer \in {"listening", "connected"}
  /\ peer' = "closed"
  /\ UNCHANGED <<main, tried, code, reader, heartbeat, input, flags, rest, sent>>

----------------------------------------------------------------------------
Receive ==
  \/ RecvBytes \/ RecvTimeout \/ RecvClosed \/ RecvRefuses \/ RecvNextPart
  \/ HandshakeDone \/ TakeCommand
Startup  == Connect \/ ConnectAgain \/ ConnectFails \/ OpenRings \/ SendHello
Shutdown == JoinHeartbeat \/ JoinReader \/ Close
Outside  == CommandDone \/ AudioReturns \/ StopGui

Next ==
  \/ Startup \/ Receive \/ ReaderTest \/ HeartbeatEnds \/ Shutdown \/ Outside
  \/ HandleStopSignal
  \/ HostBind \/ HostBegin \/ HostWrite \/ HostClose

\* Every thread of the sidecar is scheduled, and a Recv that finds something again
\* and again does not time out each time.  Nothing is asked of the host, nor of
\* the steps that end only if a plugin, another thread or the host lets them.
Spec ==
  /\ Init /\ [][Next]_vars
  /\ WF_vars(Startup) /\ WF_vars(Receive) /\ WF_vars(ReaderTest)
  /\ WF_vars(HeartbeatEnds) /\ WF_vars(Shutdown)
  /\ SF_vars(RecvBytes \/ RecvClosed)

CommandsReturn == WF_vars(CommandDone)
AudioQuiet     == WF_vars(AudioReturns)
GuiThreadEnds  == WF_vars(StopGui)

----------------------------------------------------------------------------
(* Properties. *)

\* As long as no Recv fails within a frame, the sidecar obeys the frames the
\* host sent, each once and in order, whatever pieces they come in: a Recv
\* takes no byte of the next frame, and one that finds nothing loses nothing.
FramesAsSent == ~cut => IsPrefix(handled, sent)

\* The socket never keeps the sidecar from ending.  If commands return, the
\* host leaves the audio loop a pause and the GUI thread lets itself be joined,
\* the sidecar ends wherever it is: with a host that dies or closes, even in the
\* middle of a frame or with the stream out of step; after a signal, even with a
\* host that stalls within a frame; and after a Goodbye that has been written
\* whole, whatever was sent before.  (Three threads look at two flags, and the
\* reader only between receives.)
SidecarEnds ==
  CommandsReturn /\ AudioQuiet /\ GuiThreadEnds =>
    /\ peer = "closed" ~> main = "exited"
    /\ stopFlag ~> main = "exited"
    /\ (rest = <<>> /\ \E k \in DOMAIN sent : sent[k].tag = Goodbye) ~> main = "exited" \/ cut

\* control_pipe.h on Recv: "Receive one length-prefixed message, blocking until
\* either a complete frame arrives, the peer closes [...], or `timeoutMs`
\* elapses".  What it returns is what the host sent.
RecvReturnsFrames == IsPrefix(handled, sent)
=============================================================================
