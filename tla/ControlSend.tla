---------------------------- MODULE ControlSend ----------------------------
(***************************************************************************)
(* What the sidecar sends on the control socket: sendFrame and             *)
(* trySendFrameLossy of main.cpp, over ControlPipe::Send and               *)
(* TrySendNonBlocking.                                                     *)
(*                                                                         *)
(* Three threads send: the reader its replies, the GUI thread its events   *)
(* (both with sendFrame), the drain thread of a plugin its parameter       *)
(* changes (trySendFrameLossy).  A stream socket takes any prefix of what  *)
(* a send offers it; the mutex is what keeps the frames apart.  Send comes *)
(* back for the rest, TrySendNonBlocking does not: when its one write      *)
(* takes half a frame, the stream has lost its framing for good.           *)
(*                                                                         *)
(* The host (external) reads the socket byte by byte and may close it.     *)
(***************************************************************************)
EXTENDS ControlFrame

CONSTANTS
  Sender,      \* threads that send
  Lossy,       \* those that use trySendFrameLossy
  Message,     \* frames they send
  Room,        \* bytes the socket holds: half of what SO_SNDBUF says
  MaxCalls,    \* bound on the calls
  None

ASSUME SendAssumption ==
  /\ Lossy \subseteq Sender
  /\ None \notin Sender
  /\ Message \subseteq Frame /\ Message # {}
  /\ Room \in Nat \ {0} /\ MaxCalls \in Nat \ {0}

VARIABLES
  mutex,       \* who holds controlSendMutex
  call,        \* each thread's call in progress
  socket,      \* the bytes in the socket
  peer,        \* the host's end: "open" or "closed"
  part,        \* bytes of the frame the host is reading
  heard,       \* frames the host has read
  begun,       \* history: frames whose sending began, in order
  halved,      \* history: a lossy frame was sent in part and given up
  calls        \* calls so far

host == <<peer, part, heard>>
vars == <<mutex, call, socket, host, begun, halved, calls>>

\* A call: where it is, its frame, the buffers left to send, and whether the
\* probe has found room for the frame.
Call ==
  [at : {"idle", "lock", "check", "probe", "write"}, frame : Message,
   parts : Seq(Seq(Byte)), probed : BOOLEAN]

NoCall ==
  [at |-> "idle", frame |-> CHOOSE m \in Message : TRUE, parts |-> <<>>, probed |-> FALSE]

TypeOK ==
  /\ mutex \in Sender \cup {None}
  /\ call \in [Sender -> Call]
  /\ \A w \in Sender : call[w].at \in {"check", "probe", "write"} <=> mutex = w
  /\ socket \in Seq(Byte) /\ Len(socket) <= Room
  /\ peer \in {"open", "closed"}
  /\ part \in Seq(Byte)
  /\ heard \in Seq(Frame) /\ begun \in Seq(Message)
  /\ halved \in BOOLEAN
  /\ calls \in 0 .. MaxCalls

Init ==
  /\ mutex = None
  /\ call = [w \in Sender |-> NoCall]
  /\ socket = <<>>
  /\ peer = "open" /\ part = <<>> /\ heard = <<>>
  /\ begun = <<>> /\ halved = FALSE
  /\ calls = 0

----------------------------------------------------------------------------
\* A reply, an event or a parameter change is due.
Begin(w) ==
  /\ call[w].at = "idle" /\ calls < MaxCalls
  /\ \E m \in Message : call' = [call EXCEPT ![w] = [NoCall EXCEPT !.at = "lock", !.frame = m]]
  /\ calls' = calls + 1
  /\ UNCHANGED <<mutex, socket, host, begun, halved>>

\* Mutant of Lock: the mutex is not taken.
Lock_Unheld(w) ==
  /\ call[w].at = "lock"
  /\ mutex' = w
  /\ call' = [call EXCEPT ![w].at = "check"]
  /\ UNCHANGED <<socket, host, begun, halved, calls>>

Lock(w) ==
  /\ call[w].at = "lock" /\ mutex = None
  /\ mutex' = w
  /\ call' = [call EXCEPT ![w].at = "check"]
  /\ UNCHANGED <<socket, host, begun, halved, calls>>

\* The call returns and the lock_guard goes.
Return(w) ==
  /\ call' = [call EXCEPT ![w] = NoCall]
  /\ mutex' = None

\* A payload over the limit is refused before anything is sent.
Refuse(w) ==
  /\ call[w].at = "check"
  /\ Len(call[w].frame.payload) > MaxPayload
  /\ Return(w)
  /\ UNCHANGED <<socket, host, begun, halved, calls>>

\* Mutant of Blocking: the lossy helper calls Send.
Blocking_AlsoLossy(w) ==
  /\ call[w].at = "check"
  /\ Len(call[w].frame.payload) <= MaxPayload
  /\ LET f == call[w].frame
     IN  /\ call' = [call EXCEPT ![w].at = "write",
                       ![w].parts = IF f.payload = <<>> THEN <<Header(f)>>
                                    ELSE <<Header(f), f.payload>>]
         /\ begun' = Append(begun, f)
  /\ UNCHANGED <<mutex, socket, host, halved, calls>>

\* Send writes the header, then the payload, each from a buffer of its own.
Blocking(w) ==
  /\ call[w].at = "check" /\ w \notin Lossy
  /\ Len(call[w].frame.payload) <= MaxPayload
  /\ LET f == call[w].frame
     IN  /\ call' = [call EXCEPT ![w].at = "write",
                       ![w].parts = IF f.payload = <<>> THEN <<Header(f)>>
                                    ELSE <<Header(f), f.payload>>]
         /\ begun' = Append(begun, f)
  /\ UNCHANGED <<mutex, socket, host, halved, calls>>

\* TrySendNonBlocking drops the frame unless all of it fits with room to spare.
\* When ioctl or getsockopt fails, or the build is not for Linux, it goes on
\* without having looked.
Probe(w) ==
  /\ call[w].at = "check" /\ w \in Lossy
  /\ Len(call[w].frame.payload) <= MaxPayload
  /\ LET fits == Len(socket) + Len(Encoded(call[w].frame)) < Room
     IN  \/ /\ fits
            /\ call' = [call EXCEPT ![w].at = "probe", ![w].probed = TRUE]
            /\ UNCHANGED mutex
         \/ ~fits /\ Return(w)
         \/ /\ call' = [call EXCEPT ![w].at = "probe", ![w].probed = FALSE]
            /\ UNCHANGED mutex
  /\ UNCHANGED <<socket, host, begun, halved, calls>>

\* One send with MSG_DONTWAIT takes none of the frame, all of it or, as POSIX
\* allows, a part; whatever it took, the call is over.
TrySend(w) ==
  /\ call[w].at = "probe"
  /\ LET bytes == Encoded(call[w].frame)
     IN  \E sent \in 0 .. Len(bytes) :
           /\ Len(socket) + sent <= Room
           /\ peer = "closed" => sent = 0
           /\ socket' = socket \o SubSeq(bytes, 1, sent)
           /\ begun' = IF sent = Len(bytes) THEN Append(begun, call[w].frame) ELSE begun
           /\ halved' = (halved \/ sent \in 1 .. Len(bytes) - 1)
  /\ Return(w)
  /\ UNCHANGED <<host, calls>>

\* Mutant of Send: a short count is taken for the whole buffer.
Send_Once(w) ==
  /\ call[w].at = "write" /\ peer = "open"
  /\ LET buffer == Head(call[w].parts)
     IN  \E n \in 1 .. Len(buffer) :
           /\ Len(socket) + n <= Room
           /\ socket' = socket \o SubSeq(buffer, 1, n)
           /\ IF Len(call[w].parts) > 1
              THEN call' = [call EXCEPT ![w].parts = Tail(@)] /\ UNCHANGED mutex
              ELSE Return(w)
  /\ UNCHANGED <<host, begun, halved, calls>>

\* A blocking send takes at least a byte of the buffer, as soon as it can; the
\* loop comes back for the rest, and after the header for the payload.
Send(w) ==
  /\ call[w].at = "write" /\ peer = "open"
  /\ LET buffer == Head(call[w].parts)
     IN  \E n \in 1 .. Len(buffer) :
           /\ Len(socket) + n <= Room
           /\ socket' = socket \o SubSeq(buffer, 1, n)
           /\ IF n < Len(buffer)
              THEN call' = [call EXCEPT ![w].parts[1] = SubSeq(buffer, n + 1, Len(buffer))]
                   /\ UNCHANGED mutex
              ELSE IF Len(call[w].parts) > 1
              THEN call' = [call EXCEPT ![w].parts = Tail(@)] /\ UNCHANGED mutex
              ELSE Return(w)
  /\ UNCHANGED <<host, begun, halved, calls>>

\* EPIPE: the host has closed the socket.
SendFails(w) ==
  /\ call[w].at = "write" /\ peer = "closed"
  /\ Return(w)
  /\ UNCHANGED <<socket, host, begun, halved, calls>>

----------------------------------------------------------------------------
(* The host. *)

HostRead ==
  /\ peer = "open" /\ socket # <<>>
  /\ LET bytes == Append(part, Head(socket))
     IN  IF Complete(bytes)
         THEN part' = <<>> /\ heard' = Append(heard, Decoded(bytes))
         ELSE part' = bytes /\ UNCHANGED heard
  /\ socket' = Tail(socket)
  /\ UNCHANGED <<mutex, call, peer, begun, halved, calls>>

HostClose ==
  /\ peer = "open"
  /\ peer' = "closed"
  /\ socket' = <<>>
  /\ UNCHANGED <<mutex, call, part, heard, begun, halved, calls>>

----------------------------------------------------------------------------
Step(w) ==
  \/ Lock(w) \/ Refuse(w) \/ Blocking(w) \/ Probe(w) \/ TrySend(w)
  \/ Send(w) \/ SendFails(w)

Next == HostRead \/ HostClose \/ \E w \in Sender : Begin(w) \/ Step(w)

\* Every thread is scheduled.  Whether the host reads is up to it.
Spec == Init /\ [][Next]_vars /\ \A w \in Sender : WF_vars(Step(w))

HostReads == WF_vars(HostRead)

----------------------------------------------------------------------------
(* Properties. *)

\* What the thread that holds the mutex has yet to send of its frame.
Unsent == IF mutex = None THEN <<>> ELSE FlattenSeq(call[mutex].parts)

\* The frames of different threads never mix: what the host has read, what is
\* in the socket and what the sender has left make up, to the byte, the frames
\* begun, in the order they were begun.  (controlSendMutex around the two
\* loops of Send and around TrySendNonBlocking's single write.)  Only half a
\* lossy frame ends that: the code notices it, and goes on with the socket.
FramesWhole ==
  peer = "open" /\ ~halved => Bytes(heard) \o part \o socket \o Unsent = Bytes(begun)

\* The room the probe found is still there at the write, however long after:
\* SIOCOUTQ is read under controlSendMutex, so nobody can fill the socket in
\* between, and the host only empties it.  (What the kernel takes of a frame
\* it has room for is the kernel's choice: control_pipe.cpp:174-180.)
ProbedRoomStays ==
  \A w \in Lossy :
    call[w].at = "probe" /\ call[w].probed =>
      Len(socket) + Len(Encoded(call[w].frame)) < Room

\* A blocking sender that keeps the mutex because the host does not read.
SendStalled ==
  \E v \in Sender \ Lossy : mutex = v /\ call[v].at = "write" /\ Len(socket) = Room

\* A lossy send ends, host reading or not, unless a blocking send of another
\* thread waits for the host with the mutex held: trySendFrameLossy takes the
\* mutex like sendFrame, and that is the one place it can wait in.
LossyWaitsForSend ==
  \A w \in Lossy : call[w].at # "idle" ~> call[w].at = "idle" \/ SendStalled

\* A host that reads gets every frame whose sending began, unless it closes
\* the socket or a lossy frame is cut, and no call hangs.
AllDelivered ==
  HostReads =>
    /\ \A n \in 1 .. MaxCalls :
         Len(begun) >= n ~> Len(heard) >= n \/ peer = "closed" \/ halved
    /\ \A w \in Sender : call[w].at # "idle" ~> call[w].at = "idle"
============================================================================
