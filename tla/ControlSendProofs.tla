------------------------- MODULE ControlSendProofs -------------------------
(***************************************************************************)
(* The sending side of the control socket, for every set of senders, every *)
(* frame and every size of socket: the room a probe found is there at the  *)
(* write, and the frames in the stream do not mix.  What carries both is   *)
(* that only the holder of controlSendMutex writes, so the socket can only *)
(* get emptier between its probe and its write.                            *)
(***************************************************************************)
EXTENDS ControlSend, ControlFrameTheorems

\* What a thread past the probe, or in the blocking send, has been promised.
Promised ==
  \A w \in Sender :
    /\ call[w].at \in {"probe", "write"} => Len(call[w].frame.payload) <= MaxPayload
    /\ call[w].at = "probe" /\ call[w].probed =>
         Len(socket) + Len(Encoded(call[w].frame)) < Room
    /\ call[w].at = "write" => call[w].parts # <<>>

SendInv == TypeOK /\ Promised

----------------------------------------------------------------------------
\* What a thread is in when it is in no call.
LEMMA NoCallTyped ==
  NoCall \in Call /\ NoCall.at = "idle" /\ NoCall.parts = <<>>
BY SendAssumption DEF NoCall, Call

\* The return of a call: the others' calls stay, and the mutex is free.
LEMMA ReturnTyped ==
  ASSUME TypeOK, NEW w \in Sender, mutex = w, Return(w)
  PROVE  /\ mutex' \in Sender \cup {None}
         /\ call' \in [Sender -> Call]
         /\ \A v \in Sender : call'[v].at \in {"check", "probe", "write"} <=> mutex' = v
         /\ Promised'
<1>1. call' = [call EXCEPT ![w] = NoCall] /\ mutex' = None
  BY DEF Return
<1>2. call \in [Sender -> Call] /\ call' \in [Sender -> Call]
  BY <1>1, NoCallTyped DEF TypeOK
<1>3. \A v \in Sender : v # None
  BY SendAssumption
<1>4. \A v \in Sender : call'[v].at \notin {"check", "probe", "write"}
  <2> TAKE v \in Sender
  <2>1. CASE v = w
    BY <1>1, <1>2, <2>1, NoCallTyped
  <2>2. CASE v # w
    BY <1>1, <1>2, <2>2 DEF TypeOK
  <2> QED  BY <2>1, <2>2
<1>5. Promised'
  BY <1>4 DEF Promised
<1> QED  BY <1>1, <1>2, <1>3, <1>4, <1>5

\* Nobody is past the lock when the program starts.
LEMMA InitSendInv == Init => SendInv
<1> SUFFICES ASSUME Init PROVE SendInv
  OBVIOUS
<1>1. call = [v \in Sender |-> NoCall]
  BY DEF Init
<1>2. \A v \in Sender : call[v] = NoCall /\ v # None
  BY <1>1, SendAssumption
<1>3. call \in [Sender -> Call]
  BY <1>1, NoCallTyped
<1>4. TypeOK
  <2>1. \A v \in Sender : call[v].at \in {"check", "probe", "write"} <=> mutex = v
    BY <1>2, NoCallTyped DEF Init
  <2>. Room \in Nat /\ MaxCalls \in Nat
    BY SendAssumption
  <2>2. socket = <<>> /\ Len(socket) = 0
    BY DEF Init
  <2>3. halved \in BOOLEAN /\ calls \in 0 .. MaxCalls
    <3>1. halved \in BOOLEAN
      BY Zenon DEF Init
    <3>2. calls = 0
      BY DEF Init
    <3> QED  BY <3>1, <3>2
  <2>4. /\ mutex \in Sender \cup {None} /\ peer \in {"open", "closed"}
        /\ socket \in Seq(Byte) /\ part \in Seq(Byte)
        /\ heard \in Seq(Frame) /\ begun \in Seq(Message)
    BY DEF Init
  <2> QED  BY <1>3, <2>1, <2>2, <2>3, <2>4 DEF TypeOK
<1>5. Promised
  BY <1>2, NoCallTyped DEF Promised
<1> QED  BY <1>4, <1>5 DEF SendInv
----------------------------------------------------------------------------
Inside == {"check", "probe", "write"}

\* One thread's call moves, and nobody else gets or loses the mutex.
LEMMA CallMoves ==
  ASSUME TypeOK, NEW w \in Sender, NEW c \in Call,
         call' = [call EXCEPT ![w] = c],
         mutex' \in Sender \cup {None},
         c.at \in Inside <=> mutex' = w,
         \A v \in Sender : v # w => (mutex' = v <=> mutex = v)
  PROVE  /\ call' \in [Sender -> Call]
         /\ \A v \in Sender : call'[v].at \in Inside <=> mutex' = v
         /\ call'[w] = c
         /\ \A v \in Sender : v # w => call'[v] = call[v]
<1>1. call \in [Sender -> Call]
  BY DEF TypeOK
<1>2. call'[w] = c /\ \A v \in Sender : v # w => call'[v] = call[v]
  BY <1>1
<1>3. \A v \in Sender : call[v].at \in Inside <=> mutex = v
  BY DEF TypeOK, Inside
<1>4. \A v \in Sender : call'[v].at \in Inside <=> mutex' = v
  <2> TAKE v \in Sender
  <2>1. CASE v = w
    BY <1>2, <2>1
  <2>2. CASE v # w
    BY <1>2, <1>3, <2>2
  <2> QED  BY <2>1, <2>2
<1> QED  BY <1>1, <1>2, <1>4

\* Only the holder of the mutex is past the lock.
LEMMA Alone ==
  ASSUME TypeOK, NEW w \in Sender, call[w].at \in Inside
  PROVE  /\ mutex = w
         /\ \A v \in Sender : v # w => call[v].at \notin Inside
<1>1. \A v \in Sender : call[v].at \in Inside <=> mutex = v
  BY DEF TypeOK, Inside
<1> QED  BY <1>1

\* A change of one call that its thread makes with the mutex held keeps the
\* promises, when it keeps its own.
LEMMA HolderMoves ==
  ASSUME TypeOK, NEW w \in Sender, NEW c \in Call,
         call' = [call EXCEPT ![w] = c],
         mutex' = w, mutex \in {w, None}, c.at \in Inside,
         c.at \in {"probe", "write"} => Len(c.frame.payload) <= MaxPayload,
         c.at = "probe" /\ c.probed => Len(socket') + Len(Encoded(c.frame)) < Room,
         c.at = "write" => c.parts # <<>>
  PROVE  /\ mutex' \in Sender \cup {None}
         /\ call' \in [Sender -> Call]
         /\ \A v \in Sender : call'[v].at \in {"check", "probe", "write"} <=> mutex' = v
         /\ Promised'
<1>1. \A v \in Sender : v # None
  BY SendAssumption
<1>2. \A v \in Sender : v # w => (mutex' = v <=> mutex = v)
  BY <1>1
<1>3. /\ call' \in [Sender -> Call]
      /\ \A v \in Sender : call'[v].at \in Inside <=> mutex' = v
      /\ call'[w] = c
  BY <1>2, CallMoves
<1>4. Promised'
  <2> SUFFICES ASSUME NEW v \in Sender
               PROVE  /\ call'[v].at \in {"probe", "write"} =>
                           Len(call'[v].frame.payload) <= MaxPayload
                      /\ call'[v].at = "probe" /\ call'[v].probed =>
                           Len(socket') + Len(Encoded(call'[v].frame)) < Room
                      /\ call'[v].at = "write" => call'[v].parts # <<>>
    BY DEF Promised
  <2>1. CASE v = w
    BY <1>3, <2>1
  <2>2. CASE v # w
    BY <1>3, <2>2 DEF Inside
  <2> QED  BY <2>1, <2>2
<1> QED  BY <1>3, <1>4 DEF Inside
----------------------------------------------------------------------------
(* One lemma per action. *)

\* A call begins: it waits for the mutex, and no call in progress notices.
LEMMA BeginStep ==
  ASSUME SendInv, NEW w \in Sender, Begin(w)
  PROVE  SendInv'
<1> USE DEF SendInv
<1>1. PICK m \in Message :
        call' = [call EXCEPT ![w] = [NoCall EXCEPT !.at = "lock", !.frame = m]]
  BY DEF Begin
<1> DEFINE c == [NoCall EXCEPT !.at = "lock", !.frame = m]
<1>2. c \in Call /\ c.at = "lock"
  BY NoCallTyped DEF Call
<1>3. call[w].at = "idle" /\ mutex' = mutex /\ mutex # w
  BY DEF Begin, TypeOK
<1> HIDE DEF c
<1>4. /\ call' \in [Sender -> Call]
      /\ \A v \in Sender : call'[v].at \in Inside <=> mutex' = v
      /\ call'[w] = c /\ \A v \in Sender : v # w => call'[v] = call[v]
  <2>1. call' = [call EXCEPT ![w] = c]
    BY <1>1 DEF c
  <2>2. mutex' \in Sender \cup {None}
    BY <1>3 DEF TypeOK
  <2>3. c.at \in Inside <=> mutex' = w
    BY <1>2, <1>3 DEF Inside
  <2> QED  BY <1>2, <1>3, <2>1, <2>2, <2>3, CallMoves
<1>5. calls' \in 0 .. MaxCalls
  BY SendAssumption DEF Begin, TypeOK
<1>6. TypeOK'
  BY <1>3, <1>4, <1>5 DEF Begin, TypeOK, Inside, host
<1>7. Promised'
  <2>1. socket' = socket
    BY DEF Begin
  <2> QED  BY <1>2, <1>4, <2>1 DEF Promised
<1> QED  BY <1>6, <1>7

\* The mutex is taken.
LEMMA LockStep ==
  ASSUME SendInv, NEW w \in Sender, Lock(w)
  PROVE  SendInv'
<1> USE DEF SendInv
<1> DEFINE c == [call[w] EXCEPT !.at = "check"]
<1>1. /\ call' = [call EXCEPT ![w] = c]
      /\ mutex = None /\ mutex' = w
  BY DEF Lock
<1>2. c \in Call /\ c.at = "check"
  BY DEF TypeOK, Call
<1> HIDE DEF c
<1>3. /\ mutex' \in Sender \cup {None}
      /\ call' \in [Sender -> Call]
      /\ \A v \in Sender : call'[v].at \in {"check", "probe", "write"} <=> mutex' = v
      /\ Promised'
  BY <1>1, <1>2, HolderMoves DEF Inside
<1>4. TypeOK'
  BY <1>3 DEF Lock, TypeOK, host
<1> QED  BY <1>3, <1>4

\* A call that returns without a byte sent.
LEMMA QuietReturn ==
  ASSUME SendInv, NEW w \in Sender, mutex = w, Return(w),
         UNCHANGED <<socket, host, begun, halved, calls>>
  PROVE  SendInv'
<1> USE DEF SendInv
<1>1. /\ mutex' \in Sender \cup {None}
      /\ call' \in [Sender -> Call]
      /\ \A v \in Sender : call'[v].at \in {"check", "probe", "write"} <=> mutex' = v
      /\ Promised'
  BY ReturnTyped
<1>2. TypeOK'
  BY <1>1 DEF TypeOK, host
<1> QED  BY <1>1, <1>2

\* A payload over the limit, and a socket whose peer has gone.
LEMMA RefuseStep ==
  ASSUME SendInv, NEW w \in Sender, Refuse(w) \/ SendFails(w)
  PROVE  SendInv'
<1>1. mutex = w
  BY Alone DEF SendInv, Refuse, SendFails, Inside
<1> QED  BY <1>1, QuietReturn DEF Refuse, SendFails

\* The probe drops the frame, or leaves room for all of it.
LEMMA ProbeStep ==
  ASSUME SendInv, NEW w \in Sender, Probe(w)
  PROVE  SendInv'
<1> USE DEF SendInv
<1>1. mutex = w
  BY Alone DEF Probe, Inside
<1>2. CASE Return(w)
  BY <1>1, <1>2, QuietReturn DEF Probe
<1>3. ASSUME NEW found \in BOOLEAN,
             found => Len(socket) + Len(Encoded(call[w].frame)) < Room,
             call' = [call EXCEPT ![w] = [call[w] EXCEPT !.at = "probe", !.probed = found]],
             mutex' = mutex
      PROVE  SendInv'
  <2> DEFINE c == [call[w] EXCEPT !.at = "probe", !.probed = found]
  <2>1. call' = [call EXCEPT ![w] = c] /\ mutex' = w
    BY <1>1, <1>3
  <2>2. c \in Call /\ c.at = "probe" /\ c.frame = call[w].frame /\ c.probed = found
    BY <1>3 DEF TypeOK, Call
  <2>3. Len(c.frame.payload) <= MaxPayload
    BY <2>2 DEF Probe
  <2>4. c.probed => Len(socket') + Len(Encoded(c.frame)) < Room
    BY <1>3, <2>2 DEF Probe
  <2> HIDE DEF c
  <2>5. /\ mutex' \in Sender \cup {None}
        /\ call' \in [Sender -> Call]
        /\ \A v \in Sender : call'[v].at \in {"check", "probe", "write"} <=> mutex' = v
        /\ Promised'
    BY <1>1, <2>1, <2>2, <2>3, <2>4, HolderMoves DEF Inside
  <2>6. TypeOK'
    BY <2>5 DEF Probe, TypeOK, host
  <2> QED  BY <2>5, <2>6
<1>4. ASSUME NEW found \in BOOLEAN,
             found => Len(socket) + Len(Encoded(call[w].frame)) < Room,
             call' = [call EXCEPT ![w].at = "probe", ![w].probed = found],
             UNCHANGED mutex
      PROVE  SendInv'
  <2>1. call' = [call EXCEPT ![w] = [call[w] EXCEPT !.at = "probe", !.probed = found]]
    BY <1>4
  <2> QED  BY <1>3, <1>4, <2>1
<1> QED  BY <1>2, <1>4 DEF Probe

\* The one write that does not wait takes what it takes, and the call returns.
LEMMA TrySendStep ==
  ASSUME SendInv, NEW w \in Sender, TrySend(w)
  PROVE  SendInv'
<1> USE DEF SendInv
<1> DEFINE f == call[w].frame
           bytes == Encoded(f)
<1>1. call[w].at = "probe" /\ mutex = w /\ Return(w)
  BY Alone DEF TrySend, Inside
<1>2. PICK sent \in 0 .. Len(bytes) :
        /\ Len(socket) + sent <= Room
        /\ socket' = socket \o SubSeq(bytes, 1, sent)
        /\ begun' = IF sent = Len(bytes) THEN Append(begun, f) ELSE begun
        /\ halved' = (halved \/ sent \in 1 .. Len(bytes) - 1)
  BY DEF TrySend
<1>3. f \in Message
  BY DEF TypeOK, Call
<1>4. bytes \in Seq(Byte) /\ Len(bytes) \in Nat
  BY <1>1, <1>3, FrameBytes, SendAssumption DEF Promised
<1>5. Room \in Nat /\ socket \in Seq(Byte)
  BY SendAssumption DEF TypeOK
<1> HIDE DEF f, bytes
<1>6. socket' \in Seq(Byte) /\ Len(socket') <= Room
  <2>1. SubSeq(bytes, 1, sent) \in Seq(Byte) /\ Len(SubSeq(bytes, 1, sent)) = sent
    <3>1. sent \in Nat /\ sent <= Len(bytes)
      BY <1>4
    <3>2. \A i \in 1 .. sent : i \in 1 .. Len(bytes)
      BY <1>4, <3>1
    <3>3. \A i \in 1 .. sent : bytes[i] \in Byte
      BY <1>4, <3>2
    <3> QED  BY <3>1, <3>3, SubSeqProperties
  <2>2. socket' \in Seq(Byte) /\ Len(socket') = Len(socket) + sent
    BY <1>2, <1>5, <2>1, ConcatProperties
  <2> QED  BY <1>2, <2>2
<1>7. begun' \in Seq(Message)
  BY <1>2, <1>3, AppendProperties DEF TypeOK
<1>8. halved' \in BOOLEAN
  BY <1>2, Zenon
<1>9. /\ mutex' \in Sender \cup {None}
      /\ call' \in [Sender -> Call]
      /\ \A v \in Sender : call'[v].at \in {"check", "probe", "write"} <=> mutex' = v
      /\ Promised'
  BY <1>1, ReturnTyped
<1>10. TypeOK'
  BY <1>6, <1>7, <1>8, <1>9 DEF TrySend, TypeOK, host
<1> QED  BY <1>9, <1>10

\* Send starts with the header.
LEMMA BlockingStep ==
  ASSUME SendInv, NEW w \in Sender, Blocking(w)
  PROVE  SendInv'
<1> USE DEF SendInv
<1> DEFINE f == call[w].frame
           p == IF f.payload = <<>> THEN <<Header(f)>> ELSE <<Header(f), f.payload>>
           c == [call[w] EXCEPT !.at = "write", !.parts = p]
<1>1. /\ call' = [call EXCEPT ![w] = c]
      /\ begun' = Append(begun, f)
      /\ Len(f.payload) <= MaxPayload
      /\ mutex' = mutex
  BY DEF Blocking
<1>2. mutex = w
  BY Alone DEF Blocking, Inside
<1>3. f \in Message
  BY DEF TypeOK, Call
<1>4. f.payload \in Seq(Byte) /\ Header(f) \in Seq(Byte)
  BY <1>1, <1>3, FrameBytes, SendAssumption
<1>5. p \in Seq(Seq(Byte)) /\ p # <<>>
  <2>1. <<Header(f)>> \in Seq(Seq(Byte)) /\ <<Header(f), f.payload>> \in Seq(Seq(Byte))
    <3> HIDE DEF f
    <3> QED  BY <1>4
  <2> HIDE DEF f
  <2> QED  BY <2>1
<1> HIDE DEF p
<1>6. c \in Call /\ c.at = "write" /\ c.frame = f /\ c.parts = p
  BY <1>5 DEF TypeOK, Call
<1> HIDE DEF c
<1>7. /\ mutex' \in Sender \cup {None}
      /\ call' \in [Sender -> Call]
      /\ \A v \in Sender : call'[v].at \in {"check", "probe", "write"} <=> mutex' = v
      /\ Promised'
  BY <1>1, <1>2, <1>5, <1>6, HolderMoves DEF Inside
<1>8. begun' \in Seq(Message)
  BY <1>1, <1>3, AppendProperties DEF TypeOK
<1>9. TypeOK'
  BY <1>7, <1>8 DEF Blocking, TypeOK, host
<1> QED  BY <1>7, <1>9
\* A blocking send takes a prefix of the buffer, and the loop keeps the rest.
LEMMA SendStep ==
  ASSUME SendInv, NEW w \in Sender, Send(w)
  PROVE  SendInv'
<1> USE DEF SendInv
<1> DEFINE buffers == call[w].parts
           buffer  == Head(buffers)
<1>1. call[w].at = "write" /\ mutex = w
  BY Alone DEF Send, Inside
<1>2. buffers \in Seq(Seq(Byte)) /\ buffers # <<>>
  BY <1>1 DEF TypeOK, Call, Promised
<1>3. buffer \in Seq(Byte) /\ Len(buffer) \in Nat
  <2>1. buffer \in Seq(Byte)
    BY <1>2, HeadTailProperties
  <2> QED  BY <2>1
<1>4. PICK n \in 1 .. Len(buffer) :
        /\ Len(socket) + n <= Room
        /\ socket' = socket \o SubSeq(buffer, 1, n)
        /\ \/ call' = [call EXCEPT ![w].parts[1] = SubSeq(buffer, n + 1, Len(buffer))]
              /\ UNCHANGED mutex
           \/ /\ Len(buffers) > 1
              /\ call' = [call EXCEPT ![w].parts = Tail(@)] /\ UNCHANGED mutex
           \/ Return(w)
  BY DEF Send
<1>5. call[w] \in Call /\ call[w].frame \in Message /\ Len(call[w].frame.payload) <= MaxPayload
  BY <1>1 DEF TypeOK, Call, Promised
<1> HIDE DEF buffer
<1>6. socket' \in Seq(Byte) /\ Len(socket') <= Room
  <2>1. SubSeq(buffer, 1, n) \in Seq(Byte) /\ Len(SubSeq(buffer, 1, n)) = n
    BY <1>3, SubSeqProperties
  <2>2. socket \in Seq(Byte)
    BY DEF TypeOK
  <2>3. socket' \in Seq(Byte) /\ Len(socket') = Len(socket) + n
    BY <1>4, <2>1, <2>2, ConcatProperties
  <2> QED  BY <1>4, <2>3
<1>7. /\ mutex' \in Sender \cup {None}
      /\ call' \in [Sender -> Call]
      /\ \A v \in Sender : call'[v].at \in {"check", "probe", "write"} <=> mutex' = v
      /\ Promised'
  <2>1. ASSUME NEW p \in Seq(Seq(Byte)), p # <<>>,
               call' = [call EXCEPT ![w] = [call[w] EXCEPT !.parts = p]], mutex' = mutex
        PROVE  /\ mutex' \in Sender \cup {None}
               /\ call' \in [Sender -> Call]
               /\ \A v \in Sender :
                    call'[v].at \in {"check", "probe", "write"} <=> mutex' = v
               /\ Promised'
    <3> DEFINE c == [call[w] EXCEPT !.parts = p]
    <3>1. c \in Call /\ c.at = "write" /\ c.frame = call[w].frame /\ c.parts = p
      BY <1>1, <1>5, <2>1 DEF Call
    <3> HIDE DEF c
    <3>2. call' = [call EXCEPT ![w] = c]
      BY <2>1 DEF c
    <3> QED  BY <1>1, <1>5, <2>1, <3>1, <3>2, HolderMoves DEF Inside
  <2>2. CASE call' = [call EXCEPT ![w].parts[1] = SubSeq(buffer, n + 1, Len(buffer))]
             /\ UNCHANGED mutex
    <3> DEFINE rest == SubSeq(buffer, n + 1, Len(buffer))
               p    == [buffers EXCEPT ![1] = rest]
    <3>1. rest \in Seq(Byte)
      BY <1>3, SubSeqProperties
    <3>2. Len(buffers) \in Nat \ {0}
      BY <1>2, EmptySeq
    <3> HIDE DEF rest
    <3>3. p \in Seq(Seq(Byte)) /\ Len(p) = Len(buffers)
      BY <1>2, <3>1, <3>2, ExceptSeq
    <3>4. p # <<>>
      BY <3>2, <3>3
    <3>5. call' = [call EXCEPT ![w] = [call[w] EXCEPT !.parts = p]]
      BY <2>2 DEF rest
    <3> HIDE DEF p
    <3> QED  BY <2>1, <2>2, <3>3, <3>4, <3>5
  <2>3. CASE /\ Len(buffers) > 1
             /\ call' = [call EXCEPT ![w].parts = Tail(@)] /\ UNCHANGED mutex
    <3> DEFINE p == Tail(buffers)
    <3>1. p \in Seq(Seq(Byte)) /\ Len(p) = Len(buffers) - 1
      BY <1>2, HeadTailProperties
    <3>2. p # <<>>
      <4>1. Len(buffers) \in Nat
        BY <1>2
      <4> HIDE DEF p, buffers
      <4>2. Len(p) > 0
        BY <2>3, <3>1, <4>1
      <4> QED  BY <3>1, <4>2
    <3>3. call' = [call EXCEPT ![w] = [call[w] EXCEPT !.parts = p]]
      BY <2>3
    <3> HIDE DEF p
    <3> QED  BY <2>1, <2>3, <3>1, <3>2, <3>3
  <2>4. CASE Return(w)
    BY <1>1, <2>4, ReturnTyped
  <2> QED  BY <1>4, <2>2, <2>3, <2>4
<1>8. TypeOK'
  BY <1>6, <1>7 DEF Send, TypeOK, host
<1> QED  BY <1>7, <1>8
\* The host takes a byte: the socket only gets emptier.
LEMMA HostReadStep ==
  ASSUME SendInv, HostRead
  PROVE  SendInv'
<1> USE DEF SendInv
<1>1. socket \in Seq(Byte) /\ socket # <<>> /\ part \in Seq(Byte) /\ heard \in Seq(Frame)
  BY DEF HostRead, TypeOK
<1>2. Head(socket) \in Byte /\ socket' \in Seq(Byte) /\ Len(socket') = Len(socket) - 1
  BY <1>1, HeadTailProperties DEF HostRead
<1>3. Len(socket) \in Nat /\ Len(socket') \in Nat /\ Room \in Nat /\ Len(socket) <= Room
  BY <1>1, <1>2, SendAssumption DEF TypeOK
<1> DEFINE bytes == Append(part, Head(socket))
<1>4. bytes \in Seq(Byte)
  BY <1>1, <1>2
<1>5. \/ part' = bytes /\ heard' = heard
      \/ Complete(bytes) /\ part' = <<>> /\ heard' = Append(heard, Decoded(bytes))
  BY DEF HostRead
<1> HIDE DEF bytes
<1>6. Complete(bytes) => Decoded(bytes) \in Frame
  <2> SUFFICES ASSUME Complete(bytes) PROVE Decoded(bytes) \in Frame
    OBVIOUS
  <2>1. Len(bytes) \in Nat /\ Len(bytes) > 2
    BY <1>4 DEF Complete, LengthBytes
  <2>2. bytes[3] \in Byte
    BY <1>4, <2>1
  <2>3. SubSeq(bytes, 4, Len(bytes)) \in Seq(Byte)
    BY <1>4, <2>1, SubSeqProperties
  <2> QED  BY <2>2, <2>3 DEF Decoded, LengthBytes, Frame
<1>7. part' \in Seq(Byte) /\ heard' \in Seq(Frame)
  <2>1. CASE part' = bytes /\ heard' = heard
    BY <1>1, <1>4, <2>1
  <2>2. CASE Complete(bytes) /\ part' = <<>> /\ heard' = Append(heard, Decoded(bytes))
    <3>1. Decoded(bytes) \in Frame
      BY <1>6, <2>2
    <3>2. heard' \in Seq(Frame)
      BY <1>1, <2>2, <3>1, AppendProperties
    <3>3. part' \in Seq(Byte)
      BY <2>2, EmptySeq
    <3> QED  BY <3>2, <3>3
  <2> QED  BY <1>5, <2>1, <2>2
<1>8. TypeOK'
  <2>1. Len(socket') <= Room
    BY <1>2, <1>3
  <2> QED  BY <1>2, <1>7, <2>1 DEF HostRead, TypeOK
<1>9. Promised'
  <2> SUFFICES ASSUME NEW v \in Sender
               PROVE  /\ call[v].at \in {"probe", "write"} => Len(call[v].frame.payload) <= MaxPayload
                      /\ call[v].at = "probe" /\ call[v].probed =>
                           Len(socket') + Len(Encoded(call[v].frame)) < Room
                      /\ call[v].at = "write" => call[v].parts # <<>>
    BY DEF Promised, HostRead
  <2>1. ASSUME call[v].at = "probe", call[v].probed
        PROVE  Len(socket') + Len(Encoded(call[v].frame)) < Room
    <3>1. call[v].frame \in Message
      BY DEF TypeOK, Call
    <3>2. Len(Encoded(call[v].frame)) \in Nat
      BY <2>1, <3>1, FrameBytes, SendAssumption DEF Promised
    <3>3. Len(socket) + Len(Encoded(call[v].frame)) < Room
      BY <2>1 DEF Promised
    <3> QED  BY <1>2, <1>3, <3>2, <3>3
  <2>2. call[v].at \in {"probe", "write"} => Len(call[v].frame.payload) <= MaxPayload
    BY DEF Promised
  <2>3. call[v].at = "write" => call[v].parts # <<>>
    BY DEF Promised
  <2> HIDE DEF SendInv
  <2> QED  BY <2>1, <2>2, <2>3
<1> QED  BY <1>8, <1>9

\* The host goes, and with it what was in the socket.
LEMMA HostCloseStep ==
  ASSUME SendInv, HostClose
  PROVE  SendInv'
<1> USE DEF SendInv
<1>1. socket' = <<>> /\ Len(socket') = 0 /\ UNCHANGED <<mutex, call>>
  BY DEF HostClose
<1>2. Len(socket) \in Nat /\ Room \in Nat /\ Len(socket) <= Room
  BY SendAssumption DEF TypeOK
<1>3. TypeOK'
  <2>1. Len(socket') <= Room /\ socket' \in Seq(Byte)
    BY <1>1, <1>2
  <2> QED  BY <2>1 DEF HostClose, TypeOK
<1>4. Promised'
  <2> SUFFICES ASSUME NEW v \in Sender, call[v].at = "probe", call[v].probed
               PROVE  Len(socket') + Len(Encoded(call[v].frame)) < Room
    BY <1>1 DEF Promised
  <2>1. call[v].frame \in Message
    BY DEF TypeOK, Call
  <2>2. Len(Encoded(call[v].frame)) \in Nat
    BY <2>1, FrameBytes, SendAssumption DEF Promised
  <2>3. Len(socket) + Len(Encoded(call[v].frame)) < Room
    BY DEF Promised
  <2> QED  BY <1>1, <1>2, <2>2, <2>3
<1> QED  BY <1>3, <1>4

----------------------------------------------------------------------------
\* Every step keeps the invariant.
LEMMA NextSendInv == SendInv /\ [Next]_vars => SendInv'
<1> SUFFICES ASSUME SendInv, [Next]_vars PROVE SendInv'
  OBVIOUS
<1>1. CASE HostRead
  BY <1>1, HostReadStep
<1>2. CASE HostClose
  BY <1>2, HostCloseStep
<1>3. ASSUME NEW w \in Sender, Begin(w) \/ Step(w)
      PROVE  SendInv'
  BY <1>3, BeginStep, LockStep, RefuseStep, BlockingStep, ProbeStep, TrySendStep, SendStep
     DEF Step
<1>4. CASE UNCHANGED vars
  BY <1>4 DEF SendInv, TypeOK, Promised, vars, host
<1> QED  BY <1>1, <1>2, <1>3, <1>4 DEF Next

\* The strengthened invariant holds throughout: the state of sendFrame and
\* trySendFrameLossy, and what the probe promised.
THEOREM SendInvariant == Spec => []SendInv
BY InitSendInv, NextSendInv, PTL DEF Spec

\* Whoever is past the lock holds controlSendMutex, and the socket never holds
\* more than its room, for any number of threads and any frames.
THEOREM SendTypes == Spec => []TypeOK
<1>1. SendInv => TypeOK
  BY DEF SendInv
<1> QED  BY <1>1, SendInvariant, PTL

\* The room SIOCOUTQ found for a lossy frame is there when the frame is
\* written, for any number of threads, any frames and any room: it is read
\* with controlSendMutex held.
THEOREM ProbeHolds == Spec => []ProbedRoomStays
<1>1. SendInv => ProbedRoomStays
  <2> SUFFICES ASSUME SendInv, NEW w \in Lossy, call[w].at = "probe", call[w].probed
               PROVE  Len(socket) + Len(Encoded(call[w].frame)) < Room
    BY DEF ProbedRoomStays
  <2>1. w \in Sender
    BY SendAssumption
  <2> QED  BY <2>1 DEF SendInv, Promised
<1> QED  BY <1>1, SendInvariant, PTL

----------------------------------------------------------------------------
(* Frames do not mix.  The holder of the mutex has at most the header and   *)
(* the payload to send, everybody else nothing, and every step moves bytes  *)
(* along: from a buffer to the socket, from the socket to the host's frame, *)
(* from there, when it is whole, to the frames heard.                       *)

Buffered ==
  \A w \in Sender :
    /\ call[w].at # "write" => call[w].parts = <<>>
    /\ call[w].at = "write" => Len(call[w].parts) \in {1, 2}

WholeInv == Buffered /\ FramesWhole

\* What the property speaks of are sequences of numbers.
LEMMA StreamTypes ==
  ASSUME TypeOK
  PROVE  /\ Bytes(heard) \in Seq(Nat) /\ Bytes(begun) \in Seq(Nat)
         /\ part \in Seq(Nat) /\ socket \in Seq(Nat)
         /\ \A w \in Sender : call[w].parts \in Seq(Seq(Nat))
         /\ Unsent \in Seq(Nat)
<1>1. Byte \subseteq Nat /\ Message \subseteq Frame
  BY FrameAssumption, SendAssumption DEF Byte
<1>2. part \in Seq(Nat) /\ socket \in Seq(Nat)
  BY <1>1, SeqMonotonic DEF TypeOK
<1>3. heard \in Seq(Frame) /\ begun \in Seq(Frame)
  BY <1>1, SeqMonotonic DEF TypeOK
<1>4. Bytes(heard) \in Seq(Nat) /\ Bytes(begun) \in Seq(Nat)
  <2>1. PICK m \in Message : TRUE
    BY SendAssumption
  <2>   QED  BY <1>1, <1>3, <2>1, BytesAppend
<1>5. ASSUME NEW w \in Sender PROVE call[w].parts \in Seq(Seq(Nat))
  <2>1. call[w].parts \in Seq(Seq(Byte))
    BY DEF TypeOK, Call
  <2>2. Seq(Byte) \subseteq Seq(Nat)
    BY <1>1, SeqMonotonic
  <2>   QED  BY <2>1, <2>2, SeqMonotonic
<1>6. Unsent \in Seq(Nat)
  <2>1. CASE mutex = None
    BY <2>1 DEF Unsent
  <2>2. CASE mutex # None
    <3>1. mutex \in Sender /\ <<>> \in Seq(Nat)
      BY <2>2 DEF TypeOK
    <3>   QED  BY <1>5, <2>2, <3>1, FlattenAppend DEF Unsent
  <2>   QED  BY <2>1, <2>2
<1>   QED  BY <1>2, <1>4, <1>5, <1>6

\* The holder of the mutex has nothing to send unless it is writing.
LEMMA NothingUnsent ==
  ASSUME TypeOK, Buffered, \A w \in Sender : mutex = w => call[w].at # "write"
  PROVE  Unsent = <<>>
<1>1. CASE mutex = None
  BY <1>1 DEF Unsent
<1>2. CASE mutex \in Sender
  <2>1. call[mutex].parts = <<>> /\ mutex # None
    BY <1>2, SendAssumption DEF Buffered
  <2>   QED  BY <2>1, FlattenNone DEF Unsent
<1>   QED  BY <1>1, <1>2 DEF TypeOK

\* One call moves, and its buffers fit where it is.
LEMMA BufferedKept ==
  ASSUME TypeOK, Buffered, NEW w \in Sender, NEW c, call' = [call EXCEPT ![w] = c],
         c.at # "write" => c.parts = <<>>,
         c.at = "write" => Len(c.parts) \in {1, 2}
  PROVE  /\ Buffered'
         /\ call'[w] = c /\ \A v \in Sender : v # w => call'[v] = call[v]
<1>1. call'[w] = c /\ \A v \in Sender : v # w => call'[v] = call[v]
  BY DEF TypeOK
<1>2. ASSUME NEW v \in Sender
      PROVE  /\ call'[v].at # "write" => call'[v].parts = <<>>
             /\ call'[v].at = "write" => Len(call'[v].parts) \in {1, 2}
  <2>1. CASE v = w
    BY <1>1, <2>1
  <2>2. CASE v # w
    BY <1>1, <2>2 DEF Buffered
  <2>   QED  BY <2>1, <2>2
<1>   QED  BY <1>1, <1>2 DEF Buffered

\* A step that moves no byte.
LEMMA QuietWhole ==
  ASSUME WholeInv, Buffered', Unsent' = Unsent, UNCHANGED <<socket, host, begun, halved>>
  PROVE  WholeInv'
<1>1. FramesWhole'
  BY DEF WholeInv, FramesWhole, host
<1>   QED  BY <1>1 DEF WholeInv

\* A call returns: its buffers go with it, and the mutex.
LEMMA ReturnWhole ==
  ASSUME TypeOK, Buffered, NEW w \in Sender, Return(w)
  PROVE  Buffered' /\ Unsent' = <<>>
<1>1. call' = [call EXCEPT ![w] = NoCall] /\ mutex' = None
  BY DEF Return
<1>2. Buffered'
  BY <1>1, BufferedKept, NoCallTyped
<1>   QED  BY <1>1, <1>2 DEF Unsent

LEMMA InitWhole == Init => WholeInv
<1> SUFFICES ASSUME Init PROVE WholeInv
  OBVIOUS
<1>1. \A w \in Sender : call[w] = NoCall
  BY DEF Init
<1>2. Buffered
  BY <1>1, NoCallTyped DEF Buffered
<1>3. heard = <<>> /\ part = <<>> /\ socket = <<>> /\ begun = <<>> /\ Unsent = <<>>
  BY DEF Init, Unsent
<1>4. <<>> \o <<>> = <<>>
  <2>1. <<>> \in Seq(Nat)
    OBVIOUS
  <2>   QED  BY <2>1, ConcatEmptySeq
<1>5. FramesWhole
  BY <1>3, <1>4, BytesNone DEF FramesWhole
<1>   QED  BY <1>2, <1>5 DEF WholeInv

\* A call begins, or has the mutex: its buffers are empty.
LEMMA BeginWhole ==
  ASSUME TypeOK, WholeInv, NEW w \in Sender, Begin(w) \/ Lock(w)
  PROVE  WholeInv'
<1>1. Buffered
  BY DEF WholeInv
<1>2. CASE Begin(w)
  <2>1. PICK m \in Message :
          call' = [call EXCEPT ![w] = [NoCall EXCEPT !.at = "lock", !.frame = m]]
    BY <1>2 DEF Begin
  <2> DEFINE c == [NoCall EXCEPT !.at = "lock", !.frame = m]
  <2>2. c.at = "lock" /\ c.parts = <<>>
    BY DEF NoCall
  <2> HIDE DEF c
  <2>3. Buffered' /\ \A v \in Sender : v # w => call'[v] = call[v]
    <3>1. call' = [call EXCEPT ![w] = c]
      BY <2>1 DEF c
    <3>   QED  BY <1>1, <2>2, <3>1, BufferedKept
  <2>4. mutex' = mutex /\ mutex # w
    BY <1>2 DEF Begin, TypeOK
  <2>5. Unsent' = Unsent
    BY <2>3, <2>4 DEF Unsent, TypeOK
  <2>   QED  BY <1>2, <2>3, <2>5, QuietWhole DEF Begin
<1>3. CASE Lock(w)
  <2> DEFINE c == [call[w] EXCEPT !.at = "check"]
  <2>1. call[w] \in Call /\ call[w].at = "lock" /\ call[w].parts = <<>>
    BY <1>1, <1>3 DEF Lock, TypeOK, Buffered
  <2>2. c.at = "check" /\ c.parts = <<>>
    BY <2>1 DEF Call
  <2>3. call' = [call EXCEPT ![w] = c] /\ mutex = None /\ mutex' = w
    BY <1>3 DEF Lock
  <2> HIDE DEF c
  <2>4. Buffered' /\ call'[w] = c
    BY <1>1, <2>2, <2>3, BufferedKept
  <2>5. Unsent = <<>> /\ Unsent' = <<>>
    <3>1. w # None
      BY SendAssumption
    <3>   QED  BY <2>2, <2>3, <2>4, <3>1, FlattenNone DEF Unsent
  <2>   QED  BY <1>3, <2>4, <2>5, QuietWhole DEF Lock
<1>   QED  BY <1>2, <1>3

\* A frame is dropped, or a payload refused, before a byte of it is sent; and
\* a frame the socket no longer takes goes where nobody reads.
LEMMA DropWhole ==
  ASSUME SendInv, WholeInv, NEW w \in Sender, Refuse(w) \/ SendFails(w) \/ Probe(w)
  PROVE  WholeInv'
<1>1. TypeOK /\ Buffered /\ call[w].at \in Inside
  BY DEF WholeInv, SendInv, Refuse, SendFails, Probe, Inside
<1>2. mutex = w /\ w # None
  BY <1>1, Alone, SendAssumption
<1>3. UNCHANGED <<socket, host, begun, halved>>
  BY DEF Refuse, SendFails, Probe
<1>4. CASE call[w].at = "write"
  <2>1. Return(w) /\ peer = "closed" /\ peer' = peer
    BY <1>3, <1>4 DEF Refuse, SendFails, Probe, host
  <2>2. Buffered'
    BY <1>1, <2>1, ReturnWhole
  <2>   QED  BY <2>1, <2>2 DEF WholeInv, FramesWhole
<1>5. CASE call[w].at # "write"
  <2>1. Unsent = <<>>
    BY <1>1, <1>2, <1>5, NothingUnsent
  <2>2. CASE Return(w)
    <3>1. Buffered' /\ Unsent' = <<>>
      BY <1>1, <2>2, ReturnWhole
    <3>   QED  BY <1>3, <2>1, <3>1, QuietWhole
  <2>3. CASE ~Return(w)
    <3>0. PICK found \in BOOLEAN :
            call' = [call EXCEPT ![w].at = "probe", ![w].probed = found] /\ mutex' = w
      BY <1>2, <2>3 DEF Probe, Refuse, SendFails
    <3> DEFINE c == [call[w] EXCEPT !.at = "probe", !.probed = found]
    <3>1. call' = [call EXCEPT ![w] = c] /\ mutex' = w
      BY <3>0
    <3>2. c.at = "probe" /\ c.parts = <<>>
      BY <1>1, <1>5 DEF TypeOK, Call, Buffered
    <3> HIDE DEF c
    <3>3. Buffered' /\ call'[w] = c
      BY <1>1, <3>1, <3>2, BufferedKept
    <3>4. Unsent' = <<>>
      BY <1>2, <3>1, <3>2, <3>3, FlattenNone DEF Unsent
    <3>   QED  BY <1>3, <2>1, <3>3, <3>4, QuietWhole
  <2>   QED  BY <2>2, <2>3
<1>   QED  BY <1>4, <1>5

\* The header, and the payload if there is one, are in the buffers.
LEMMA BlockingWhole ==
  ASSUME SendInv, WholeInv, NEW w \in Sender, Blocking(w)
  PROVE  WholeInv'
<1> DEFINE f == call[w].frame
           p == IF f.payload = <<>> THEN <<Header(f)>> ELSE <<Header(f), f.payload>>
           c == [call[w] EXCEPT !.at = "write", !.parts = p]
<1>1. TypeOK /\ Buffered /\ FramesWhole /\ call[w].at = "check" /\ call[w] \in Call
  BY DEF WholeInv, SendInv, Blocking, TypeOK
<1>2. mutex = w /\ w # None
  BY <1>1, Alone, SendAssumption DEF Inside
<1>3. /\ call' = [call EXCEPT ![w] = c] /\ mutex' = mutex
      /\ begun' = Append(begun, f) /\ UNCHANGED <<socket, peer, part, heard, halved>>
      /\ f \in Frame /\ Len(f.payload) <= MaxPayload
  BY <1>1, SendAssumption DEF Blocking, host, Call
<1>4. f.payload \in Seq(Nat) /\ Header(f) \in Seq(Nat) /\ Encoded(f) \in Seq(Nat)
  <2>1. f.payload \in Seq(Byte) /\ Header(f) \in Seq(Byte) /\ Byte \subseteq Nat
    BY <1>3, FrameBytes, FrameAssumption DEF Byte
  <2>   QED  BY <1>3, <2>1, EncodedNumbers, SeqMonotonic
<1> HIDE DEF f
<1>5. p \in Seq(Seq(Nat)) /\ Len(p) \in {1, 2} /\ FlattenSeq(p) = Encoded(f)
  <2>1. CASE f.payload = <<>>
    <3>1. p = <<Header(f)>>
      BY <2>1
    <3> HIDE DEF p
    <3>2. p \in Seq(Seq(Nat)) /\ Len(p) = 1 /\ p[1] = Header(f)
      BY <1>4, <3>1
    <3>3. FlattenSeq(p) = Header(f)
      BY <3>2, FlattenOneTwo
    <3>4. Header(f) \o f.payload = Header(f)
      BY <1>4, <2>1, ConcatEmptySeq
    <3>   QED  BY <3>2, <3>3, <3>4 DEF Encoded
  <2>2. CASE f.payload # <<>>
    <3>1. p = <<Header(f), f.payload>>
      BY <2>2
    <3> HIDE DEF p
    <3>2. /\ p \in Seq(Seq(Nat)) /\ Len(p) = 2
          /\ p[1] = Header(f) /\ p[2] = f.payload
      BY <1>4, <3>1
    <3>3. Len(p) \in {1, 2} /\ Len(p) # 1
      BY <3>2
    <3>4. FlattenSeq(p) = p[1] \o p[2]
      BY <3>2, <3>3, FlattenOneTwo
    <3>   QED  BY <3>2, <3>4 DEF Encoded
  <2>   QED  BY <2>1, <2>2
<1> HIDE DEF p
<1>6. c.at = "write" /\ c.parts = p
  BY <1>1 DEF Call
<1> HIDE DEF c
<1>7. Buffered' /\ call'[w] = c
  BY <1>1, <1>3, <1>5, <1>6, BufferedKept
<1>8. Unsent = <<>> /\ Unsent' = Encoded(f)
  <2>1. Unsent = <<>>
    BY <1>1, <1>2, NothingUnsent
  <2>2. Unsent' = FlattenSeq(call'[w].parts)
    BY <1>2, <1>3 DEF Unsent
  <2>   QED  BY <1>5, <1>6, <1>7, <2>1, <2>2
<1>9. ASSUME peer = "open", ~halved
      PROVE  Bytes(heard) \o part \o socket \o Encoded(f) = Bytes(begun')
  <2> DEFINE x == Bytes(heard) \o part \o socket
  <2>1. x \in Seq(Nat)
    BY <1>1, StreamTypes, ConcatProperties
  <2>2. x \o <<>> = Bytes(begun)
    BY <1>1, <1>8, <1>9 DEF FramesWhole
  <2>3. Bytes(begun') = Bytes(begun) \o Encoded(f)
    <3>1. begun \in Seq(Frame)
      BY <1>1, SendAssumption, SeqMonotonic DEF TypeOK
    <3>   QED  BY <1>3, <3>1, BytesAppend
  <2> HIDE DEF x
  <2>4. x = Bytes(begun)
    BY <2>1, <2>2, ConcatEmptySeq
  <2>   QED  BY <2>3, <2>4 DEF x
<1>   QED  BY <1>3, <1>7, <1>8, <1>9 DEF WholeInv, FramesWhole

\* The one write puts all of the frame into the socket, or none of it, or it
\* is the half of a frame that the property leaves out.
LEMMA TrySendWhole ==
  ASSUME SendInv, WholeInv, NEW w \in Sender, TrySend(w)
  PROVE  WholeInv'
<1> DEFINE f == call[w].frame
           bytes == Encoded(f)
<1>1. /\ TypeOK /\ Buffered /\ FramesWhole /\ call[w].at = "probe" /\ call[w] \in Call
      /\ Return(w) /\ UNCHANGED <<peer, part, heard>>
  BY DEF WholeInv, SendInv, TrySend, TypeOK, host
<1>2. mutex = w /\ w # None
  BY <1>1, Alone, SendAssumption DEF Inside
<1>3. f \in Frame /\ Len(f.payload) <= MaxPayload
  BY <1>1, SendAssumption DEF SendInv, Promised, Call
<1>4. Buffered' /\ Unsent' = <<>> /\ Unsent = <<>>
  BY <1>1, <1>2, ReturnWhole, NothingUnsent
<1>5. ASSUME peer = "open", ~halved'
      PROVE  Bytes(heard) \o part \o socket' \o <<>> = Bytes(begun')
  <2>1. bytes \in Seq(Nat) /\ Len(bytes) \in Nat /\ bytes \in Seq(Byte)
    BY <1>3, FrameBytes, EncodedNumbers
  <2> DEFINE x == Bytes(heard) \o part
  <2>2. x \in Seq(Nat) /\ socket \in Seq(Nat) /\ x \o socket \in Seq(Nat)
    BY <1>1, StreamTypes, ConcatProperties
  <2>3. PICK sent \in 0 .. Len(bytes) :
          /\ socket' = socket \o SubSeq(bytes, 1, sent)
          /\ begun' = IF sent = Len(bytes) THEN Append(begun, f) ELSE begun
          /\ halved' = (halved \/ sent \in 1 .. Len(bytes) - 1)
    BY DEF TrySend
  <2>4. ~halved /\ sent \notin 1 .. Len(bytes) - 1
    BY <1>5, <2>3, Zenon
  <2>5. (x \o socket) \o <<>> = Bytes(begun)
    BY <1>1, <1>4, <1>5, <2>4 DEF FramesWhole
  <2> HIDE DEF x, bytes, f
  <2>6. x \o socket = Bytes(begun)
    BY <2>2, <2>5, ConcatEmptySeq
  <2>7. x \o socket' = Bytes(begun') /\ x \o socket' \in Seq(Nat)
    <3>1. CASE sent = Len(bytes)
      <4>1. SubSeq(bytes, 1, sent) = bytes
        BY <2>1, <3>1, SubSeqFull
      <4>2. socket' = socket \o bytes /\ begun' = Append(begun, f)
        BY <2>3, <3>1, <4>1
      <4>3. begun \in Seq(Frame) /\ f \in Frame
        BY <1>1, <1>3, SendAssumption, SeqMonotonic DEF TypeOK
      <4>4. Bytes(begun') = Bytes(begun) \o bytes
        BY <1>3, <4>2, <4>3, BytesAppend DEF bytes
      <4>5. x \o (socket \o bytes) = (x \o socket) \o bytes
        BY <2>1, <2>2, Grouped
      <4>6. (x \o socket) \o bytes \in Seq(Nat)
        BY <2>1, <2>2, ConcatProperties
      <4> QED  BY <2>6, <4>2, <4>4, <4>5, <4>6
    <3>2. CASE sent # Len(bytes)
      <4>1. sent = 0
        BY <2>1, <2>4, <3>2
      <4>2. SubSeq(bytes, 1, sent) = <<>>
        BY <2>1, <4>1, SubSeqEmpty
      <4>3. socket' = socket
        BY <2>2, <2>3, <4>2, ConcatEmptySeq
      <4> QED  BY <2>2, <2>3, <2>6, <3>2, <4>3
    <3> QED  BY <3>1, <3>2
  <2>8. (x \o socket') \o <<>> = x \o socket'
    BY <2>7, ConcatEmptySeq
  <2> QED  BY <2>7, <2>8 DEF x
<1> QED  BY <1>1, <1>4, <1>5 DEF WholeInv, FramesWhole

\* The blocking send moves the front of its buffers into the socket.
LEMMA SendWhole ==
  ASSUME SendInv, WholeInv, NEW w \in Sender, Send(w)
  PROVE  WholeInv'
<1> DEFINE buffers == call[w].parts
           buffer  == buffers[1]
           later   == IF Len(buffers) = 1 THEN <<>> ELSE buffers[2]
<1>1. /\ TypeOK /\ Buffered /\ FramesWhole /\ call[w].at = "write" /\ call[w] \in Call
      /\ peer = "open" /\ UNCHANGED <<peer, part, heard, begun, halved>>
  BY DEF WholeInv, SendInv, Send, TypeOK, host
<1>2. mutex = w /\ w # None
  BY <1>1, Alone, SendAssumption DEF Inside
<1>3. buffers \in Seq(Seq(Nat)) /\ Len(buffers) \in {1, 2}
  BY <1>1, StreamTypes DEF Buffered
<1>4. buffer \in Seq(Nat) /\ later \in Seq(Nat) /\ Head(buffers) = buffer
  BY <1>3
<1>5. PICK n \in 1 .. Len(buffer) :
        /\ socket' = socket \o SubSeq(buffer, 1, n)
        /\ \/ /\ n < Len(buffer)
              /\ call' = [call EXCEPT ![w].parts[1] = SubSeq(buffer, n + 1, Len(buffer))]
              /\ UNCHANGED mutex
           \/ /\ n >= Len(buffer) /\ Len(buffers) > 1
              /\ call' = [call EXCEPT ![w].parts = Tail(@)] /\ UNCHANGED mutex
           \/ n >= Len(buffer) /\ ~(Len(buffers) > 1) /\ Return(w)
  <2>1. \A n \in 1 .. Len(buffer) : n < Len(buffer) \/ n >= Len(buffer)
    BY <1>4
  <2>   QED  BY <1>4, <2>1 DEF Send
<1> DEFINE taken == SubSeq(buffer, 1, n)
           rest  == SubSeq(buffer, n + 1, Len(buffer))
<1>6. /\ taken \in Seq(Nat) /\ rest \in Seq(Nat) /\ taken \o rest = buffer
      /\ n >= Len(buffer) => rest = <<>>
  <2> HIDE DEF buffer
  <2>1. Len(buffer) \in Nat /\ \A i \in 1..Len(buffer) : buffer[i] \in Nat
    BY <1>4
  <2>2. taken \in Seq(Nat) /\ rest \in Seq(Nat)
    BY <2>1, SubSeqProperties
  <2>3. taken \o rest = SubSeq(buffer, 1, Len(buffer))
    BY <1>4, <2>1, ConcatAdjacentSubSeq
  <2>4. SubSeq(buffer, 1, Len(buffer)) = buffer
    BY <1>4, SubSeqFull
  <2>5. n >= Len(buffer) => rest = <<>>
    BY <2>1, SubSeqEmpty
  <2>   QED  BY <2>2, <2>3, <2>4, <2>5
<1>7. Unsent = buffer \o later
  <2>1. Unsent = FlattenSeq(buffers)
    BY <1>2 DEF Unsent
  <2> HIDE DEF buffers
  <2>2. CASE Len(buffers) = 1
    <3>1. FlattenSeq(buffers) = buffer /\ later = <<>>
      BY <1>3, <2>2, FlattenOneTwo
    <3> HIDE DEF buffer
    <3>   QED  BY <1>4, <2>1, <3>1, ConcatEmptySeq
  <2>3. CASE Len(buffers) = 2
    <3>1. Len(buffers) # 1
      BY <2>3
    <3>2. FlattenSeq(buffers) = buffers[1] \o buffers[2]
      BY <1>3, <3>1, FlattenOneTwo
    <3>   QED  BY <2>1, <3>1, <3>2
  <2>   QED  BY <1>3, <2>2, <2>3
<1>8. Buffered' /\ Unsent' = rest \o later
  <2>1. ASSUME NEW p \in Seq(Seq(Nat)), Len(p) \in {1, 2}, mutex' = mutex,
               call' = [call EXCEPT ![w] = [call[w] EXCEPT !.parts = p]]
        PROVE  Buffered' /\ Unsent' = FlattenSeq(p)
    <3> DEFINE c == [call[w] EXCEPT !.parts = p]
    <3>1. c.at = "write" /\ c.parts = p
      BY <1>1 DEF Call
    <3> HIDE DEF c
    <3>2. call' = [call EXCEPT ![w] = c]
      BY <2>1 DEF c
    <3>3. Buffered' /\ call'[w] = c
      BY <1>1, <2>1, <3>1, <3>2, BufferedKept
    <3>4. Unsent' = FlattenSeq(call'[w].parts)
      BY <1>2, <2>1 DEF Unsent
    <3>   QED  BY <3>1, <3>3, <3>4
  <2>2. CASE /\ call' = [call EXCEPT ![w].parts[1] = rest]
             /\ UNCHANGED mutex
    <3> DEFINE p == [buffers EXCEPT ![1] = rest]
    <3> HIDE DEF rest, buffers
    <3>1. 1 \in 1..Len(buffers)
      BY <1>3
    <3>2. /\ p \in Seq(Seq(Nat)) /\ Len(p) = Len(buffers)
          /\ \A j \in 1..Len(buffers) : p[j] = IF j = 1 THEN rest ELSE buffers[j]
      BY <1>3, <1>6, <3>1, ExceptSeq
    <3>3. p[1] = rest /\ (Len(buffers) = 2 => p[2] = buffers[2]) /\ Len(p) \in {1, 2}
      BY <1>3, <3>1, <3>2
    <3>4. call' = [call EXCEPT ![w] = [call[w] EXCEPT !.parts = p]]
      BY <2>2 DEF buffers
    <3> HIDE DEF p
    <3>5. Buffered' /\ Unsent' = FlattenSeq(p)
      BY <2>1, <2>2, <3>2, <3>3, <3>4
    <3>6. CASE Len(buffers) = 1
      <4>1. FlattenSeq(p) = p[1] /\ later = <<>>
        BY <3>2, <3>3, <3>6, FlattenOneTwo
      <4>   QED  BY <1>6, <3>3, <3>5, <4>1, ConcatEmptySeq
    <3>7. CASE Len(buffers) = 2
      <4>1. Len(buffers) # 1 /\ Len(p) # 1
        BY <3>2, <3>7
      <4>2. FlattenSeq(p) = p[1] \o p[2]
        BY <3>2, <3>3, <4>1, FlattenOneTwo
      <4>   QED  BY <3>3, <3>5, <3>7, <4>1, <4>2
    <3>   QED  BY <1>3, <3>6, <3>7
  <2>3. CASE /\ n >= Len(buffer) /\ Len(buffers) > 1
             /\ call' = [call EXCEPT ![w].parts = Tail(@)] /\ UNCHANGED mutex
    <3> DEFINE p == Tail(buffers)
    <3>1. rest = <<>> /\ Len(buffers) = 2 /\ Len(buffers) # 1 /\ buffers # <<>>
      <4>1. rest = <<>> /\ Len(buffers) > 1
        BY <1>6, <2>3, Zenon
      <4>2. Len(buffers) \in {1, 2} /\ buffers \in Seq(Seq(Nat))
        BY <1>3, Zenon
      <4> DEFINE l == Len(buffers)
      <4> HIDE DEF buffers, rest, buffer
      <4>3. l \in {1, 2} /\ l > 1
        BY <4>1, <4>2, Zenon
      <4> HIDE DEF l
      <4>4. l = 2 /\ l # 1
        BY <4>3
      <4>5. buffers # <<>>
        <5>1. buffers = <<>> => l = 0
          BY EmptySeq DEF l
        <5>   QED  BY <4>4, <5>1
      <4>   QED  BY <4>1, <4>4, <4>5 DEF l
    <3>2. call' = [call EXCEPT ![w] = [call[w] EXCEPT !.parts = p]]
      BY <2>3
    <3> HIDE DEF rest, buffers
    <3>3. p \in Seq(Seq(Nat)) /\ Len(p) = 1 /\ p[1] = buffers[2]
      <4>1. /\ p \in Seq(Seq(Nat)) /\ Len(p) = Len(buffers) - 1
            /\ \A i \in 1..Len(p) : p[i] = buffers[i + 1]
        BY <1>3, <3>1, HeadTailProperties
      <4>2. Len(p) = 1
        BY <3>1, <4>1
      <4>3. 1 \in 1..Len(p) /\ 1 + 1 = 2
        BY <4>2
      <4>4. p[1] = buffers[1 + 1]
        BY <4>1, <4>3
      <4>   QED  BY <4>1, <4>2, <4>3, <4>4
    <3> HIDE DEF p
    <3>4. Buffered' /\ Unsent' = FlattenSeq(p)
      BY <2>1, <2>3, <3>2, <3>3
    <3>5. FlattenSeq(p) = p[1]
      BY <3>3, FlattenOneTwo
    <3>6. Unsent' = later
      BY <3>1, <3>3, <3>4, <3>5
    <3> HIDE DEF later
    <3>   QED  BY <1>4, <3>1, <3>4, <3>6, ConcatEmptySeq
  <2>4. CASE n >= Len(buffer) /\ ~(Len(buffers) > 1) /\ Return(w)
    <3>1. Buffered' /\ Unsent' = <<>>
      BY <1>1, <2>4, ReturnWhole
    <3>2. rest = <<>> /\ later = <<>>
      BY <1>3, <1>6, <2>4
    <3>3. <<>> \o <<>> = <<>>
      <4>1. <<>> \in Seq(Nat)
        OBVIOUS
      <4>   QED  BY <4>1, ConcatEmptySeq
    <3> HIDE DEF rest, later
    <3>   QED  BY <3>1, <3>2, <3>3
  <2>   QED  BY <1>5, <2>2, <2>3, <2>4
<1> DEFINE x == Bytes(heard) \o part
<1>9. x \in Seq(Nat) /\ socket \in Seq(Nat)
  BY <1>1, StreamTypes, ConcatProperties
<1>10. ~halved => x \o socket \o (buffer \o later) = Bytes(begun)
  BY <1>1, <1>7 DEF FramesWhole
<1>11. socket' = socket \o taken
  BY <1>5
<1> HIDE DEF x, taken, rest, buffer, later
<1>12. ASSUME ~halved
       PROVE  (x \o socket') \o (rest \o later) = Bytes(begun)
  <2>1. (taken \o rest) \o later = taken \o (rest \o later)
    BY <1>4, <1>6, Grouped
  <2>2. x \o (socket \o taken) = (x \o socket) \o taken
    BY <1>6, <1>9, Grouped
  <2> DEFINE xs == x \o socket
             rl == rest \o later
  <2>3. xs \in Seq(Nat) /\ rl \in Seq(Nat)
    BY <1>4, <1>6, <1>9, ConcatProperties
  <2> HIDE DEF xs, rl
  <2>4. (xs \o taken) \o rl = xs \o (taken \o rl)
    BY <1>6, <2>3, Grouped
  <2>   QED  BY <1>6, <1>10, <1>11, <1>12, <2>1, <2>2, <2>4 DEF xs, rl
<1>   QED  BY <1>1, <1>8, <1>12 DEF WholeInv, FramesWhole, x

\* The host moves a byte to the frame it reads, and a frame that is whole to
\* those it has heard.
LEMMA HostReadWhole ==
  ASSUME TypeOK, WholeInv, HostRead
  PROVE  WholeInv'
<1> DEFINE one   == <<Head(socket)>>
           rest  == Tail(socket)
           bytes == Append(part, Head(socket))
           x     == Bytes(heard)
<1>1. /\ socket # <<>> /\ peer = "open" /\ socket' = rest
      /\ UNCHANGED <<mutex, call, peer, begun, halved>>
      /\ \/ part' = bytes /\ heard' = heard
         \/ Complete(bytes) /\ part' = <<>> /\ heard' = Append(heard, Decoded(bytes))
  BY DEF HostRead
<1>2. Buffered' /\ Unsent' = Unsent
  BY <1>1 DEF WholeInv, Buffered, Unsent
<1>3. x \in Seq(Nat) /\ part \in Seq(Nat) /\ socket \in Seq(Nat)
  BY StreamTypes
<1>4. one \in Seq(Nat) /\ rest \in Seq(Nat) /\ socket = one \o rest
  BY <1>1, <1>3, FirstApart
<1>5. bytes \in Seq(Nat) /\ bytes = part \o one
  <2>1. Head(socket) \in Nat
    BY <1>1, <1>3, HeadTailProperties
  <2>   QED  BY <1>3, <2>1, AppendProperties, AppendIsConcat
<1>6. bytes \in Seq(Byte) /\ heard \in Seq(Frame)
  <2>1. Head(socket) \in Byte /\ part \in Seq(Byte)
    BY <1>1, HeadTailProperties DEF TypeOK
  <2>   QED  BY <2>1, AppendProperties DEF TypeOK
<1> HIDE DEF one, rest, bytes, x
<1>7. (x \o bytes) \o rest = (x \o part) \o socket
  <2> DEFINE xp == x \o part
  <2>1. x \o (part \o one) = xp \o one
    <3>1. x \in Seq(Nat) /\ part \in Seq(Nat) /\ one \in Seq(Nat)
      BY <1>3, <1>4
    <3>   QED  BY <3>1, Grouped
  <2>2. xp \in Seq(Nat)
    BY <1>3, ConcatProperties
  <2> HIDE DEF xp
  <2>3. (xp \o one) \o rest = xp \o (one \o rest)
    BY <1>4, <2>2, Grouped
  <2>   QED  BY <1>4, <1>5, <2>1, <2>3 DEF xp
<1>8. Bytes(heard') \o part' = x \o bytes
  <2>1. CASE part' = bytes /\ heard' = heard
    BY <2>1 DEF x
  <2>2. CASE Complete(bytes) /\ part' = <<>> /\ heard' = Append(heard, Decoded(bytes))
    <3>1. Decoded(bytes) \in Frame /\ Encoded(Decoded(bytes)) = bytes
      BY <1>6, <2>2, EncodedDecoded
    <3>2. Bytes(heard') = x \o bytes
      BY <1>6, <2>2, <3>1, BytesAppend DEF x
    <3>3. x \o bytes \in Seq(Nat)
      BY <1>3, <1>5, ConcatProperties
    <3>   QED  BY <2>2, <3>2, <3>3, ConcatEmptySeq
  <2>   QED  BY <1>1, <2>1, <2>2
<1>9. ~halved => (x \o part) \o socket \o Unsent = Bytes(begun)
  BY <1>1 DEF WholeInv, FramesWhole, x
<1>10. ~halved => (Bytes(heard') \o part') \o socket' \o Unsent' = Bytes(begun')
  BY <1>1, <1>2, <1>7, <1>8, <1>9
<1>   QED  BY <1>1, <1>2, <1>10 DEF WholeInv, FramesWhole

\* Every step keeps frames whole.
LEMMA NextWhole ==
  ASSUME SendInv, WholeInv, [Next]_vars
  PROVE  WholeInv'
<1>1. TypeOK
  BY DEF SendInv
<1>2. CASE HostRead
  BY <1>1, <1>2, HostReadWhole
<1>3. CASE HostClose
  BY <1>3 DEF HostClose, WholeInv, Buffered, FramesWhole
<1>4. ASSUME NEW w \in Sender, Begin(w) \/ Step(w)
      PROVE  WholeInv'
  BY <1>1, <1>4, BeginWhole, DropWhole, BlockingWhole, TrySendWhole, SendWhole DEF Step
<1>5. CASE UNCHANGED vars
  BY <1>5 DEF WholeInv, Buffered, FramesWhole, Unsent, vars, host
<1>   QED  BY <1>2, <1>3, <1>4, <1>5 DEF Next

\* Frames of different threads never mix, for any number of senders of either
\* kind, any frames, any room in the socket and any limit on the payload: what
\* the host has read, what is on its way and what the holder of
\* controlSendMutex has left are, byte for byte, the frames begun, until
\* TrySendNonBlocking sends half a frame.
THEOREM FramesStayWhole == Spec => []FramesWhole
<1>1. Init => SendInv /\ WholeInv
  BY InitSendInv, InitWhole
<1>2. SendInv /\ WholeInv /\ [Next]_vars => SendInv' /\ WholeInv'
  BY NextSendInv, NextWhole
<1>3. WholeInv => FramesWhole
  BY DEF WholeInv
<1>   QED  BY <1>1, <1>2, <1>3, PTL DEF Spec
============================================================================
