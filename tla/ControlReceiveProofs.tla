------------------------ MODULE ControlReceiveProofs ------------------------
(***************************************************************************)
(* What the reader hands on, for every set of commands, every base of a    *)
(* byte and every limit on the payload: the frames the host sent, as long  *)
(* as no Recv gave up within one.                                          *)
(***************************************************************************)
EXTENDS ControlReceive, ControlFrameTheorems

\* The parts of a Recv: what it has read of its frame when it asks for each.
PartInv ==
  /\ recv.part = "none" => recv.got = <<>>
  /\ recv.part = "length" => Len(recv.got) <= 2
  /\ recv.part = "tag" =>
       Len(recv.got) >= 2 /\ Len(recv.got) <= 3 /\ Acceptable(Length(recv.got))
  /\ recv.part = "payload" =>
       /\ Len(recv.got) >= 3 /\ Len(recv.got) <= 2 + Length(recv.got)
       /\ Length(recv.got) > 1 /\ Acceptable(Length(recv.got))

\* The reader starts with the answer to Hello.
StartInv == main \in {"connect", "open", "hello", "ack"} => reader = "off"

\* As long as no frame was cut, no byte is lost or read twice: the frames
\* handled, the bytes of the next one, those in the socket and those the host
\* has left are the frames it began.
StreamInv ==
  ~cut => /\ IsPrefix(handled, sent)
          /\ Bytes(handled) \o recv.got \o inbox \o rest = Bytes(sent)

IInv == TypeOK /\ PartInv /\ StartInv /\ StreamInv

----------------------------------------------------------------------------
(* Decoding is unique.                                                      *)

\* The frames after the first n begin with frame n + 1.
LEMMA NextInStream ==
  ASSUME NEW s \in Seq(Frame), NEW n \in 0 .. Len(s) - 1
  PROVE  \E u \in Seq(Nat) :
           Bytes(s) = Bytes(SubSeq(s, 1, n)) \o (Encoded(s[n + 1]) \o u)
<1> DEFINE front  == Bytes(SubSeq(s, 1, n))
           first  == Encoded(s[n + 1])
           Has(k) == \E u \in Seq(Nat) : Bytes(SubSeq(s, 1, k)) = front \o (first \o u)
           T      == {k \in Nat : k \in n + 1 .. Len(s) /\ ~Has(k)}
<1>1. Len(s) \in Nat /\ n \in Nat /\ n + 1 \in 1..Len(s) /\ n < Len(s)
  OBVIOUS
<1>2. ASSUME NEW k \in 0 .. Len(s) - 1
      PROVE  /\ SubSeq(s, 1, k) \in Seq(Frame) /\ s[k + 1] \in Frame
             /\ SubSeq(s, 1, k + 1) = Append(SubSeq(s, 1, k), s[k + 1])
  <2>1. k + 1 \in 1..Len(s) /\ 1 \in 1..Len(s) /\ k + 1 \in 1..Len(s) /\ (k + 1) - 1 = k
    BY <1>1
  <2>2. s[k + 1] \in Frame
    BY <2>1
  <2>3. SubSeq(s, 1, k) \in Seq(Frame)
    <3>1. \A i \in 1..k : s[i] \in Frame
      BY <1>1
    <3>   QED  BY <3>1, SubSeqProperties
  <2>4. SubSeq(s, 1, k + 1) = SubSeq(s, 1, k) \o <<s[k + 1]>>
    BY <2>1, SubSeqRecursiveSecond
  <2>   QED  BY <2>2, <2>3, <2>4, AppendIsConcat
<1>3. front \in Seq(Nat) /\ first \in Seq(Nat)
  BY <1>1, <1>2, BytesAppend, EncodedNumbers
<1>4. ASSUME NEW k \in 0 .. Len(s) - 1
      PROVE  /\ Bytes(SubSeq(s, 1, k + 1)) = Bytes(SubSeq(s, 1, k)) \o Encoded(s[k + 1])
             /\ Encoded(s[k + 1]) \in Seq(Nat)
  BY <1>2, BytesAppend, EncodedNumbers
<1> HIDE DEF front, first
<1>5. Has(n + 1)
  <2>1. Bytes(SubSeq(s, 1, n + 1)) = front \o first
    BY <1>4 DEF front, first
  <2>2. first \o <<>> = first /\ <<>> \in Seq(Nat)
    BY <1>3, ConcatEmptySeq
  <2>   QED  BY <2>1, <2>2
<1>6. T = {}
  <2>1. SUFFICES ASSUME T # {} PROVE FALSE
    OBVIOUS
  <2>2. PICK k \in T : \A j \in T : ~(j < k)
    <3>1. T \in SUBSET Nat
      OBVIOUS
    <3> HIDE DEF T
    <3>   QED  BY <2>1, <3>1, Least
  <2>3. k \in n + 1 .. Len(s) /\ ~Has(k)
    BY <2>2
  <2>4. k # n + 1
    <3> HIDE DEF Has
    <3>   QED  BY <1>5, <2>3
  <2> DEFINE j == k - 1
  <2>5. j \in n + 1 .. Len(s) /\ j \in 0 .. Len(s) - 1 /\ j + 1 = k /\ j < k /\ j \in Nat
    BY <1>1, <2>3, <2>4
  <2>6. Has(j)
    <3>1. j \notin T
      BY <2>2, <2>5
    <3>   QED  BY <2>5, <3>1
  <2>7. PICK u \in Seq(Nat) : Bytes(SubSeq(s, 1, j)) = front \o (first \o u)
    BY <2>6
  <2> DEFINE last == Encoded(s[j + 1])
  <2>8. last \in Seq(Nat) /\ Bytes(SubSeq(s, 1, k)) = Bytes(SubSeq(s, 1, j)) \o last
    BY <1>4, <2>5
  <2> HIDE DEF last, j
  <2>9. (front \o (first \o u)) \o last = front \o (first \o (u \o last))
    <3>1. (first \o u) \o last = first \o (u \o last)
      BY <1>3, <2>8, Grouped
    <3> DEFINE fu == first \o u
    <3>2. fu \in Seq(Nat)
      BY <1>3, ConcatProperties
    <3> HIDE DEF fu
    <3>3. front \in Seq(Nat) /\ last \in Seq(Nat)
      BY <1>3, <2>8
    <3>4. (front \o fu) \o last = front \o (fu \o last)
      BY <3>2, <3>3, Grouped
    <3>   QED  BY <3>1, <3>4 DEF fu
  <2>10. u \o last \in Seq(Nat)
    BY <2>8, ConcatProperties
  <2>11. Bytes(SubSeq(s, 1, k)) = front \o (first \o (u \o last))
    BY <2>7, <2>8, <2>9
  <2>   QED  BY <2>3, <2>10, <2>11
<1>7. Has(Len(s))
  <2> HIDE DEF Has
  <2>   QED  BY <1>1, <1>6
<1>8. SubSeq(s, 1, Len(s)) = s
  BY SubSeqFull
<1>   QED  BY <1>7, <1>8 DEF front, first

\* Two ways to begin a stream with a whole frame are one.
LEMMA SameFrame ==
  ASSUME NEW got \in Seq(Byte), Complete(got),
         NEW m \in Frame, Len(m.payload) <= MaxPayload,
         NEW t \in Seq(Nat), NEW u \in Seq(Nat), got \o t = Encoded(m) \o u
  PROVE  Decoded(got) = m
<1> DEFINE bytes == Encoded(m)
           one   == got \o t
           other == bytes \o u
<1>1. Byte \subseteq Nat /\ got \in Seq(Nat) /\ bytes \in Seq(Nat)
  BY FrameAssumption, SeqMonotonic, EncodedNumbers DEF Byte
<1>2. /\ Len(bytes) = 3 + Len(m.payload) /\ Len(m.payload) \in Nat
      /\ Length(bytes) = Len(m.payload) + 1
  <2>1. m.payload \in Seq(Byte)
    BY DEF Frame
  <2>   QED  BY <2>1, FrameBytes, FrameFront
<1>3. Len(got) \in Nat /\ Len(got) >= 3 /\ Len(got) = 2 + Length(got)
  BY DEF Complete, LengthBytes
<1> HIDE DEF bytes
<1>4. \A i \in 1..Len(got) : one[i] = got[i]
  BY <1>1, FrontOfConcat
<1>5. \A i \in 1..Len(bytes) : other[i] = bytes[i]
  BY <1>1, FrontOfConcat
<1>6. one = other
  BY DEF bytes
<1> HIDE DEF one, other
<1>7. got[1] = bytes[1] /\ got[2] = bytes[2]
  <2>1. 1 \in 1..Len(got) /\ 2 \in 1..Len(got) /\ 1 \in 1..Len(bytes) /\ 2 \in 1..Len(bytes)
    BY <1>2, <1>3
  <2>   QED  BY <1>4, <1>5, <1>6, <2>1
<1>8. Len(got) = Len(bytes)
  <2>1. Length(got) = Length(bytes)
    BY <1>7 DEF Length
  <2>   QED  BY <1>2, <1>3, <2>1
<1>9. got = bytes
  BY <1>1, <1>4, <1>5, <1>6, <1>8, SeqEqual
<1>   QED  BY <1>9, DecodedEncoded DEF bytes

\* A whole frame at the front of what remains is the next one.
LEMMA NextFrame ==
  ASSUME NEW done \in Seq(Frame), NEW all \in Seq(Frame), IsPrefix(done, all),
         \A k \in 1..Len(all) : Len(all[k].payload) <= MaxPayload,
         NEW got \in Seq(Byte), Complete(got),
         NEW t \in Seq(Nat), Bytes(done) \o (got \o t) = Bytes(all)
  PROVE  IsPrefix(Append(done, Decoded(got)), all)
<1> DEFINE n == Len(done)
           b == Bytes(done)
           g == got \o t
<1>1. /\ n \in Nat /\ Len(all) \in Nat /\ n <= Len(all)
      /\ done = SubSeq(all, 1, n)
  BY SubSeqFull DEF IsPrefix
<1>2. Byte \subseteq Nat /\ got \in Seq(Nat) /\ got # <<>>
  <2>1. Len(got) # 0
    BY DEF Complete, LengthBytes
  <2>   QED  BY <2>1, FrameAssumption, SeqMonotonic DEF Byte
<1>3. g \in Seq(Nat) /\ g # <<>>
  BY <1>2, ConcatProperties, ConcatEqualIffEmpty
<1>4. b \in Seq(Nat)
  <2>1. Decoded(got) \in Frame
    BY EncodedDecoded
  <2>   QED  BY <2>1, BytesAppend
<1>5. n # Len(all)
  <2>1. SUFFICES ASSUME n = Len(all) PROVE FALSE
    OBVIOUS
  <2>2. done = all
    BY <1>1, <2>1, SubSeqFull
  <2>3. b \o g = b
    BY <2>2
  <2> HIDE DEF b, g
  <2>   QED  BY <1>3, <1>4, <2>3, ConcatEqualIffEmpty
<1> DEFINE m == all[n + 1]
<1>6. n \in 0 .. Len(all) - 1 /\ n + 1 \in 1..Len(all)
  BY <1>1, <1>5
<1>7. m \in Frame /\ Len(m.payload) <= MaxPayload /\ Encoded(m) \in Seq(Nat)
  BY <1>6, EncodedNumbers
<1>8. PICK u \in Seq(Nat) : Bytes(all) = b \o (Encoded(m) \o u)
  BY <1>1, <1>6, NextInStream
<1>9. g = Encoded(m) \o u
  <2> DEFINE e == Encoded(m) \o u
  <2>1. e \in Seq(Nat)
    BY <1>7, ConcatProperties
  <2>2. b \o g = b \o e
    BY <1>8
  <2> HIDE DEF b, g, e
  <2>3. g = e
    BY <1>3, <1>4, <2>1, <2>2, ConcatSimplifications
  <2>   QED  BY <2>3 DEF e
<1> HIDE DEF m
<1>10. Decoded(got) = m
  BY <1>7, <1>9, SameFrame
<1>11. SubSeq(all, 1, n + 1) = Append(done, m)
  <2>1. 1 \in 1..Len(all) /\ n + 1 \in 1..Len(all) /\ (n + 1) - 1 = n
    BY <1>6
  <2>2. SubSeq(all, 1, n + 1) = SubSeq(all, 1, n) \o <<all[n + 1]>>
    BY <2>1, SubSeqRecursiveSecond
  <2>   QED  BY <1>1, <1>7, <2>2, AppendIsConcat DEF m
<1>12. Append(done, m) \in Seq(Frame) /\ Len(Append(done, m)) = n + 1
  BY <1>7, AppendProperties
<1> DEFINE more == Append(done, m)
<1> HIDE DEF more
<1>13. SubSeq(more, 1, Len(more)) = more
  BY <1>12, SubSeqFull DEF more
<1>14. IsPrefix(more, all)
  <2>1. SubSeq(all, 1, Len(more)) = more
    BY <1>11, <1>12 DEF more
  <2>2. Len(more) <= Len(all)
    BY <1>6, <1>12 DEF more
  <2>   QED  BY <1>13, <2>1, <2>2 DEF IsPrefix
<1>   QED  BY <1>10, <1>14 DEF more

----------------------------------------------------------------------------
(* The steps. *)

\* What the stream is made of.
LEMMA StreamTypes ==
  ASSUME TypeOK
  PROVE  /\ recv.got \in Seq(Byte) /\ recv.got \in Seq(Nat) /\ Len(recv.got) \in Nat
         /\ inbox \in Seq(Byte) /\ inbox \in Seq(Nat)
         /\ rest \in Seq(Byte) /\ rest \in Seq(Nat)
         /\ handled \in Seq(Frame) /\ sent \in Seq(Frame)
         /\ Bytes(handled) \in Seq(Nat) /\ Bytes(sent) \in Seq(Nat)
<1>1. Byte \subseteq Nat
  BY FrameAssumption DEF Byte
<1>2. recv.got \in Seq(Byte) /\ inbox \in Seq(Byte) /\ rest \in Seq(Byte)
  BY DEF TypeOK
<1>3. handled \in Seq(Frame) /\ sent \in Seq(Command)
  BY DEF TypeOK
<1>4. sent \in Seq(Frame)
  BY <1>3, ReceiveAssumption, SeqMonotonic
<1>   QED  BY <1>1, <1>2, <1>3, <1>4, SeqMonotonic, LenProperties, BytesNumbers

LEMMA Initially ==
  ASSUME Init
  PROVE  IInv
<1>1. TypeOK
  <2>1. <<>> \in Seq(Byte) /\ <<>> \in Seq(Frame) /\ <<>> \in Seq(Command) /\ Len(<<>>) = 0
    OBVIOUS
  <2>2. recv.part = "none" /\ recv.got = <<>>
        /\ recv \in [part : {"none", "length", "tag", "payload"}, got : Seq(Byte)]
    BY <2>1 DEF Init, NoRecv
  <2>3. 0 \in 0 .. Attempts /\ 0 <= LengthBytes + MaxPayload
    BY ReceiveAssumption, FrameAssumption DEF LengthBytes
  <2>   QED  BY <2>1, <2>2, <2>3 DEF Init, TypeOK, flags
<1>2. PartInv /\ StartInv
  BY DEF Init, PartInv, StartInv, NoRecv
<1>3. StreamInv
  <2>1. recv.got = <<>> /\ handled = <<>> /\ inbox = <<>> /\ rest = <<>> /\ sent = <<>>
    BY DEF Init, NoRecv
  <2>2. <<>> \o <<>> = <<>> /\ Len(<<>>) = 0 /\ IsPrefix(<<>>, <<>>)
    BY DEF IsPrefix
  <2>   QED  BY <2>1, <2>2, BytesNone DEF StreamInv
<1>   QED  BY <1>1, <1>2, <1>3 DEF IInv

\* The lengths that a whole length announces.
LEMMA Announced ==
  ASSUME TypeOK, Len(recv.got) >= 2
  PROVE  Length(recv.got) \in Nat
<1>1. 1 \in 1..Len(recv.got) /\ 2 \in 1..Len(recv.got)
  BY StreamTypes
<1>2. recv.got[1] \in Nat /\ recv.got[2] \in Nat
  <2>1. recv.got \in Seq(Nat)
    BY StreamTypes
  <2>   QED  BY <1>1, <2>1, ElementOfSeq
<1>3. Base \in Nat
  BY FrameAssumption
<1>4. Base * recv.got[2] \in Nat
  BY <1>2, <1>3, NaturalProduct
<1> DEFINE high == Base * recv.got[2]
<1> HIDE DEF high
<1>5. recv.got[1] + high \in Nat
  BY <1>2, <1>4 DEF high
<1>   QED  BY <1>5 DEF Length, high

\* Steps that do not touch the stream or the Recv.
LEMMA Aside ==
  ASSUME IInv, UNCHANGED <<recv, handled, cut, inbox, rest, sent>>
  PROVE  PartInv' /\ StreamInv'
BY DEF IInv, PartInv, StreamInv, Acceptable, Length

LEMMA StartupStep ==
  ASSUME IInv, Startup
  PROVE  IInv'
<1>1. CASE Connect
  <2>1. TypeOK' /\ StartInv'
    BY <1>1 DEF Connect, IInv, TypeOK, StartInv, input, flags
  <2>   QED  BY <1>1, <2>1, Aside DEF Connect, IInv, input
<1>2. CASE ConnectAgain
  <2>1. TypeOK' /\ StartInv'
    BY <1>2, ReceiveAssumption DEF ConnectAgain, IInv, TypeOK, StartInv, input, flags, host
  <2>   QED  BY <1>2, <2>1, Aside DEF ConnectAgain, IInv, input, host
<1>3. CASE ConnectFails
  <2>1. TypeOK' /\ StartInv'
    BY <1>3 DEF ConnectFails, Exit, IInv, TypeOK, StartInv, input, flags, host
  <2>   QED  BY <1>3, <2>1, Aside DEF ConnectFails, IInv, input, host
<1>4. CASE OpenRings
  <2>1. TypeOK' /\ StartInv'
    BY <1>4 DEF OpenRings, Exit, IInv, TypeOK, StartInv, input, flags, host
  <2>   QED  BY <1>4, <2>1, Aside DEF OpenRings, IInv, input, host
<1>5. CASE SendHello
  <2>1. CASE peer = "connected"
    <3>1. recv' = [part |-> "length", got |-> <<>>] /\ main' = "ack"
          /\ UNCHANGED <<tried, code, reader, heartbeat, inbox, handled, cut, flags, host>>
      BY <1>5, <2>1 DEF SendHello, NoRecv
    <3>2. recv.part = "none" /\ recv.got = <<>> /\ reader = "off"
      BY <1>5 DEF SendHello, IInv, TypeOK, StartInv, PartInv
    <3>3. Len(<<>>) = 0 /\ <<>> \in Seq(Byte)
      OBVIOUS
    <3>4. recv'.part = "length" /\ recv'.got = <<>>
          /\ recv' \in [part : {"none", "length", "tag", "payload"}, got : Seq(Byte)]
      BY <3>1, <3>3
    <3>5. LengthBytes + MaxPayload \in Nat
      BY FrameAssumption DEF LengthBytes
    <3>6. TypeOK' /\ StartInv'
      BY <3>1, <3>2, <3>3, <3>4, <3>5 DEF IInv, TypeOK, StartInv, flags, host
    <3>7. PartInv'
      BY <3>3, <3>4 DEF PartInv
    <3>8. StreamInv'
      BY <3>1, <3>2, <3>4 DEF IInv, StreamInv, host
    <3>   QED  BY <3>6, <3>7, <3>8 DEF IInv
  <2>2. CASE peer # "connected"
    <3>1. TypeOK' /\ StartInv'
      BY <1>5, <2>2 DEF SendHello, Exit, IInv, TypeOK, StartInv, flags, host
    <3>   QED  BY <1>5, <2>2, <3>1, Aside DEF SendHello, Exit, IInv, host
  <2>   QED  BY <2>1, <2>2
<1>   QED  BY <1>1, <1>2, <1>3, <1>4, <1>5 DEF Startup

\* Bytes taken from the socket are the next ones of the frame.
LEMMA RecvBytesStep ==
  ASSUME IInv, RecvBytes
  PROVE  IInv'
<1> DEFINE x == Bytes(handled)
<1>1. PICK n \in 1 .. Needed - Len(recv.got) :
        /\ n <= Len(inbox)
        /\ recv' = [recv EXCEPT !.got = @ \o SubSeq(inbox, 1, n)]
        /\ inbox' = SubSeq(inbox, n + 1, Len(inbox))
  BY DEF RecvBytes
<1> DEFINE a   == SubSeq(inbox, 1, n)
           b   == SubSeq(inbox, n + 1, Len(inbox))
           got == recv.got \o a
<1>2. TypeOK /\ PartInv /\ StartInv /\ StreamInv /\ Reading
      /\ UNCHANGED <<main, tried, code, reader, heartbeat, handled, cut, flags, host>>
  BY DEF RecvBytes, IInv
<1>3. recv.got \in Seq(Byte) /\ recv.got \in Seq(Nat) /\ Len(recv.got) \in Nat
      /\ inbox \in Seq(Byte) /\ inbox \in Seq(Nat) /\ rest \in Seq(Nat) /\ x \in Seq(Nat)
      /\ Len(inbox) \in Nat
  BY <1>2, StreamTypes
<1>4. /\ recv.part = "length" => Needed = 2
      /\ recv.part = "tag" => Needed = 3
      /\ recv.part = "payload" => Needed = 2 + Length(recv.got)
  BY DEF Needed, LengthBytes
<1>5. recv.part \in {"length", "tag", "payload"}
  BY <1>2 DEF Reading, TypeOK
<1>6. Needed \in Nat /\ Needed <= 2 + MaxPayload
  <2>1. CASE recv.part = "length"
    BY <1>4, <2>1, FrameAssumption
  <2>2. CASE recv.part = "tag"
    <3>1. Len(recv.got) >= 2 /\ Acceptable(Length(recv.got))
      BY <1>2, <2>2 DEF PartInv
    <3>2. Length(recv.got) \in Nat
      BY <1>2, <3>1, Announced
    <3>   QED  BY <1>4, <2>2, <3>1, <3>2, FrameAssumption DEF Acceptable
  <2>3. CASE recv.part = "payload"
    <3>1. Len(recv.got) >= 2 /\ Acceptable(Length(recv.got))
      BY <1>2, <1>3, <2>3 DEF PartInv
    <3>2. Length(recv.got) \in Nat
      BY <1>2, <3>1, Announced
    <3>   QED  BY <1>4, <2>3, <3>1, <3>2, FrameAssumption DEF Acceptable
  <2>   QED  BY <1>5, <2>1, <2>2, <2>3
<1>7. n \in Nat /\ n >= 1 /\ Len(recv.got) + n <= Needed
  <2> DEFINE l == Len(recv.got)
             k == Needed
  <2>1. l \in Nat /\ k \in Nat /\ n \in 1 .. k - l
    BY <1>3, <1>6
  <2> HIDE DEF l, k
  <2>2. n \in Nat /\ n >= 1 /\ l + n <= k
    BY <2>1
  <2>   QED  BY <2>2 DEF l, k
<1>8. a \in Seq(Byte) /\ Len(a) = n /\ b \in Seq(Byte) /\ a \o b = inbox
  <2>1. \A i \in 1..n : inbox[i] \in Byte
    BY <1>1, <1>3, <1>7
  <2>2. \A i \in n + 1 .. Len(inbox) : inbox[i] \in Byte
    BY <1>1, <1>3, <1>7
  <2>3. a \in Seq(Byte) /\ Len(a) = n
    BY <1>7, <2>1, SubSeqProperties
  <2>4. b \in Seq(Byte)
    BY <1>3, <1>7, <2>2, SubSeqProperties
  <2>5. a \o b = inbox
    <3>1. /\ 1 \in 1 .. Len(inbox) + 1 /\ n \in 1 - 1 .. Len(inbox)
          /\ Len(inbox) \in n .. Len(inbox)
      BY <1>1, <1>3, <1>7
    <3>2. a \o b = SubSeq(inbox, 1, Len(inbox))
      BY <1>3, <3>1, ConcatAdjacentSubSeq
    <3>   QED  BY <1>3, <3>2, SubSeqFull
  <2>   QED  BY <2>3, <2>4, <2>5
<1> HIDE DEF a, b
<1>9. a \in Seq(Nat) /\ b \in Seq(Nat)
  <2>1. Byte \subseteq Nat
    BY FrameAssumption DEF Byte
  <2>   QED  BY <1>8, <2>1, SeqMonotonic
<1>10. got \in Seq(Byte) /\ Len(got) = Len(recv.got) + n
  BY <1>3, <1>8, ConcatProperties
<1>11. \A i \in 1..Len(recv.got) : got[i] = recv.got[i]
  BY <1>3, <1>9, FrontOfConcat
<1> HIDE DEF got
<1>12. recv'.part = recv.part /\ recv'.got = got /\ inbox' = b
       /\ recv' \in [part : {"none", "length", "tag", "payload"}, got : Seq(Byte)]
  BY <1>1, <1>2, <1>10 DEF TypeOK, a, b, got
<1>13. TypeOK'
  <2>1. Len(recv'.got) <= LengthBytes + MaxPayload
    BY <1>3, <1>6, <1>7, <1>10, <1>12, FrameAssumption DEF LengthBytes
  <2>2. recv'.part # "none" <=> main' = "ack" \/ reader' = "recv"
    BY <1>2, <1>12 DEF TypeOK
  <2>3. inbox' \in Seq(Byte)
    BY <1>8, <1>12
  <2>   QED  BY <1>2, <1>12, <2>1, <2>2, <2>3 DEF TypeOK, flags, host
<1>14. StartInv'
  BY <1>2 DEF StartInv
<1>15. PartInv'
  <2>1. Len(recv.got) >= 2 => Length(got) = Length(recv.got)
    <3>1. SUFFICES ASSUME Len(recv.got) >= 2 PROVE Length(got) = Length(recv.got)
      OBVIOUS
    <3>2. 1 \in 1..Len(recv.got) /\ 2 \in 1..Len(recv.got)
      BY <1>3, <3>1
    <3>   QED  BY <1>11, <3>2 DEF Length
  <2>2. CASE recv.part = "length"
    BY <1>4, <1>7, <1>10, <1>12, <2>2 DEF PartInv
  <2>3. CASE recv.part = "tag"
    <3>1. Len(recv.got) >= 2
      BY <1>2, <2>3 DEF PartInv
    <3>2. Acceptable(Length(got))
      <4>1. Acceptable(Length(recv.got))
        BY <1>2, <2>3 DEF PartInv
      <4>2. Length(got) = Length(recv.got)
        BY <2>1, <3>1
      <4>   QED  BY <4>1, <4>2
    <3>3. Len(got) >= 2 /\ Len(got) <= 3
      <4> DEFINE l == Len(recv.got)
                 k == Len(got)
      <4>1. l \in Nat /\ n \in Nat /\ l >= 2 /\ l + n <= 3 /\ k = l + n
        BY <1>3, <1>4, <1>7, <1>10, <2>3, <3>1
      <4> HIDE DEF l, k
      <4>2. k >= 2 /\ k <= 3
        BY <4>1
      <4>   QED  BY <4>2 DEF l, k
    <3>   QED  BY <1>12, <2>3, <3>2, <3>3 DEF PartInv
  <2>4. CASE recv.part = "payload"
    <3>1. Len(recv.got) >= 3 /\ Length(recv.got) > 1 /\ Acceptable(Length(recv.got))
      BY <1>2, <2>4 DEF PartInv
    <3>2. Len(got) >= 3 /\ Len(got) <= 2 + Length(recv.got)
      BY <1>3, <1>4, <1>7, <1>10, <2>4, <3>1
    <3>3. Length(got) = Length(recv.got)
      BY <1>3, <2>1, <3>1
    <3>   QED  BY <1>12, <2>4, <3>1, <3>2, <3>3 DEF PartInv
  <2>   QED  BY <1>5, <2>2, <2>3, <2>4
<1>16. x \o got \o b = x \o recv.got \o inbox
  <2> DEFINE y == x \o recv.got
  <2>1. x \o got = y \o a
    BY <1>3, <1>9, Grouped DEF got
  <2>2. y \in Seq(Nat)
    BY <1>3, ConcatProperties
  <2> HIDE DEF y
  <2>3. (y \o a) \o b = y \o (a \o b)
    BY <1>9, <2>2, Grouped
  <2>   QED  BY <1>8, <2>1, <2>3 DEF y
<1>17. StreamInv'
  BY <1>2, <1>12, <1>16 DEF StreamInv, host
<1>   QED  BY <1>13, <1>14, <1>15, <1>17 DEF IInv

\* A Recv that fails within a frame cuts it.
LEMMA RecvFailsStep ==
  ASSUME IInv, NEW closed \in BOOLEAN, RecvFails(closed),
         Reading \/ recv.part = "length"
  PROVE  IInv'
<1>1. /\ recv' = [part |-> "none", got |-> <<>>]
      /\ cut' = (cut \/ recv.got # <<>>)
      /\ UNCHANGED <<tried, heartbeat, inbox, handled, stopFlag, host>>
  BY DEF RecvFails, NoRecv
<1>2. TypeOK /\ PartInv /\ StartInv /\ StreamInv
  BY DEF IInv
<1>3. recv.part # "none"
  BY DEF Reading
<1>4. <<>> \in Seq(Byte) /\ Len(<<>>) = 0 /\ Len(<<>>) <= LengthBytes + MaxPayload
  BY FrameAssumption DEF LengthBytes
<1>5. recv'.part = "none" /\ recv'.got = <<>>
      /\ recv' \in [part : {"none", "length", "tag", "payload"}, got : Seq(Byte)]
  BY <1>1, <1>4
<1>6. PartInv'
  BY <1>5 DEF PartInv
<1>7. StreamInv'
  <2>1. SUFFICES ASSUME ~cut' PROVE StreamInv'
    BY DEF StreamInv
  <2>2. ~cut /\ recv.got = <<>>
    BY <1>1, <1>2, <2>1 DEF TypeOK
  <2>   QED  BY <1>1, <1>2, <1>5, <2>2 DEF StreamInv, host
<1>8. TypeOK' /\ StartInv'
  <2>1. CASE main = "ack"
    <3>1. main' = "exited" /\ code' = 3 /\ reader' = reader /\ stopFromControl' = stopFromControl
      BY <2>1 DEF RecvFails, Exit
    <3>2. reader = "off"
      BY <1>2, <2>1 DEF StartInv
    <3>   QED  BY <1>1, <1>2, <1>4, <1>5, <3>1, <3>2 DEF TypeOK, StartInv, flags, host
  <2>2. CASE main # "ack"
    <3>1. /\ reader' = IF closed THEN "done" ELSE "test"
          /\ stopFromControl' = (stopFromControl \/ closed)
          /\ main' = main /\ code' = code
      BY <2>2 DEF RecvFails
    <3>2. reader = "recv"
      BY <1>2, <1>3, <2>2 DEF TypeOK
    <3>3. main \notin {"connect", "open", "hello", "ack"}
      BY <1>2, <3>2 DEF StartInv
    <3>4. StartInv'
      BY <3>1, <3>3 DEF StartInv
    <3>5. stopFromControl' \in BOOLEAN /\ reader' \in {"off", "test", "recv", "done"}
      BY <1>2, <3>1 DEF TypeOK, flags
    <3>6. recv'.part # "none" <=> main' = "ack" \/ reader' = "recv"
      BY <1>5, <2>2, <3>1
    <3>   QED  BY <1>1, <1>2, <1>4, <1>5, <3>1, <3>4, <3>5, <3>6 DEF TypeOK, flags, host
  <2>   QED  BY <2>1, <2>2
<1>   QED  BY <1>6, <1>7, <1>8 DEF IInv

\* A part that is whole lets the next begin.
LEMMA NextPartStep ==
  ASSUME IInv, RecvNextPart
  PROVE  IInv'
<1>1. /\ recv' = [recv EXCEPT !.part = IF recv.part = "length" THEN "tag" ELSE "payload"]
      /\ recv.part \in {"length", "tag"} /\ ~Reading
      /\ UNCHANGED <<main, tried, code, reader, heartbeat, inbox, handled, cut, flags, host>>
  BY DEF RecvNextPart
<1>2. TypeOK /\ PartInv /\ StartInv /\ StreamInv
  BY DEF IInv
<1>3. recv.got \in Seq(Byte) /\ Len(recv.got) \in Nat
  BY <1>2, StreamTypes
<1>4. /\ recv'.got = recv.got
      /\ recv.part = "length" => recv'.part = "tag"
      /\ recv.part = "tag" => recv'.part = "payload"
      /\ recv' \in [part : {"none", "length", "tag", "payload"}, got : Seq(Byte)]
  <2>1. recv \in [part : {"none", "length", "tag", "payload"}, got : Seq(Byte)]
    BY <1>2 DEF TypeOK
  <2>2. CASE recv.part = "length"
    <3>1. recv' = [recv EXCEPT !.part = "tag"]
      BY <1>1, <2>2
    <3>   QED  BY <2>1, <2>2, <3>1
  <2>3. CASE recv.part = "tag"
    <3>1. recv' = [recv EXCEPT !.part = "payload"]
      BY <1>1, <2>3
    <3>2. recv'.got = recv.got /\ recv'.part = "payload"
      BY <2>1, <3>1
    <3>3. recv' \in [part : {"none", "length", "tag", "payload"}, got : Seq(Byte)]
      BY <2>1, <3>1
    <3>   QED  BY <2>3, <3>2, <3>3
  <2>   QED  BY <1>1, <2>2, <2>3
<1>5. TypeOK' /\ StartInv'
  BY <1>1, <1>2, <1>4 DEF TypeOK, StartInv, flags, host
<1>6. StreamInv'
  BY <1>1, <1>2, <1>4 DEF StreamInv, host
<1>7. PartInv'
  <2>1. CASE recv.part = "length"
    <3>1. Acceptable(Length(recv.got))
      BY <2>1 DEF RecvNextPart
    <3>2. Len(recv.got) <= 2 /\ ~(Len(recv.got) < 2)
      BY <1>1, <1>2, <2>1 DEF PartInv, Reading, Needed, LengthBytes
    <3>3. Len(recv.got) = 2
      <4> DEFINE l == Len(recv.got)
      <4>1. l \in Nat /\ l <= 2 /\ ~(l < 2)
        BY <1>3, <3>2
      <4> HIDE DEF l
      <4>2. l = 2
        BY <4>1
      <4>   QED  BY <4>2 DEF l
    <3>   QED  BY <1>4, <2>1, <3>1, <3>3 DEF PartInv
  <2>2. CASE recv.part = "tag"
    <3>1. Acceptable(Length(recv.got)) /\ Length(recv.got) > 1
      BY <1>2, <2>2 DEF RecvNextPart, PartInv
    <3>2. Len(recv.got) <= 3
      BY <1>2, <2>2 DEF PartInv
    <3>3. ~(Len(recv.got) < 3)
      BY <1>1, <2>2 DEF Reading, Needed, LengthBytes
    <3>4. Len(recv.got) = 3
      <4> DEFINE l == Len(recv.got)
      <4>1. l \in Nat /\ l <= 3 /\ ~(l < 3)
        BY <1>3, <3>2, <3>3
      <4> HIDE DEF l
      <4>2. l = 3
        BY <4>1
      <4>   QED  BY <4>2 DEF l
    <3>5. Length(recv.got) \in Nat
      BY <1>2, <3>4, Announced
    <3> DEFINE n == Length(recv.got)
               l == Len(recv.got)
    <3> HIDE DEF n, l
    <3>6. l >= 3 /\ l <= 2 + n
      <4>1. n \in Nat /\ n > 1 /\ l = 3
        BY <3>1, <3>4, <3>5 DEF n, l
      <4>   QED  BY <4>1
    <3>7. recv'.part = "payload" /\ recv'.got = recv.got
      BY <1>1, <1>2, <2>2 DEF TypeOK
    <3>   QED  BY <3>1, <3>6, <3>7 DEF PartInv, n, l
  <2>   QED  BY <1>1, <2>1, <2>2
<1>   QED  BY <1>5, <1>6, <1>7 DEF IInv

\* What Recv returns is all that the length announced.
LEMMA ReceivedWhole ==
  ASSUME IInv, Received
  PROVE  Complete(recv.got)
<1>1. TypeOK /\ PartInv /\ ~Reading
  BY DEF IInv, Received
<1>2. recv.got \in Seq(Byte) /\ Len(recv.got) \in Nat
  BY <1>1, StreamTypes
<1>3. CASE recv.part = "payload"
  <2>1. Needed = 2 + Length(recv.got) /\ Len(recv.got) >= 3
        /\ Len(recv.got) <= 2 + Length(recv.got)
    BY <1>1, <1>3 DEF PartInv, Needed, LengthBytes
  <2>2. Length(recv.got) \in Nat
    <3>1. Len(recv.got) >= 2
      BY <1>2, <2>1
    <3>   QED  BY <1>1, <3>1, Announced
  <2>3. Len(recv.got) = 2 + Length(recv.got)
    BY <1>1, <1>2, <1>3, <2>1, <2>2 DEF Reading
  <2>   QED  BY <1>2, <2>1, <2>3 DEF Complete, LengthBytes
<1>4. CASE recv.part = "tag" /\ Len(recv.got) > LengthBytes /\ Length(recv.got) = 1
  <2>1. Len(recv.got) <= 3
    BY <1>1, <1>4 DEF PartInv
  <2>2. Len(recv.got) = 3
    <3> DEFINE l == Len(recv.got)
    <3>1. l \in Nat /\ l > 2 /\ l <= 3
      BY <1>2, <1>4, <2>1 DEF LengthBytes
    <3> HIDE DEF l
    <3>2. l = 3
      BY <3>1
    <3>   QED  BY <3>2 DEF l
  <2>   QED  BY <1>4, <2>2 DEF Complete, LengthBytes
<1>   QED  BY <1>3, <1>4 DEF Received

\* A frame handled is the next of those the host began.
LEMMA HandledStep ==
  ASSUME IInv, Received, recv' = NoRecv,
         handled' = Append(handled, Decoded(recv.got)),
         UNCHANGED <<inbox, cut, rest, sent>>
  PROVE  /\ PartInv' /\ StreamInv'
         /\ handled' \in Seq(Frame) /\ recv'.part = "none" /\ recv'.got = <<>>
         /\ recv' \in [part : {"none", "length", "tag", "payload"}, got : Seq(Byte)]
<1> DEFINE x == Bytes(handled)
           m == Decoded(recv.got)
           t == inbox \o rest
<1>1. TypeOK /\ StreamInv
  BY DEF IInv
<1>2. /\ recv.got \in Seq(Byte) /\ recv.got \in Seq(Nat)
      /\ inbox \in Seq(Nat) /\ rest \in Seq(Nat) /\ x \in Seq(Nat)
      /\ handled \in Seq(Frame) /\ sent \in Seq(Frame)
  BY <1>1, StreamTypes
<1>3. Complete(recv.got)
  BY ReceivedWhole
<1>4. m \in Frame /\ Encoded(m) = recv.got
  BY <1>2, <1>3, EncodedDecoded
<1>5. recv'.part = "none" /\ recv'.got = <<>>
      /\ recv' \in [part : {"none", "length", "tag", "payload"}, got : Seq(Byte)]
  <2>1. <<>> \in Seq(Byte)
    OBVIOUS
  <2>   QED  BY <2>1 DEF NoRecv
<1>6. handled' \in Seq(Frame) /\ Bytes(handled') = x \o recv.got
  <2>1. Append(handled, m) \in Seq(Frame)
    BY <1>2, <1>4, AppendProperties
  <2>2. Bytes(Append(handled, m)) = x \o Encoded(m)
    BY <1>2, <1>4, BytesAppend
  <2>   QED  BY <1>4, <2>1, <2>2
<1>7. t \in Seq(Nat)
  BY <1>2, ConcatProperties
<1>8. x \o recv.got \o inbox \o rest = x \o (recv.got \o t)
  <2> DEFINE y == x \o recv.got
  <2>1. y \in Seq(Nat)
    BY <1>2, ConcatProperties
  <2> HIDE DEF y
  <2>2. (y \o inbox) \o rest = y \o t
    BY <1>2, <2>1, Grouped
  <2> HIDE DEF t, x
  <2>3. (x \o recv.got) \o t = x \o (recv.got \o t)
    BY <1>2, <1>7, Grouped
  <2>   QED  BY <2>2, <2>3 DEF y
<1>9. \A k \in 1..Len(sent) : Len(sent[k].payload) <= MaxPayload
  <2>1. SUFFICES ASSUME NEW k \in 1..Len(sent) PROVE Len(sent[k].payload) <= MaxPayload
    OBVIOUS
  <2>2. sent[k] \in Command
    BY <1>1 DEF TypeOK
  <2>3. sent[k].payload \in Seq(Byte)
    BY <2>2, ReceiveAssumption DEF Frame
  <2>4. Len(sent[k].payload) + 1 <= MaxPayload /\ Len(sent[k].payload) \in Nat
    BY <2>2, <2>3, ReceiveAssumption, LenProperties DEF Acceptable
  <2>   QED  BY <2>4, FrameAssumption
<1>10. ~cut => IsPrefix(Append(handled, m), sent)
  <2>1. SUFFICES ASSUME ~cut PROVE IsPrefix(Append(handled, m), sent)
    OBVIOUS
  <2>2. IsPrefix(handled, sent) /\ x \o recv.got \o inbox \o rest = Bytes(sent)
    BY <1>1, <2>1 DEF StreamInv
  <2>3. x \o (recv.got \o t) = Bytes(sent)
    BY <1>8, <2>2
  <2> HIDE DEF t
  <2>   QED  BY <1>2, <1>3, <1>7, <1>9, <2>2, <2>3, NextFrame
<1>11. (x \o recv.got) \o <<>> = x \o recv.got
  <2> DEFINE y == x \o recv.got
  <2>1. y \in Seq(Nat)
    BY <1>2, ConcatProperties
  <2> HIDE DEF y
  <2>2. y \o <<>> = y
    BY <2>1, ConcatEmptySeq
  <2>   QED  BY <2>2 DEF y
<1>12. StreamInv'
  <2> HIDE DEF m, t
  <2>1. Bytes(handled)' = Bytes(handled')
    BY DEF Bytes, Encoded, Header
  <2>2. SUFFICES ASSUME ~cut' PROVE IsPrefix(handled', sent')
            /\ Bytes(handled') \o recv'.got \o inbox' \o rest' = Bytes(sent')
    BY DEF StreamInv
  <2>3. x \o recv.got \o inbox \o rest = Bytes(sent)
    BY <1>1, <2>2 DEF StreamInv
  <2>   QED  BY <1>5, <1>6, <1>10, <1>11, <2>2, <2>3 DEF m
<1>13. PartInv'
  BY <1>5 DEF PartInv
<1>   QED  BY <1>5, <1>6, <1>12, <1>13

LEMMA ReceiveStep ==
  ASSUME IInv, Receive
  PROVE  IInv'
<1>1. TypeOK /\ StartInv
  BY DEF IInv
<1>2. Len(<<>>) = 0 /\ 0 <= LengthBytes + MaxPayload
  BY FrameAssumption DEF LengthBytes
<1>3. CASE RecvBytes
  BY <1>3, RecvBytesStep
<1>4. CASE RecvTimeout
  BY <1>4, RecvFailsStep DEF RecvTimeout
<1>5. CASE RecvClosed
  BY <1>5, RecvFailsStep DEF RecvClosed
<1>6. CASE RecvRefuses
  BY <1>6, RecvFailsStep DEF RecvRefuses
<1>7. CASE RecvNextPart
  BY <1>7, NextPartStep
<1>8. CASE HandshakeDone
  <2>1. /\ Received /\ recv' = NoRecv /\ handled' = Append(handled, Decoded(recv.got))
        /\ UNCHANGED <<tried, inbox, cut, flags, host>>
    BY <1>8 DEF HandshakeDone
  <2>2. UNCHANGED <<inbox, cut, rest, sent>>
    BY <2>1 DEF host
  <2>3. /\ PartInv' /\ StreamInv'
        /\ handled' \in Seq(Frame) /\ recv'.part = "none" /\ recv'.got = <<>>
        /\ recv' \in [part : {"none", "length", "tag", "payload"}, got : Seq(Byte)]
    BY <2>1, <2>2, HandledStep
  <2>4. reader = "off"
    BY <1>1, <1>8 DEF HandshakeDone, StartInv
  <2>5. \/ main' = "run" /\ reader' = "test" /\ heartbeat' = "on" /\ UNCHANGED code
        \/ main' = "exited" /\ code' = 3 /\ UNCHANGED <<reader, heartbeat>>
    BY <1>8 DEF HandshakeDone, Exit
  <2>6. TypeOK' /\ StartInv'
    <3>1. CASE main' = "run" /\ reader' = "test" /\ heartbeat' = "on" /\ UNCHANGED code
      BY <1>1, <1>2, <2>1, <2>3, <3>1 DEF TypeOK, StartInv, flags, host
    <3>2. CASE main' = "exited" /\ code' = 3 /\ UNCHANGED <<reader, heartbeat>>
      BY <1>1, <1>2, <2>1, <2>3, <2>4, <3>2 DEF TypeOK, StartInv, flags, host
    <3>   QED  BY <2>5, <3>1, <3>2
  <2>   QED  BY <2>3, <2>6 DEF IInv
<1>9. CASE TakeCommand
  <2>1. /\ Received /\ recv' = NoRecv /\ handled' = Append(handled, Decoded(recv.got))
        /\ UNCHANGED <<main, tried, code, heartbeat, inbox, cut, stopFlag, host>>
        /\ reader = "recv"
    BY <1>9 DEF TakeCommand
  <2>2. UNCHANGED <<inbox, cut, rest, sent>>
    BY <2>1 DEF host
  <2>3. /\ PartInv' /\ StreamInv'
        /\ handled' \in Seq(Frame) /\ recv'.part = "none" /\ recv'.got = <<>>
        /\ recv' \in [part : {"none", "length", "tag", "payload"}, got : Seq(Byte)]
    BY <2>1, <2>2, HandledStep
  <2>4. main \notin {"connect", "open", "hello", "ack"}
    BY <1>1, <2>1 DEF StartInv
  <2>5. reader' \in {"done", "busy"} /\ stopFromControl' \in BOOLEAN
    BY <1>1, <1>9 DEF TakeCommand, TypeOK, flags
  <2>6. TypeOK' /\ StartInv'
    BY <1>1, <1>2, <2>1, <2>3, <2>4, <2>5 DEF TypeOK, StartInv, flags, host
  <2>   QED  BY <2>3, <2>6 DEF IInv
<1>   QED  BY <1>3, <1>4, <1>5, <1>6, <1>7, <1>8, <1>9 DEF Receive

\* The reader begins its next Recv, or ends.
LEMMA ReaderTestStep ==
  ASSUME IInv, ReaderTest
  PROVE  IInv'
<1>1. TypeOK /\ PartInv /\ StartInv /\ StreamInv
  BY DEF IInv
<1>2. reader = "test" /\ UNCHANGED <<main, tried, code, heartbeat, inbox, handled, cut, flags, host>>
  BY DEF ReaderTest
<1>3. main \notin {"connect", "open", "hello", "ack"} /\ recv.part = "none" /\ recv.got = <<>>
  BY <1>1, <1>2 DEF TypeOK, StartInv, PartInv
<1>4. CASE Stopped
  <2>1. reader' = "done" /\ recv' = recv
    BY <1>4 DEF ReaderTest
  <2>2. TypeOK' /\ StartInv'
    BY <1>1, <1>2, <1>3, <2>1 DEF TypeOK, StartInv, flags, host
  <2>   QED  BY <1>2, <2>1, <2>2, Aside DEF IInv, host
<1>5. CASE ~Stopped
  <2>1. reader' = "recv" /\ recv' = [part |-> "length", got |-> <<>>]
    BY <1>5 DEF ReaderTest, NoRecv
  <2>2. Len(<<>>) = 0 /\ 0 <= LengthBytes + MaxPayload /\ <<>> \in Seq(Byte)
    BY FrameAssumption DEF LengthBytes
  <2>3. recv'.part = "length" /\ recv'.got = <<>>
        /\ recv' \in [part : {"none", "length", "tag", "payload"}, got : Seq(Byte)]
    BY <2>1, <2>2
  <2>4. TypeOK' /\ StartInv'
    BY <1>1, <1>2, <1>3, <2>1, <2>2, <2>3 DEF TypeOK, StartInv, flags, host
  <2>5. PartInv'
    BY <2>2, <2>3 DEF PartInv
  <2>6. StreamInv'
    BY <1>1, <1>2, <1>3, <2>3 DEF StreamInv, host
  <2>   QED  BY <2>4, <2>5, <2>6 DEF IInv
<1>   QED  BY <1>4, <1>5

LEMMA HeartbeatStep ==
  ASSUME IInv, HeartbeatEnds
  PROVE  IInv'
<1>1. TypeOK' /\ StartInv'
  BY DEF HeartbeatEnds, IInv, TypeOK, StartInv, input, flags, host
<1>   QED  BY <1>1, Aside DEF HeartbeatEnds, IInv, input, host

LEMMA StopSignalStep ==
  ASSUME IInv, HandleStopSignal
  PROVE  IInv'
<1>1. TypeOK /\ stopFlag' = TRUE
      /\ UNCHANGED <<main, tried, code, reader, heartbeat, input, stopFromControl, host>>
  BY DEF HandleStopSignal, IInv
<1>2. TypeOK'
  <2>1. stopFromControl \in BOOLEAN
    BY <1>1 DEF TypeOK, flags
  <2>2. flags' \in BOOLEAN \X BOOLEAN
    BY <1>1, <2>1 DEF flags
  <2>   QED  BY <1>1, <2>2 DEF TypeOK, input, host
<1>3. StartInv'
  BY DEF HandleStopSignal, IInv, StartInv
<1>   QED  BY <1>1, <1>2, <1>3, Aside DEF IInv, input, host

LEMMA ShutdownStep ==
  ASSUME IInv, Shutdown
  PROVE  IInv'
<1>1. CASE JoinHeartbeat
  <2>1. TypeOK' /\ StartInv'
    BY <1>1 DEF JoinHeartbeat, IInv, TypeOK, StartInv, input, flags, host
  <2>   QED  BY <1>1, <2>1, Aside DEF JoinHeartbeat, IInv, input, host
<1>2. CASE JoinReader
  <2>1. TypeOK' /\ StartInv'
    BY <1>2 DEF JoinReader, IInv, TypeOK, StartInv, input, flags, host
  <2>   QED  BY <1>2, <2>1, Aside DEF JoinReader, IInv, input, host
<1>3. CASE Close
  <2>1. TypeOK' /\ StartInv'
    BY <1>3 DEF Close, Exit, IInv, TypeOK, StartInv, input, flags, host
  <2>   QED  BY <1>3, <2>1, Aside DEF Close, IInv, input, host
<1>   QED  BY <1>1, <1>2, <1>3 DEF Shutdown

\* A command, the audio loop or the GUI thread lets go of its joiner.
LEMMA OutsideStep ==
  ASSUME IInv, Outside
  PROVE  IInv'
<1>1. TypeOK /\ StartInv
  BY DEF IInv
<1>2. CASE CommandDone
  <2>1. main \notin {"connect", "open", "hello", "ack"}
    BY <1>1, <1>2 DEF CommandDone, StartInv
  <2>2. TypeOK' /\ StartInv'
    BY <1>1, <1>2, <2>1 DEF CommandDone, TypeOK, StartInv, input, flags, host
  <2>   QED  BY <1>2, <2>2, Aside DEF CommandDone, IInv, input, host
<1>3. CASE AudioReturns
  <2>1. TypeOK' /\ StartInv'
    BY <1>1, <1>3 DEF AudioReturns, TypeOK, StartInv, input, flags, host
  <2>   QED  BY <1>3, <2>1, Aside DEF AudioReturns, IInv, input, host
<1>4. CASE StopGui
  <2>1. TypeOK' /\ StartInv'
    BY <1>1, <1>4 DEF StopGui, TypeOK, StartInv, input, flags, host
  <2>   QED  BY <1>4, <2>1, Aside DEF StopGui, IInv, input, host
<1>   QED  BY <1>2, <1>3, <1>4 DEF Outside

----------------------------------------------------------------------------
(* The host. *)

LEMMA HostBindStep ==
  ASSUME IInv, HostBind
  PROVE  IInv'
<1>1. TypeOK' /\ StartInv'
  BY DEF HostBind, IInv, TypeOK, StartInv, input, flags
<1>   QED  BY <1>1, Aside DEF HostBind, IInv, input

LEMMA HostCloseStep ==
  ASSUME IInv, HostClose
  PROVE  IInv'
<1>1. TypeOK' /\ StartInv'
  BY DEF HostClose, IInv, TypeOK, StartInv, input, flags
<1>   QED  BY <1>1, Aside DEF HostClose, IInv, input

\* A prefix stays one when the whole grows.
LEMMA PrefixGrows ==
  ASSUME NEW S, NEW s \in Seq(S), NEW t \in Seq(S), NEW e \in S, IsPrefix(s, t)
  PROVE  IsPrefix(s, Append(t, e))
<1> DEFINE more == Append(t, e)
<1>1. Len(s) \in Nat /\ Len(t) \in Nat /\ Len(s) <= Len(t)
      /\ SubSeq(s, 1, Len(s)) = SubSeq(t, 1, Len(s))
  BY DEF IsPrefix
<1>2. Len(more) = Len(t) + 1 /\ more = t \o <<e>> /\ <<e>> \in Seq(S)
  BY AppendProperties, AppendIsConcat
<1>3. SubSeq(more, 1, Len(s)) = SubSeq(t, 1, Len(s))
  <2>1. CASE Len(s) = 0
    <3>1. SubSeq(more, 1, 0) = <<>> /\ SubSeq(t, 1, 0) = <<>>
      BY SubSeqEmpty
    <3>   QED  BY <2>1, <3>1
  <2>2. CASE Len(s) # 0
    <3>1. 1 \in 1..Len(t) /\ Len(s) \in 1..Len(t)
      BY <1>1, <2>2
    <3>2. SubSeq(t \o <<e>>, 1, Len(s)) = SubSeq(t, 1, Len(s))
      BY <1>2, <3>1, SubSeqOfConcat1
    <3>   QED  BY <1>2, <3>2
  <2>   QED  BY <2>1, <2>2
<1> HIDE DEF more
<1>4. Len(s) <= Len(more)
  BY <1>1, <1>2
<1>5. IsPrefix(s, more)
  BY <1>1, <1>3, <1>4 DEF IsPrefix
<1>   QED  BY <1>5 DEF more

\* The host begins a frame when the last is written.
LEMMA HostBeginStep ==
  ASSUME IInv, HostBegin
  PROVE  IInv'
<1> DEFINE x == Bytes(handled)
           y == x \o recv.got \o inbox
<1>1. PICK f \in Command : rest' = Encoded(f) /\ sent' = Append(sent, f)
  BY DEF HostBegin
<1>2. rest = <<>> /\ UNCHANGED <<main, tried, code, reader, heartbeat, input, flags, peer>>
  BY DEF HostBegin
<1>3. TypeOK /\ PartInv /\ StartInv /\ StreamInv
  BY DEF IInv
<1>4. /\ recv.got \in Seq(Nat) /\ inbox \in Seq(Nat) /\ x \in Seq(Nat)
      /\ handled \in Seq(Frame) /\ sent \in Seq(Frame)
  BY <1>3, StreamTypes
<1>5. f \in Frame /\ Len(f.payload) <= MaxPayload
  <2>1. f \in Frame /\ f.payload \in Seq(Byte)
    BY ReceiveAssumption DEF Frame
  <2>2. Len(f.payload) + 1 <= MaxPayload /\ Len(f.payload) \in Nat
    BY <2>1, ReceiveAssumption, LenProperties DEF Acceptable
  <2>   QED  BY <2>1, <2>2, FrameAssumption
<1>6. rest' \in Seq(Byte) /\ sent' \in Seq(Command)
  <2>1. rest' \in Seq(Byte)
    BY <1>1, <1>5, FrameBytes
  <2>2. sent \in Seq(Command)
    BY <1>3 DEF TypeOK
  <2>   QED  BY <1>1, <2>1, <2>2, AppendProperties
<1>7. TypeOK' /\ StartInv'
  BY <1>2, <1>3, <1>6 DEF TypeOK, StartInv, input, flags
<1>8. PartInv'
  BY <1>2, <1>3 DEF PartInv, Acceptable, Length, input
<1>9. y \in Seq(Nat)
  <2> DEFINE z == x \o recv.got
  <2>1. z \in Seq(Nat)
    BY <1>4, ConcatProperties
  <2> HIDE DEF z
  <2>2. z \o inbox \in Seq(Nat)
    BY <1>4, <2>1, ConcatProperties
  <2>   QED  BY <2>2 DEF z
<1>10. StreamInv'
  <2>1. SUFFICES ASSUME ~cut PROVE StreamInv'
    BY <1>2 DEF StreamInv, input
  <2>2. IsPrefix(handled, sent) /\ y \o rest = Bytes(sent)
    BY <1>3, <2>1 DEF StreamInv
  <2>3. y \o rest = y
    <3> HIDE DEF y
    <3>   QED  BY <1>2, <1>9, ConcatEmptySeq
  <2>4. Bytes(sent') = Bytes(sent) \o Encoded(f)
    BY <1>1, <1>4, <1>5, BytesAppend
  <2>5. Bytes(sent') = y \o rest'
    BY <1>1, <2>2, <2>3, <2>4
  <2>6. IsPrefix(handled, sent')
    BY <1>1, <1>4, <1>5, <2>2, PrefixGrows
  <2>   QED  BY <1>2, <2>5, <2>6 DEF StreamInv, input
<1>   QED  BY <1>7, <1>8, <1>10 DEF IInv

\* The host writes a byte.
LEMMA HostWriteStep ==
  ASSUME IInv, HostWrite
  PROVE  IInv'
<1> DEFINE y    == Bytes(handled) \o recv.got
           one  == <<Head(rest)>>
           tail == Tail(rest)
           next == Append(inbox, Head(rest))
<1>1. rest # <<>> /\ inbox' = next /\ rest' = tail
      /\ UNCHANGED <<main, tried, code, reader, heartbeat, recv, handled, cut, flags, peer, sent>>
  BY DEF HostWrite
<1>2. TypeOK /\ PartInv /\ StartInv /\ StreamInv
  BY DEF IInv
<1>3. /\ recv.got \in Seq(Nat) /\ inbox \in Seq(Nat) /\ rest \in Seq(Nat)
      /\ Bytes(handled) \in Seq(Nat) /\ inbox \in Seq(Byte) /\ rest \in Seq(Byte)
  BY <1>2, StreamTypes
<1>4. one \in Seq(Nat) /\ tail \in Seq(Nat) /\ rest = one \o tail
  BY <1>1, <1>3, FirstApart
<1>5. Head(rest) \in Byte /\ tail \in Seq(Byte) /\ Head(rest) \in Nat
  BY <1>1, <1>3, HeadTailProperties
<1>6. next \in Seq(Byte) /\ next = inbox \o one
  BY <1>3, <1>5, AppendProperties, AppendIsConcat
<1>7. y \in Seq(Nat)
  BY <1>3, ConcatProperties
<1>8. TypeOK' /\ StartInv'
  BY <1>1, <1>2, <1>5, <1>6 DEF TypeOK, StartInv, flags
<1>9. PartInv'
  BY <1>1, <1>2 DEF PartInv, Acceptable, Length
<1>10. y \o next \o tail = y \o inbox \o rest
  <2> HIDE DEF y, one, tail, next
  <2>1. y \o (inbox \o one) = (y \o inbox) \o one
    BY <1>3, <1>4, <1>7, Grouped
  <2> DEFINE z == y \o inbox
  <2>2. z \in Seq(Nat)
    BY <1>3, <1>7, ConcatProperties
  <2> HIDE DEF z
  <2>3. (z \o one) \o tail = z \o (one \o tail)
    BY <1>4, <2>2, Grouped
  <2>   QED  BY <1>4, <1>6, <2>1, <2>3 DEF z
<1>11. StreamInv'
  BY <1>1, <1>2, <1>10 DEF StreamInv
<1>   QED  BY <1>8, <1>9, <1>11 DEF IInv

----------------------------------------------------------------------------
(* The theorems. *)

LEMMA Inductive ==
  ASSUME IInv, [Next]_vars
  PROVE  IInv'
<1>1. CASE Startup
  BY <1>1, StartupStep
<1>2. CASE Receive
  BY <1>2, ReceiveStep
<1>3. CASE ReaderTest
  BY <1>3, ReaderTestStep
<1>4. CASE HeartbeatEnds
  BY <1>4, HeartbeatStep
<1>5. CASE Shutdown
  BY <1>5, ShutdownStep
<1>6. CASE HandleStopSignal
  BY <1>6, StopSignalStep
<1>7. CASE HostBind
  BY <1>7, HostBindStep
<1>8. CASE HostBegin
  BY <1>8, HostBeginStep
<1>9. CASE HostWrite
  BY <1>9, HostWriteStep
<1>10. CASE HostClose
  BY <1>10, HostCloseStep
<1>11. CASE UNCHANGED vars
  <2>1. TypeOK' /\ StartInv'
    BY <1>11 DEF vars, IInv, TypeOK, StartInv, input, flags, host
  <2>   QED  BY <1>11, <2>1, Aside DEF vars, IInv, input, host
<1>12. CASE Outside
  BY <1>12, OutsideStep
<1>   QED  BY <1>1, <1>2, <1>3, <1>4, <1>5, <1>6, <1>7, <1>8, <1>9, <1>10, <1>11,
          <1>12 DEF Next

LEMMA Invariant == Spec => []IInv
BY Initially, Inductive, PTL DEF Spec

\* The stages of main, the reader, the heartbeat and a Recv stay those the
\* code has, and what a Recv has read fits the buffer of a frame.
THEOREM TypeCorrect == Spec => []TypeOK
<1>1. IInv => TypeOK
  BY DEF IInv
<1>   QED  BY <1>1, Invariant, PTL

\* The frames Recv returns are the host's, each once and in order, as long as
\* none of them gave up within a frame: whatever the frames, however the socket
\* cuts the stream, and wherever a Recv that had read nothing timed out
\* (ControlPipe::Recv, RecvAll).
THEOREM HandledAsSent == Spec => []FramesAsSent
<1>1. IInv => FramesAsSent
  BY DEF IInv, StreamInv, FramesAsSent
<1>   QED  BY <1>1, Invariant, PTL
=============================================================================
