------------------------ MODULE ControlFrameTheorems ------------------------
(***************************************************************************)
(* What the framing of the control socket promises, for every base and     *)
(* limit: a frame is what its bytes decode to, bytes that are complete are *)
(* those of what they decode to, and the bytes of a sequence of frames     *)
(* grow and split frame by frame.                                          *)
(*                                                                         *)
(* FlattenSeq is defined by recursion.  What is needed of it is proved by  *)
(* least counterexample.                                                   *)
(***************************************************************************)
EXTENDS ControlFrame, SequenceTheorems, WellFoundedInduction, TLAPS

\* A set of naturals has a least element.
LEMMA Least ==
  ASSUME NEW T \in SUBSET Nat, T # {}
  PROVE  \E n \in T : \A m \in T : ~(m < n)
<1> DEFINE R == {pair \in Nat \X Nat : pair[1] < pair[2]}
<1>1. IsWellFoundedOn(R, Nat)
  BY NatLessThanWellFounded, Zenon DEF OpToRel
<1> HIDE DEF R
<1>2. \E n \in T : \A m \in T : ~ (<<m, n>> \in R)
  BY <1>1, WFMin
<1>   QED  BY <1>2 DEF R

----------------------------------------------------------------------------
(* FlattenSeq. *)

\* f[n] is the first n of the sequences end to end.
Flattens(f, seqs) ==
  f = [i \in 1..Len(seqs) |-> IF i = 1 THEN seqs[i] ELSE f[i-1] \o seqs[i]]

\* Such a function exists, whatever the sequences are.
LEMMA FlattenExists ==
  ASSUME NEW seqs, NEW n \in Nat
  PROVE  \E f : f = [i \in 1..n |-> IF i = 1 THEN seqs[i] ELSE f[i-1] \o seqs[i]]
<1> DEFINE Exists(k) == \E f : f = [i \in 1..k |-> IF i = 1 THEN seqs[i] ELSE f[i-1] \o seqs[i]]
           T == {k \in Nat : ~Exists(k)}
<1>1. SUFFICES ASSUME T # {} PROVE FALSE
  OBVIOUS
<1>2. PICK k \in T : \A m \in T : ~(m < k)
  <2> HIDE DEF T
  <2>1. T \in SUBSET Nat
    BY DEF T
  <2>   QED  BY <1>1, <2>1, Least
<1>3. Exists(0)
  <2> DEFINE f == [i \in 1..0 |-> {}]
  <2>1. f = [i \in 1..0 |-> IF i = 1 THEN seqs[i] ELSE f[i-1] \o seqs[i]]
    OBVIOUS
  <2> HIDE DEF f
  <2>   QED  BY <2>1, Zenon
<1>4. k \in Nat \ {0} /\ k - 1 \in Nat /\ k - 1 < k
  <2>1. k \in Nat /\ ~Exists(k)
    BY <1>2
  <2> HIDE DEF Exists
  <2>2. k # 0
    BY <1>3, <2>1
  <2>   QED  BY <2>1, <2>2
<1>5. Exists(k - 1)
  <2>1. k - 1 \notin T
    BY <1>2, <1>4
  <2>   QED  BY <1>4, <2>1
<1>6. PICK g : g = [i \in 1..(k-1) |-> IF i = 1 THEN seqs[i] ELSE g[i-1] \o seqs[i]]
  BY <1>5
<1> DEFINE f == [i \in 1..k |->
                   IF i = k THEN (IF k = 1 THEN seqs[k] ELSE g[k-1] \o seqs[k]) ELSE g[i]]
<1>7. f = [i \in 1..k |-> IF i = 1 THEN seqs[i] ELSE f[i-1] \o seqs[i]]
  <2>1. ASSUME NEW i \in 1..k
        PROVE  f[i] = IF i = 1 THEN seqs[i] ELSE f[i-1] \o seqs[i]
    <3>1. CASE i = 1 /\ i = k
      BY <3>1
    <3>2. CASE i = 1 /\ i # k
      <4>1. i \in 1..(k-1)
        BY <1>4, <3>2
      <4>2. g[i] = seqs[i]
        BY <1>6, <3>2, <4>1
      <4>   QED  BY <3>2, <4>2
    <3>3. CASE i # 1 /\ i = k
      <4>1. i - 1 \in 1..k /\ i - 1 # k
        BY <1>4, <3>3
      <4>   QED  BY <3>3, <4>1
    <3>4. CASE i # 1 /\ i # k
      <4>1. i \in 1..(k-1) /\ i - 1 \in 1..(k-1) /\ i - 1 \in 1..k /\ i - 1 # k
        BY <1>4, <3>4
      <4>2. g[i] = g[i-1] \o seqs[i]
        BY <1>6, <3>4, <4>1
      <4>   QED  BY <3>4, <4>1, <4>2
    <3>   QED  BY <3>1, <3>2, <3>3, <3>4
  <2> HIDE DEF f
  <2>2. f = [i \in 1..k |-> f[i]]
    BY DEF f
  <2>   QED  BY <2>1, <2>2
<1> HIDE DEF f
<1>8. Exists(k)
  BY <1>7
<1>   QED  BY <1>2, <1>8

\* FlattenSeq takes the last value of it.
LEMMA FlattenIs ==
  ASSUME NEW S, NEW seqs \in Seq(S), seqs # <<>>
  PROVE  \E f : Flattens(f, seqs) /\ FlattenSeq(seqs) = f[Len(seqs)]
<1> DEFINE flatten == CHOOSE f : f = [i \in 1..Len(seqs) |->
                                        IF i = 1 THEN seqs[i] ELSE f[i-1] \o seqs[i]]
<1>1. Len(seqs) \in Nat /\ Len(seqs) # 0
  BY EmptySeq
<1>2. flatten = [i \in 1..Len(seqs) |-> IF i = 1 THEN seqs[i] ELSE flatten[i-1] \o seqs[i]]
  <2>1. \E f : f = [i \in 1..Len(seqs) |-> IF i = 1 THEN seqs[i] ELSE f[i-1] \o seqs[i]]
    BY <1>1, FlattenExists
  <2>   QED  BY <2>1, Zenon
<1>3. FlattenSeq(seqs) = flatten[Len(seqs)]
  BY <1>1, Zenon DEF FlattenSeq
<1> HIDE DEF flatten
<1>   QED  BY <1>2, <1>3 DEF Flattens

\* Nothing, end to end.
LEMMA FlattenNone == FlattenSeq(<<>>) = <<>>
BY DEF FlattenSeq

\* The values are sequences of what the parts are sequences of.
LEMMA FlattensTyped ==
  ASSUME NEW S, NEW seqs \in Seq(Seq(S)), NEW f, Flattens(f, seqs)
  PROVE  \A i \in 1..Len(seqs) : f[i] \in Seq(S)
<1> DEFINE T == {i \in 1..Len(seqs) : f[i] \notin Seq(S)}
<1>1. SUFFICES ASSUME T # {} PROVE FALSE
  OBVIOUS
<1>2. PICK i \in T : \A j \in T : ~(j < i)
  <2>1. T \in SUBSET Nat
    OBVIOUS
  <2> HIDE DEF T
  <2>   QED  BY <1>1, <2>1, Least
<1>3. i \in 1..Len(seqs) /\ f[i] \notin Seq(S) /\ seqs[i] \in Seq(S)
  BY <1>2
<1>4. f[i] = IF i = 1 THEN seqs[i] ELSE f[i-1] \o seqs[i]
  BY <1>3 DEF Flattens
<1>5. i # 1 /\ i - 1 \in 1..Len(seqs) /\ i - 1 < i
  BY <1>3, <1>4
<1>6. f[i-1] \in Seq(S)
  BY <1>2, <1>5
<1>   QED  BY <1>3, <1>4, <1>5, <1>6, ConcatProperties

\* One more sequence comes after the others.
LEMMA FlattenAppend ==
  ASSUME NEW S, NEW seqs \in Seq(Seq(S)), NEW last \in Seq(S)
  PROVE  /\ FlattenSeq(seqs) \in Seq(S)
         /\ FlattenSeq(Append(seqs, last)) = FlattenSeq(seqs) \o last
<1> DEFINE more == Append(seqs, last)
           n    == Len(seqs)
<1>1. /\ more \in Seq(Seq(S)) /\ more # <<>> /\ Len(more) = n + 1 /\ n \in Nat
      /\ \A i \in 1..n : more[i] = seqs[i]
      /\ more[n + 1] = last
  BY AppendProperties
<1> HIDE DEF more
<1>2. PICK g : Flattens(g, more) /\ FlattenSeq(more) = g[n + 1]
  BY <1>1, FlattenIs
<1>3. CASE seqs = <<>>
  <2>1. n = 0 /\ FlattenSeq(seqs) = <<>>
    BY <1>3, FlattenNone, EmptySeq
  <2>2. g[1] = last
    BY <1>1, <1>2, <2>1 DEF Flattens
  <2>   QED  BY <1>2, <2>1, <2>2, EmptySeq, ConcatEmptySeq DEF more
<1>4. CASE seqs # <<>>
  <2>1. n \in Nat \ {0}
    BY <1>4, EmptySeq
  <2>2. PICK f : Flattens(f, seqs) /\ FlattenSeq(seqs) = f[n]
    BY <1>4, FlattenIs
  <2>3. f[n] \in Seq(S)
    BY <2>1, <2>2, FlattensTyped
  <2> DEFINE T == {i \in 1..n : f[i] # g[i]}
  <2>4. T = {}
    <3>1. SUFFICES ASSUME T # {} PROVE FALSE
      OBVIOUS
    <3>2. PICK i \in T : \A j \in T : ~(j < i)
      <4>1. T \in SUBSET Nat
        OBVIOUS
      <4> HIDE DEF T
      <4>   QED  BY <3>1, <4>1, Least
    <3>3. i \in 1..n /\ i \in 1..(n + 1) /\ more[i] = seqs[i] /\ f[i] # g[i]
      BY <1>1, <3>2
    <3>4. /\ f[i] = IF i = 1 THEN seqs[i] ELSE f[i-1] \o seqs[i]
          /\ g[i] = IF i = 1 THEN seqs[i] ELSE g[i-1] \o seqs[i]
      BY <1>1, <1>2, <2>2, <3>3 DEF Flattens
    <3>5. i # 1 /\ i - 1 \in 1..n /\ i - 1 < i
      BY <3>3, <3>4
    <3>6. f[i-1] = g[i-1]
      BY <3>2, <3>5
    <3>   QED  BY <3>3, <3>4, <3>6
  <2>5. g[n + 1] = g[n] \o last
    <3>1. n + 1 \in 1..Len(more) /\ n + 1 # 1 /\ (n + 1) - 1 = n
      BY <1>1, <2>1
    <3>   QED  BY <1>1, <1>2, <3>1 DEF Flattens
  <2>6. g[n] = f[n]
    BY <2>1, <2>4
  <2>   QED  BY <1>2, <2>2, <2>3, <2>5, <2>6 DEF more
<1>   QED  BY <1>3, <1>4

\* One sequence, and two.
LEMMA FlattenOneTwo ==
  ASSUME NEW S, NEW seqs \in Seq(S), Len(seqs) \in {1, 2}
  PROVE  FlattenSeq(seqs) = IF Len(seqs) = 1 THEN seqs[1] ELSE seqs[1] \o seqs[2]
<1>1. seqs # <<>>
  BY EmptySeq
<1>2. PICK f : Flattens(f, seqs) /\ FlattenSeq(seqs) = f[Len(seqs)]
  BY <1>1, FlattenIs
<1>3. f[1] = seqs[1]
  BY <1>2 DEF Flattens
<1>4. CASE Len(seqs) = 2
  <2>1. 2 \in 1..Len(seqs) /\ 2 # 1 /\ 2 - 1 = 1
    BY <1>4
  <2>2. f[2] = f[2 - 1] \o seqs[2]
    BY <1>2, <2>1 DEF Flattens
  <2>   QED  BY <1>2, <1>3, <1>4, <2>1, <2>2
<1>   QED  BY <1>2, <1>3, <1>4

----------------------------------------------------------------------------
(* Frames. *)

\* A number is its quotient times n plus its remainder.
LEMMA Division ==
  ASSUME NEW a \in Nat, NEW n \in Nat \ {0}
  PROVE  /\ a \div n \in Nat /\ a % n \in 0 .. n - 1
         /\ a = n * (a \div n) + (a % n)
BY Z3

\* Products of naturals are naturals.
LEMMA NaturalProduct ==
  ASSUME NEW a \in Nat, NEW b \in Nat
  PROVE  a * b \in Nat
OBVIOUS

\* A quotient below n.
LEMMA SmallQuotient ==
  ASSUME NEW q \in Nat, NEW n \in Nat \ {0}, NEW a \in Nat, n * q <= a, a < n * n
  PROVE  q < n
<1>1. SUFFICES ASSUME q >= n PROVE FALSE
  OBVIOUS
<1>2. n * q >= n * n
  BY <1>1, Z3
<1> QED  BY <1>2, Z3

\* The quotient and the remainder are the only ones.
LEMMA DivisionUnique ==
  ASSUME NEW n \in Nat \ {0}, NEW q \in Nat, NEW r \in 0 .. n - 1
  PROVE  (r + n * q) % n = r /\ (r + n * q) \div n = q
<1> DEFINE a == r + n * q
           d == a \div n
           m == a % n
<1>1. a \in Nat /\ d \in Nat /\ m \in 0 .. n - 1 /\ a = n * d + m
  <2>1. a \in Nat
    BY NaturalProduct
  <2> HIDE DEF a
  <2>   QED  BY <2>1, Division
<1>2. n * (q - d) = m - r
  BY <1>1
<1>3. q - d = 0
  <2> DEFINE e == q - d
  <2>1. e \in Int /\ -n < n * e /\ n * e < n
    BY <1>1, <1>2
  <2> HIDE DEF e
  <2>2. CASE e >= 1
    <3>1. n * e >= n  BY <2>1, <2>2, Z3
    <3>   QED  BY <2>1, <3>1
  <2>3. CASE e <= -1
    <3>1. n * e <= -n  BY <2>1, <2>3, Z3
    <3>   QED  BY <2>1, <3>1
  <2>   QED  BY <2>1, <2>2, <2>3 DEF e
<1>   QED  BY <1>1, <1>2, <1>3

\* A frame within the limit has bytes, three of them before the payload.
LEMMA FrameBytes ==
  ASSUME NEW m \in Frame, Len(m.payload) <= MaxPayload
  PROVE  /\ m.payload \in Seq(Byte)
         /\ Header(m) \in Seq(Byte) /\ Header(m) # <<>>
         /\ Encoded(m) \in Seq(Byte) /\ Len(Encoded(m)) \in Nat \ {0}
         /\ Len(Encoded(m)) = 3 + Len(m.payload) /\ Len(Header(m)) = 3
<1> DEFINE length == Len(m.payload) + 1
<1>1. m.payload \in Seq(Byte) /\ m.tag \in Byte
  BY DEF Frame
<1>2. length \in Nat /\ Base \in Nat \ {0} /\ length < Base * Base
  <2>1. Len(m.payload) \in Nat
    BY <1>1
  <2>2. Base * Base \in Nat
    BY FrameAssumption
  <2> QED  BY <2>1, <2>2, FrameAssumption
<1>3. /\ length \div Base \in Nat /\ length % Base \in 0 .. Base - 1
      /\ length = Base * (length \div Base) + (length % Base)
  <2> HIDE DEF length
  <2> QED  BY <1>2, Division
<1>4. Base * (length \div Base) <= length
  <2> DEFINE product == Base * (length \div Base)
  <2>1. product \in Nat
    BY <1>2, <1>3, NaturalProduct
  <2> HIDE DEF product, length
  <2>2. length = product + (length % Base)
    BY <1>3 DEF product
  <2>3. product <= length
    BY <1>2, <1>3, <2>1, <2>2
  <2> QED  BY <2>3 DEF product
<1>5. length \div Base < Base
  <2> HIDE DEF length
  <2> QED  BY <1>2, <1>3, <1>4, SmallQuotient
<1>6. Header(m) = <<length % Base, length \div Base, m.tag>>
  BY DEF Header
<1>7. length % Base \in Byte /\ length \div Base \in Byte
  <2> HIDE DEF length
  <2> QED  BY <1>2, <1>3, <1>5 DEF Byte
<1>8. Header(m) \in Seq(Byte) /\ Len(Header(m)) = 3
  <2> HIDE DEF length
  <2> QED  BY <1>1, <1>6, <1>7
<1>9. Header(m) # <<>>
  BY <1>8
<1>10. Encoded(m) \in Seq(Byte) /\ Len(Encoded(m)) = 3 + Len(m.payload)
  <2> HIDE DEF length
  <2>1. /\ Header(m) \o m.payload \in Seq(Byte)
        /\ Len(Header(m) \o m.payload) = Len(Header(m)) + Len(m.payload)
    BY <1>1, <1>8, ConcatProperties
  <2> QED  BY <1>8, <2>1 DEF Encoded
<1> QED  BY <1>1, <1>8, <1>9, <1>10

\* What Recv and the host read in the first bytes is the length Send wrote.
LEMMA FrameFront ==
  ASSUME NEW m \in Frame, Len(m.payload) <= MaxPayload
  PROVE  /\ Encoded(m)[1] = (Len(m.payload) + 1) % Base
         /\ Encoded(m)[2] = (Len(m.payload) + 1) \div Base
         /\ Encoded(m)[3] = m.tag
         /\ Length(Encoded(m)) = Len(m.payload) + 1
         /\ SubSeq(Encoded(m), 4, Len(Encoded(m))) = m.payload
<1> DEFINE length == Len(m.payload) + 1
           bytes  == Encoded(m)
<1>1. /\ m.payload \in Seq(Byte) /\ Header(m) \in Seq(Byte) /\ Len(Header(m)) = 3
      /\ bytes \in Seq(Byte) /\ Len(bytes) = 3 + Len(m.payload)
  BY FrameBytes
<1>2. length \in Nat /\ Base \in Nat \ {0} /\ Len(m.payload) \in Nat
  BY <1>1, FrameAssumption
<1>3. Header(m) = <<length % Base, length \div Base, m.tag>>
  BY DEF Header
<1>4. \A i \in 1 .. 3 + Len(m.payload) :
        bytes[i] = IF i <= 3 THEN Header(m)[i] ELSE m.payload[i - 3]
  BY <1>1, ConcatProperties DEF Encoded
<1> HIDE DEF length, bytes
<1>5. bytes[1] = length % Base /\ bytes[2] = length \div Base /\ bytes[3] = m.tag
  BY <1>2, <1>3, <1>4
<1>6. Length(bytes) = length
  <2>1. /\ length \div Base \in Nat /\ length % Base \in 0 .. Base - 1
        /\ length = Base * (length \div Base) + (length % Base)
    BY <1>2, Division
  <2>2. Length(bytes) = (length % Base) + Base * (length \div Base)
    BY <1>5 DEF Length
  <2> DEFINE product == Base * (length \div Base)
  <2>3. product \in Nat
    BY <1>2, <2>1, NaturalProduct
  <2> HIDE DEF product
  <2>4. length = product + (length % Base) /\ Length(bytes) = (length % Base) + product
    BY <2>1, <2>2 DEF product
  <2>   QED  BY <1>2, <2>1, <2>3, <2>4
<1>7. SubSeq(bytes, 4, Len(bytes)) = m.payload
  <2> DEFINE s == SubSeq(bytes, 4, Len(bytes))
  <2>1. /\ s \in Seq(Byte) /\ Len(s) = Len(m.payload)
        /\ \A i \in 1 .. Len(m.payload) : s[i] = bytes[4 + i - 1]
    <3>1. \A i \in 4 .. Len(bytes) : bytes[i] \in Byte
      BY <1>1
    <3>2. /\ s \in Seq(Byte) /\ Len(s) = IF 4 <= Len(bytes) THEN Len(bytes) - 4 + 1 ELSE 0
          /\ \A i \in 1 .. Len(bytes) - 4 + 1 : s[i] = bytes[4 + i - 1]
      BY <1>1, <1>2, <3>1, SubSeqProperties
    <3> HIDE DEF s
    <3>   QED  BY <1>1, <1>2, <3>2
  <2> HIDE DEF s
  <2>2. \A i \in 1 .. Len(m.payload) : s[i] = m.payload[i]
    <3> TAKE i \in 1 .. Len(m.payload)
    <3>1. 4 + i - 1 \in 1 .. 3 + Len(m.payload) /\ ~(4 + i - 1 <= 3) /\ (4 + i - 1) - 3 = i
      BY <1>2
    <3>   QED  BY <1>4, <2>1, <3>1
  <2>3. s = m.payload
    BY <1>1, <2>1, <2>2, SeqEqual
  <2>   QED  BY <2>3 DEF s
<1>   QED  BY <1>5, <1>6, <1>7 DEF bytes, length

\* A frame is what its bytes decode to.
LEMMA DecodedEncoded ==
  ASSUME NEW m \in Frame, Len(m.payload) <= MaxPayload
  PROVE  Decoded(Encoded(m)) = m
<1> DEFINE bytes == Encoded(m)
<1>1. bytes[3] = m.tag /\ SubSeq(bytes, 4, Len(bytes)) = m.payload
  BY FrameFront
<1> HIDE DEF bytes
<1>2. Decoded(bytes) = [tag |-> bytes[3], payload |-> SubSeq(bytes, 4, Len(bytes))]
  BY DEF Decoded, LengthBytes
<1>3. Decoded(bytes) = [tag |-> m.tag, payload |-> m.payload]
  BY <1>1, <1>2
<1>   QED  BY <1>3 DEF Frame, bytes

\* Bytes that are as many as they announce are those of what they decode to.
LEMMA EncodedDecoded ==
  ASSUME NEW bytes \in Seq(Byte), Complete(bytes)
  PROVE  Decoded(bytes) \in Frame /\ Encoded(Decoded(bytes)) = bytes
<1> DEFINE n == Len(bytes)
           s == SubSeq(bytes, 4, n)
           m == Decoded(bytes)
<1>1. n \in Nat /\ n >= 3 /\ n = 2 + Length(bytes)
  BY DEF Complete, LengthBytes
<1>2. bytes[1] \in Byte /\ bytes[2] \in Byte /\ bytes[3] \in Byte
  BY <1>1
<1>3. /\ s \in Seq(Byte) /\ Len(s) = n - 3
      /\ \A i \in 1 .. n - 3 : s[i] = bytes[4 + i - 1]
  <2>1. \A i \in 4 .. n : bytes[i] \in Byte
    BY <1>1
  <2>2. /\ s \in Seq(Byte) /\ Len(s) = IF 4 <= n THEN n - 4 + 1 ELSE 0
        /\ \A i \in 1 .. n - 4 + 1 : s[i] = bytes[4 + i - 1]
    BY <1>1, <2>1, SubSeqProperties
  <2> HIDE DEF s, n
  <2>   QED  BY <1>1, <2>2
<1>4. m = [tag |-> bytes[3], payload |-> s]
  BY DEF Decoded, LengthBytes
<1> HIDE DEF n, s, m
<1>5. m \in Frame /\ m.tag = bytes[3] /\ m.payload = s
  BY <1>2, <1>3, <1>4 DEF Frame
<1>6. Len(m.payload) + 1 = bytes[1] + Base * bytes[2]
  <2>1. Len(m.payload) + 1 = Length(bytes)
    <3>1. Length(bytes) = n - 2
      <4>1. Base * bytes[2] \in Nat
        BY <1>2, FrameAssumption, NaturalProduct DEF Byte
      <4>2. Length(bytes) \in Nat
        BY <1>2, <4>1, FrameAssumption DEF Byte, Length
      <4>   QED  BY <1>1, <4>2
    <3>   QED  BY <1>1, <1>3, <1>5, <3>1
  <2>   QED  BY <2>1 DEF Length
<1>7. Header(m) = <<bytes[1], bytes[2], bytes[3]>>
  <2>1. /\ Base \in Nat \ {0} /\ bytes[1] \in 0 .. Base - 1 /\ bytes[2] \in Nat
    BY <1>2, FrameAssumption DEF Byte
  <2>2. /\ (Len(m.payload) + 1) % Base = bytes[1]
        /\ (Len(m.payload) + 1) \div Base = bytes[2]
    BY <1>6, <2>1, DivisionUnique
  <2>   QED  BY <1>5, <2>2 DEF Header
<1>8. Encoded(m) = bytes
  <2> DEFINE h == Header(m)
             e == Encoded(m)
  <2>1. h \in Seq(Byte) /\ Len(h) = 3 /\ h[1] = bytes[1] /\ h[2] = bytes[2] /\ h[3] = bytes[3]
    BY <1>2, <1>7
  <2>2. e = h \o s
    BY <1>5 DEF Encoded
  <2> HIDE DEF h, e
  <2>3. /\ e \in Seq(Byte) /\ Len(e) = n
        /\ \A i \in 1 .. n : e[i] = IF i <= 3 THEN h[i] ELSE s[i - 3]
    <3>1. /\ e \in Seq(Byte) /\ Len(e) = Len(h) + Len(s)
          /\ \A i \in 1 .. Len(h) + Len(s) : e[i] = IF i <= Len(h) THEN h[i] ELSE s[i - Len(h)]
      BY <1>3, <2>1, <2>2, ConcatProperties
    <3>2. Len(h) + Len(s) = n /\ Len(h) = 3
      BY <1>1, <1>3, <2>1
    <3>   QED  BY <3>1, <3>2
  <2>4. \A i \in 1 .. n : e[i] = bytes[i]
    <3> TAKE i \in 1 .. n
    <3>1. CASE i <= 3
      <4>1. i = 1 \/ i = 2 \/ i = 3
        BY <1>1, <3>1
      <4>   QED  BY <2>1, <2>3, <3>1, <4>1
    <3>2. CASE ~(i <= 3)
      <4>1. i - 3 \in 1 .. n - 3 /\ 4 + (i - 3) - 1 = i
        BY <1>1, <3>2
      <4>2. s[i - 3] = bytes[i]
        BY <1>3, <4>1
      <4>   QED  BY <2>3, <3>2, <4>2
    <3>   QED  BY <3>1, <3>2
  <2>5. e = bytes
    BY <2>3, <2>4, SeqEqual DEF n
  <2>   QED  BY <2>5 DEF e
<1>   QED  BY <1>5, <1>8 DEF m

----------------------------------------------------------------------------
\* Sequences end to end, grouped either way.
LEMMA Grouped ==
  ASSUME NEW a \in Seq(Nat), NEW b \in Seq(Nat), NEW c \in Seq(Nat)
  PROVE  (a \o b) \o c = a \o (b \o c)
BY ConcatAssociative

\* A sequence is its first element before the others.
LEMMA FirstApart ==
  ASSUME NEW s \in Seq(Nat), s # <<>>
  PROVE  <<Head(s)>> \in Seq(Nat) /\ Tail(s) \in Seq(Nat) /\ s = <<Head(s)>> \o Tail(s)
<1> DEFINE one  == <<Head(s)>>
           rest == Tail(s)
<1>1. Head(s) \in Nat /\ rest \in Seq(Nat) /\ Len(rest) = Len(s) - 1
      /\ \A i \in 1..Len(rest) : rest[i] = s[i + 1]
  BY HeadTailProperties
<1>2. one \in Seq(Nat) /\ Len(one) = 1 /\ one[1] = s[1]
  BY <1>1
<1>3. Len(s) \in Nat
  OBVIOUS
<1> HIDE DEF one, rest
<1> DEFINE both == one \o rest
<1>4. /\ both \in Seq(Nat) /\ Len(both) = Len(one) + Len(rest)
      /\ \A i \in 1..Len(one) + Len(rest) :
           both[i] = IF i <= Len(one) THEN one[i] ELSE rest[i - Len(one)]
  <2>1. one \in Seq(Nat) /\ rest \in Seq(Nat)
    BY <1>1, <1>2
  <2>   QED  BY <2>1, ConcatProperties
<1> HIDE DEF both
<1>5. Len(both) = Len(s) /\ Len(one) + Len(rest) = Len(s)
  BY <1>1, <1>2, <1>3, <1>4
<1>6. \A i \in 1..Len(s) : both[i] = s[i]
  <2> TAKE i \in 1..Len(s)
  <2>1. CASE i = 1
    BY <1>2, <1>4, <1>5, <2>1
  <2>2. CASE i # 1
    <3>1. i - 1 \in 1..Len(rest) /\ ~(i <= 1) /\ (i - 1) + 1 = i
      BY <1>1, <1>3, <2>2
    <3>   QED  BY <1>1, <1>2, <1>4, <1>5, <3>1
  <2>   QED  BY <2>1, <2>2
<1>7. both = s
  BY <1>3, <1>4, <1>5, <1>6, SeqEqual
<1>   QED  BY <1>1, <1>2, <1>7 DEF one, rest, both

\* A sequence begins with what it was put together from.
LEMMA FrontOfConcat ==
  ASSUME NEW x \in Seq(Nat), NEW y \in Seq(Nat)
  PROVE  \A i \in 1..Len(x) : (x \o y)[i] = x[i]
<1>1. /\ Len(x \o y) = Len(x) + Len(y)
      /\ \A i \in 1 .. Len(x) + Len(y) :
           (x \o y)[i] = IF i <= Len(x) THEN x[i] ELSE y[i - Len(x)]
  BY ConcatProperties
<1>2. Len(x) \in Nat /\ Len(y) \in Nat
  BY LenProperties
<1>3. ASSUME NEW i \in 1..Len(x)
      PROVE  i \in 1 .. Len(x) + Len(y) /\ i <= Len(x)
  BY <1>2
<1>   QED  BY <1>1, <1>3

----------------------------------------------------------------------------
(* Sequences of frames. *)

LEMMA BytesNone == Bytes(<<>>) = <<>>
<1>1. [k \in DOMAIN <<>> |-> Encoded(<<>>[k])] = <<>>
  OBVIOUS
<1>   QED  BY <1>1, FlattenNone, Zenon DEF Bytes

\* Whatever a frame is, its bytes are numbers.
LEMMA EncodedNumbers ==
  ASSUME NEW m \in Frame
  PROVE  Encoded(m) \in Seq(Nat)
<1> DEFINE length == Len(m.payload) + 1
<1>1. m.payload \in Seq(Byte) /\ m.tag \in Nat /\ Byte \subseteq Nat /\ Base \in Nat \ {0}
  BY FrameAssumption DEF Frame, Byte
<1>2. m.payload \in Seq(Nat)
  BY <1>1, SeqMonotonic
<1>3. length \in Nat
  BY <1>1
<1>4. length \div Base \in Nat /\ length % Base \in Nat
  <2> HIDE DEF length
  <2>1. length \div Base \in Nat /\ length % Base \in 0 .. Base - 1
    BY <1>1, <1>3, Division
  <2>   QED  BY <1>1, <2>1
<1>5. Header(m) = <<length % Base, length \div Base, m.tag>>
  BY DEF Header
<1> HIDE DEF length
<1>6. Header(m) \in Seq(Nat)
  BY <1>1, <1>4, <1>5
<1>   QED  BY <1>2, <1>6, ConcatProperties DEF Encoded

\* A frame more, and its bytes come after the others.
LEMMA BytesAppend ==
  ASSUME NEW frames \in Seq(Frame), NEW m \in Frame
  PROVE  /\ Bytes(frames) \in Seq(Nat)
         /\ Bytes(Append(frames, m)) = Bytes(frames) \o Encoded(m)
<1> DEFINE n     == Len(frames)
           more  == Append(frames, m)
           parts == [k \in 1..n |-> Encoded(frames[k])]
           all   == [k \in 1..(n + 1) |-> Encoded(more[k])]
<1>1. n \in Nat /\ DOMAIN frames = 1..n
  BY LenProperties
<1>2. /\ more \in Seq(Frame) /\ Len(more) = n + 1
      /\ \A k \in 1..n : more[k] = frames[k]
      /\ more[n + 1] = m
  BY AppendProperties
<1>3. DOMAIN more = 1..(n + 1)
  BY <1>2, LenProperties
<1>4. parts \in Seq(Seq(Nat)) /\ Len(parts) = n
  BY <1>1, EncodedNumbers
<1> HIDE DEF more
<1>5. all = Append(parts, Encoded(m))
  <2> DEFINE longer == Append(parts, Encoded(m))
  <2>1. /\ longer \in Seq(Seq(Nat)) /\ Len(longer) = n + 1
        /\ \A k \in 1..n : longer[k] = parts[k]
        /\ longer[n + 1] = Encoded(m)
    BY <1>4, EncodedNumbers, AppendProperties
  <2>2. \A k \in 1..(n + 1) : all[k] = longer[k] /\ all[k] \in Seq(Nat)
    <3> TAKE k \in 1..(n + 1)
    <3>1. CASE k \in 1..n
      BY <1>2, <2>1, <3>1, EncodedNumbers
    <3>2. CASE k = n + 1
      BY <1>2, <2>1, <3>2, EncodedNumbers
    <3>   QED  BY <1>1, <3>1, <3>2
  <2>3. all \in Seq(Seq(Nat)) /\ Len(all) = n + 1
    BY <1>1, <2>2
  <2> HIDE DEF longer, all
  <2>4. all = longer
    BY <2>1, <2>2, <2>3, SeqEqual
  <2>   QED  BY <2>4 DEF longer
<1>6. Bytes(frames) = FlattenSeq(parts)
  BY <1>1 DEF Bytes
<1>7. Bytes(more) = FlattenSeq(all)
  BY <1>3 DEF Bytes
<1> HIDE DEF parts, all
<1>   QED  BY <1>4, <1>5, <1>6, <1>7, EncodedNumbers, FlattenAppend DEF more

\* So are those of any frames.
LEMMA BytesNumbers ==
  ASSUME NEW frames \in Seq(Frame)
  PROVE  Bytes(frames) \in Seq(Nat)
<1>1. [tag |-> 0, payload |-> <<>>] \in Frame
  BY FrameAssumption DEF Frame, Byte
<1>   QED  BY <1>1, BytesAppend
=============================================================================
