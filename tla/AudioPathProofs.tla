-------------------------- MODULE AudioPathProofs --------------------------
(***************************************************************************)
(* Theorems about the audio data plane, for every slot count, counter      *)
(* width, semaphore limit and set of blocks.                               *)
(*                                                                         *)
(* The ring comes first, for every counter width that is a multiple of the *)
(* slot count (2^64 and a power of two in the code): the uint64 arithmetic *)
(* of head and tail counts blocks correctly across wrap-around, and no two *)
(* live counters share a slot.                                             *)
(***************************************************************************)
EXTENDS AudioPath, SequenceTheorems, TLAPS

----------------------------------------------------------------------------
(* Division with remainder. *)

\* A multiple of n strictly between -n and n is zero.
LEMMA SmallMultiple ==
  ASSUME NEW n \in Nat \ {0}, NEW d \in Int, -n < n * d, n * d < n
  PROVE  d = 0
<1>1. CASE d >= 1
  <2>1. n * d >= n  BY <1>1, Z3
  <2>   QED  BY <2>1
<1>2. CASE d <= -1
  <2>1. n * d <= -n  BY <1>2, Z3
  <2>   QED  BY <2>1
<1> QED  BY <1>1, <1>2

\* a is its quotient times n plus its remainder.
LEMMA DivMod ==
  ASSUME NEW n \in Nat \ {0}, NEW a \in Int
  PROVE  /\ a \div n \in Int
         /\ a % n \in 0 .. n - 1
         /\ a = n * (a \div n) + (a % n)
BY Z3

\* The remainder is the only one in range.
LEMMA ModUnique ==
  ASSUME NEW n \in Nat \ {0}, NEW q \in Int, NEW r \in 0 .. n - 1
  PROVE  (n * q + r) % n = r
<1> DEFINE a == n * q + r
           d == a \div n
           m == a % n
<1>1. a \in Int /\ d \in Int /\ m \in 0 .. n - 1 /\ a = n * d + m
  BY DivMod
<1>2. n * (q - d) = m - r
  BY <1>1
<1>3. q - d = 0
  BY <1>1, <1>2, SmallMultiple
<1> QED  BY <1>1, <1>3

\* Numbers with one remainder differ by a multiple; close ones are equal.
LEMMA ModInjective ==
  ASSUME NEW n \in Nat \ {0}, NEW a \in Int, NEW b \in Int,
         a % n = b % n, -n < a - b, a - b < n
  PROVE  a = b
<1> DEFINE qa == a \div n
           qb == b \div n
<1>1. qa \in Int /\ qb \in Int /\ a = n * qa + (a % n) /\ b = n * qb + (b % n)
  BY DivMod
<1>2. a % n \in Int /\ b % n \in Int
  BY DivMod
<1>3. a - b = n * (qa - qb)
  BY <1>1, <1>2
<1>4. qa - qb = 0
  BY <1>1, <1>3, SmallMultiple
<1> QED  BY <1>1, <1>2, <1>4

\* Products regroup.
LEMMA Regroup ==
  ASSUME NEW k \in Int, NEW n \in Int, NEW p \in Int
  PROVE  (k * n) * p = n * (k * p)
BY Z3

\* Reducing modulo a multiple of n first changes nothing modulo n.
LEMMA ModMod ==
  ASSUME NEW n \in Nat \ {0}, NEW k \in Nat \ {0}, NEW w \in Nat \ {0}, w = k * n,
         NEW a \in Int
  PROVE  (a % w) % n = a % n
<1>1. PICK p \in Int : p = a \div w
  BY DivMod
<1>2. a % w \in 0 .. w - 1 /\ a = w * p + (a % w)
  BY <1>1, DivMod
<1>3. PICK q \in Int : q = a \div n
  BY DivMod
<1>4. a % n \in 0 .. n - 1 /\ a = n * q + (a % n)
  BY <1>3, DivMod
<1>5. PICK c \in Int : c = k * p
  OBVIOUS
<1>6. w * p = n * c
  BY <1>5, Regroup
<1>7. a % w = n * (q - c) + (a % n)
  BY <1>2, <1>4, <1>6
<1>8. (n * (q - c) + (a % n)) % n = a % n
  BY <1>4, ModUnique
<1> QED  BY <1>7, <1>8

----------------------------------------------------------------------------
(* Counters. *)

\* RingAssumption in the form the arithmetic needs: Wrap is a multiple of
\* SlotCount, and larger.
LEMMA WrapFacts ==
  /\ SlotCount \in Nat \ {0}
  /\ Wrap \in Nat \ {0}
  /\ SlotCount < Wrap
  /\ \E rounds \in Nat \ {0} : Wrap = rounds * SlotCount
<1>1. PICK rounds \in 2 .. Wrap : Wrap = rounds * SlotCount
  BY RingAssumption
<1>2. SlotCount \in Nat \ {0} /\ Wrap \in Nat /\ rounds \in Nat
  BY RingAssumption, <1>1
<1>3. rounds * SlotCount >= SlotCount + SlotCount
  BY <1>1, <1>2, Z3
<1> QED  BY <1>1, <1>2, <1>3

\* Counters and slots are closed under the ring's arithmetic.
LEMMA CounterTypes ==
  ASSUME NEW a \in Int
  PROVE  /\ a % Wrap \in Counter
         /\ a \in Counter => SlotAt(a) \in Slot /\ Advance(a) \in Counter
         /\ a \in Counter => a % Wrap = a
<1>1. \A b \in Int : b % Wrap \in Counter /\ b % SlotCount \in Slot
  BY WrapFacts, DivMod DEF Counter, Slot
<1>2. a \in Counter => a % Wrap = a
  BY WrapFacts, ModUnique, Wrap * 0 + a = a DEF Counter
<1> QED  BY <1>1, <1>2 DEF SlotAt, Advance, Counter

\* The distance between two counters, without the modulo.
LEMMA DistanceCases ==
  ASSUME NEW h \in Counter, NEW t \in Counter
  PROVE  (h - t) % Wrap = IF t <= h THEN h - t ELSE h - t + Wrap
<1>1. h \in Int /\ t \in Int /\ Wrap \in Nat \ {0}
  BY WrapFacts DEF Counter
<1>2. CASE t <= h
  <2>1. h - t \in 0 .. Wrap - 1 /\ Wrap * 0 + (h - t) = h - t
    BY <1>1, <1>2 DEF Counter
  <2>   QED  BY <1>1, <1>2, <2>1, ModUnique
<1>3. CASE h < t
  <2>1. h - t + Wrap \in 0 .. Wrap - 1 /\ Wrap * (-1) + (h - t + Wrap) = h - t
    BY <1>1, <1>3 DEF Counter
  <2>2. (Wrap * (-1) + (h - t + Wrap)) % Wrap = h - t + Wrap
    BY <1>1, <2>1, ModUnique
  <2>   QED  BY <1>1, <1>3, <2>1, <2>2
<1> QED  BY <1>1, <1>2, <1>3

\* A counter moved forward by less than Wrap, without the modulo.
LEMMA ForwardCases ==
  ASSUME NEW t \in Counter, NEW k \in 0 .. Wrap
  PROVE  (t + k) % Wrap = IF t + k < Wrap THEN t + k ELSE t + k - Wrap
<1>1. t \in Int /\ k \in Int /\ Wrap \in Nat \ {0}
  BY WrapFacts DEF Counter
<1>2. CASE t + k < Wrap
  <2>1. t + k \in 0 .. Wrap - 1 /\ Wrap * 0 + (t + k) = t + k
    BY <1>1, <1>2 DEF Counter
  <2>   QED  BY <1>1, <1>2, <2>1, ModUnique
<1>3. CASE t + k >= Wrap
  <2>1. t + k - Wrap \in 0 .. Wrap - 1 /\ Wrap * 1 + (t + k - Wrap) = t + k
    BY <1>1, <1>3 DEF Counter
  <2>2. (Wrap * 1 + (t + k - Wrap)) % Wrap = t + k - Wrap
    BY <1>1, <2>1, ModUnique
  <2>   QED  BY <1>1, <1>3, <2>1, <2>2
<1> QED  BY <1>1, <1>2, <1>3

\* Different live counters of a ring never share a slot.
LEMMA SlotsDistinct ==
  ASSUME NEW t \in Counter, NEW j \in 0 .. SlotCount - 1, NEW k \in 0 .. SlotCount - 1,
         SlotAt((t + j) % Wrap) = SlotAt((t + k) % Wrap)
  PROVE  j = k
<1>1. t + j \in Int /\ t + k \in Int /\ SlotCount \in Nat \ {0} /\ Wrap \in Nat \ {0}
  BY WrapFacts DEF Counter
<1>2. PICK rounds \in Nat \ {0} : Wrap = rounds * SlotCount
  BY WrapFacts
<1>3. ((t + j) % Wrap) % SlotCount = (t + j) % SlotCount
  BY <1>1, <1>2, ModMod
<1>4. ((t + k) % Wrap) % SlotCount = (t + k) % SlotCount
  BY <1>1, <1>2, ModMod
<1>5. (t + j) % SlotCount = (t + k) % SlotCount
  BY <1>3, <1>4 DEF SlotAt
<1>6. -SlotCount < (t + j) - (t + k) /\ (t + j) - (t + k) < SlotCount
  BY <1>1 DEF Counter
<1>7. t + j = t + k
  BY <1>1, <1>5, <1>6, ModInjective
<1> QED  BY <1>7 DEF Counter

----------------------------------------------------------------------------
(* Rings. *)

\* The counters' distance is in range, is zero when Read returns nullptr, and
\* leads from the tail to the head.
LEMMA UsedFacts ==
  ASSUME NEW C, NEW r \in Ring(C)
  PROVE  /\ r.head \in Counter /\ r.tail \in Counter
         /\ Used(r) \in 0 .. Wrap - 1
         /\ CanRead(r) <=> Used(r) > 0
         /\ (r.tail + Used(r)) % Wrap = r.head
<1>1. r.head \in Counter /\ r.tail \in Counter
  BY DEF Ring
<1>2. Used(r) = IF r.tail <= r.head THEN r.head - r.tail ELSE r.head - r.tail + Wrap
  BY <1>1, DistanceCases DEF Used
<1>3. Used(r) \in 0 .. Wrap - 1 /\ (CanRead(r) <=> Used(r) > 0)
  BY <1>1, <1>2, WrapFacts DEF Counter, CanRead
<1>4. (r.tail + Used(r)) % Wrap = r.head
  <2>1. Used(r) \in 0 .. Wrap
    BY <1>3, WrapFacts
  <2>2. (r.tail + Used(r)) % Wrap =
          IF r.tail + Used(r) < Wrap THEN r.tail + Used(r) ELSE r.tail + Used(r) - Wrap
    BY <1>1, <2>1, ForwardCases
  <2>   QED  BY <1>1, <1>2, <2>2, WrapFacts DEF Counter
<1> QED  BY <1>1, <1>3, <1>4

\* A store changes one slot and no counter.
LEMMA FillFacts ==
  ASSUME NEW C, NEW r \in Ring(C), NEW c \in C
  PROVE  /\ Fill(r, c) \in Ring(C)
         /\ Fill(r, c).head = r.head
         /\ Fill(r, c).tail = r.tail
         /\ Used(Fill(r, c)) = Used(r)
         /\ Fill(r, c).slots = [r.slots EXCEPT ![SlotAt(r.head)] = c]
<1>1. r.head \in Counter /\ r.head \in Int /\ SlotAt(r.head) \in Slot
  BY CounterTypes DEF Ring, Counter
<1> QED  BY <1>1 DEF Fill, Ring, Used

\* Publish adds one block, and Release takes one away.
LEMMA PublishFacts ==
  ASSUME NEW C, NEW r \in Ring(C), Used(r) < SlotCount
  PROVE  /\ Publish(r) \in Ring(C)
         /\ Publish(r).head = Advance(r.head)
         /\ Publish(r).tail = r.tail
         /\ Publish(r).slots = r.slots
         /\ Used(Publish(r)) = Used(r) + 1
<1>1. r.head \in Counter /\ r.tail \in Counter /\ r.head \in Int /\ Advance(r.head) \in Counter
  BY CounterTypes DEF Ring, Counter
<1>2. /\ Publish(r) \in Ring(C)
      /\ Publish(r).head = Advance(r.head)
      /\ Publish(r).tail = r.tail
      /\ Publish(r).slots = r.slots
  BY <1>1 DEF Publish, Ring
<1>3. Used(r) = IF r.tail <= r.head THEN r.head - r.tail ELSE r.head - r.tail + Wrap
  BY <1>1, DistanceCases DEF Used
<1>4. Used(Publish(r)) = IF r.tail <= Advance(r.head) THEN Advance(r.head) - r.tail
                         ELSE Advance(r.head) - r.tail + Wrap
  BY <1>1, <1>2, DistanceCases DEF Used
<1>5. Advance(r.head) = IF r.head + 1 < Wrap THEN r.head + 1 ELSE r.head + 1 - Wrap
  BY <1>1, WrapFacts, ForwardCases DEF Advance
<1>6. Used(Publish(r)) = Used(r) + 1
  BY <1>1, <1>3, <1>4, <1>5, WrapFacts DEF Counter
<1> QED  BY <1>2, <1>6

\* Release takes one block away, and leaves the slots as they are.
LEMMA ReleaseFacts ==
  ASSUME NEW C, NEW r \in Ring(C), CanRead(r)
  PROVE  /\ Release(r) \in Ring(C)
         /\ Release(r).head = r.head
         /\ Release(r).tail = Advance(r.tail)
         /\ Release(r).slots = r.slots
         /\ Used(Release(r)) = Used(r) - 1
<1>1. r.head \in Counter /\ r.tail \in Counter /\ r.tail \in Int /\ Advance(r.tail) \in Counter
  BY CounterTypes DEF Ring, Counter
<1>2. /\ Release(r) \in Ring(C)
      /\ Release(r).head = r.head
      /\ Release(r).tail = Advance(r.tail)
      /\ Release(r).slots = r.slots
  BY <1>1 DEF Release, Ring
<1>3. Used(r) = IF r.tail <= r.head THEN r.head - r.tail ELSE r.head - r.tail + Wrap
  BY <1>1, DistanceCases DEF Used
<1>4. Used(Release(r)) = IF Advance(r.tail) <= r.head THEN r.head - Advance(r.tail)
                         ELSE r.head - Advance(r.tail) + Wrap
  BY <1>1, <1>2, DistanceCases DEF Used
<1>5. Advance(r.tail) = IF r.tail + 1 < Wrap THEN r.tail + 1 ELSE r.tail + 1 - Wrap
  BY <1>1, WrapFacts, ForwardCases DEF Advance
<1>6. Used(Release(r)) = Used(r) - 1
  BY <1>1, <1>3, <1>4, <1>5, WrapFacts DEF Counter, CanRead
<1> QED  BY <1>2, <1>6

----------------------------------------------------------------------------
(* A sound ring stays sound. *)

\* A new ring has nothing that could be torn.
LEMMA NewRingSound ==
  ASSUME NEW C, NEW filler \in C, NEW Good
  PROVE  NewRing(filler) \in Ring(C) /\ Used(NewRing(filler)) = 0 /\ Sound(NewRing(filler), Good)
<1>1. 0 \in Counter /\ 0 - 0 = 0
  BY WrapFacts DEF Counter
<1>2. NewRing(filler) \in Ring(C)
  BY <1>1 DEF NewRing, Ring
<1>3. Used(NewRing(filler)) = 0
  BY <1>1, CounterTypes DEF Used, NewRing
<1> QED  BY <1>2, <1>3, WrapFacts DEF Sound

\* The slot Acquire hands out is not one a reader may take: storing into it,
\* torn or not, leaves the published blocks alone.
LEMMA FillSound ==
  ASSUME NEW C, NEW r \in Ring(C), NEW c \in C, NEW Good,
         Sound(r, Good), Used(r) < SlotCount
  PROVE  Sound(Fill(r, c), Good)
<1>1. /\ r.tail \in Counter /\ r.head \in Counter /\ r.head \in Int /\ SlotCount \in Nat \ {0}
      /\ Used(r) \in 0 .. SlotCount - 1
      /\ (r.tail + Used(r)) % Wrap = r.head
      /\ r.slots \in [Slot -> C]
  BY UsedFacts, WrapFacts DEF Counter, Ring
<1>2. /\ Used(Fill(r, c)) = Used(r) /\ Fill(r, c).tail = r.tail
      /\ Fill(r, c).slots = [r.slots EXCEPT ![SlotAt(r.head)] = c]
  BY FillFacts
<1>3. SUFFICES ASSUME NEW k \in 0 .. Used(r) - 1
               PROVE  Fill(r, c).slots[SlotAt((r.tail + k) % Wrap)] \in Good
  BY <1>2 DEF Sound
<1>4. k \in 0 .. SlotCount - 1 /\ k # Used(r) /\ r.tail + k \in Int
  BY <1>1 DEF Counter
<1>5. SlotAt((r.tail + k) % Wrap) # SlotAt(r.head)
  BY <1>1, <1>4, SlotsDistinct
<1>6. SlotAt((r.tail + k) % Wrap) \in Slot
  BY <1>4, CounterTypes DEF Counter
<1>7. Fill(r, c).slots[SlotAt((r.tail + k) % Wrap)] = r.slots[SlotAt((r.tail + k) % Wrap)]
  BY <1>1, <1>2, <1>5, <1>6
<1> QED  BY <1>7 DEF Sound

\* Publishing a slot that holds a good block.
LEMMA PublishSound ==
  ASSUME NEW C, NEW r \in Ring(C), NEW Good,
         Sound(r, Good), Used(r) < SlotCount, r.slots[SlotAt(r.head)] \in Good
  PROVE  Sound(Publish(r), Good)
<1>1. /\ Used(r) \in 0 .. SlotCount - 1 /\ SlotCount \in Nat \ {0}
      /\ (r.tail + Used(r)) % Wrap = r.head
  BY UsedFacts, WrapFacts
<1>2. Used(Publish(r)) <= SlotCount
  BY <1>1, PublishFacts
<1>3. ASSUME NEW k \in 0 .. Used(r)
      PROVE  r.slots[SlotAt((r.tail + k) % Wrap)] \in Good
  <2>1. CASE k = Used(r)  BY <1>1, <2>1
  <2>2. CASE k # Used(r)
    <3>1. k \in 0 .. Used(r) - 1  BY <1>1, <2>2
    <3>   QED  BY <3>1 DEF Sound
  <2>   QED  BY <2>1, <2>2
<1> QED  BY <1>1, <1>2, <1>3, PublishFacts DEF Sound

\* Releasing the oldest block.
LEMMA ReleaseSound ==
  ASSUME NEW C, NEW r \in Ring(C), NEW Good, Sound(r, Good), CanRead(r)
  PROVE  Sound(Release(r), Good)
<1>1. /\ r.tail \in Counter /\ r.tail \in Int
      /\ Used(r) \in 1 .. Wrap - 1 /\ Used(r) <= SlotCount /\ SlotCount < Wrap
      /\ SlotCount \in Nat \ {0} /\ Wrap \in Nat \ {0}
  BY UsedFacts, WrapFacts DEF Counter, Sound
<1>2. SUFFICES ASSUME NEW k \in 0 .. Used(r) - 2
               PROVE  r.slots[SlotAt((Advance(r.tail) + k) % Wrap)] \in Good
  BY <1>1, ReleaseFacts DEF Sound
<1>3. k + 1 \in 0 .. Used(r) - 1 /\ k \in 0 .. Wrap /\ k + 1 \in 0 .. Wrap
  BY <1>1
<1>4. Advance(r.tail) = IF r.tail + 1 < Wrap THEN r.tail + 1 ELSE r.tail + 1 - Wrap
  BY <1>1, ForwardCases DEF Advance
<1>5. Advance(r.tail) \in Counter
  BY <1>1, CounterTypes
<1>6. (Advance(r.tail) + k) % Wrap = (r.tail + (k + 1)) % Wrap
  <2>1. (Advance(r.tail) + k) % Wrap =
          IF Advance(r.tail) + k < Wrap THEN Advance(r.tail) + k ELSE Advance(r.tail) + k - Wrap
    BY <1>3, <1>5, ForwardCases
  <2>2. (r.tail + (k + 1)) % Wrap =
          IF r.tail + (k + 1) < Wrap THEN r.tail + (k + 1) ELSE r.tail + (k + 1) - Wrap
    BY <1>1, <1>3, ForwardCases
  <2>   QED  BY <1>1, <1>3, <1>4, <2>1, <2>2 DEF Counter
<1> QED  BY <1>3, <1>6 DEF Sound

\* The block Read returns is good.
LEMMA FrontGood ==
  ASSUME NEW C, NEW r \in Ring(C), NEW Good, Sound(r, Good), CanRead(r)
  PROVE  Front(r) \in Good
<1>1. r.tail \in Counter /\ r.tail \in Int /\ 0 \in 0 .. Used(r) - 1 /\ r.tail + 0 = r.tail
  BY UsedFacts, WrapFacts DEF Counter
<1>2. (r.tail + 0) % Wrap = r.tail
  BY <1>1, CounterTypes
<1> QED  BY <1>1, <1>2 DEF Sound, Front

----------------------------------------------------------------------------
(* The sequence of published blocks, under each call. *)

\* The slot of the k-th published block.
SlotOf(r, k) == SlotAt((r.tail + k - 1) % Wrap)

LEMMA ContentsFacts ==
  ASSUME NEW C, NEW r \in Ring(C), Used(r) <= SlotCount
  PROVE  /\ Contents(r) \in Seq(C)
         /\ Len(Contents(r)) = Used(r) /\ Used(r) \in Nat
         /\ \A k \in 1 .. Used(r) : Contents(r)[k] = r.slots[SlotOf(r, k)]
         /\ \A k \in 1 .. Used(r) : SlotOf(r, k) \in Slot
<1>1. Used(r) \in Nat /\ r.tail \in Int /\ r.slots \in [Slot -> C]
  BY UsedFacts, WrapFacts DEF Counter, Ring
<1>2. \A k \in 1 .. Used(r) : SlotOf(r, k) \in Slot
  <2> SUFFICES ASSUME NEW k \in 1 .. Used(r) PROVE SlotOf(r, k) \in Slot
    OBVIOUS
  <2>1. r.tail + k - 1 \in Int
    BY <1>1
  <2>2. (r.tail + k - 1) % Wrap \in Counter /\ (r.tail + k - 1) % Wrap \in Int
    BY <2>1, CounterTypes DEF Counter
  <2>   QED  BY <2>2, CounterTypes DEF SlotOf
<1>3. Contents(r) = [k \in 1 .. Used(r) |-> r.slots[SlotOf(r, k)]]
  BY DEF Contents, SlotOf
<1>4. Contents(r) \in [1 .. Used(r) -> C]
  BY <1>1, <1>2, <1>3
<1>5. Contents(r) \in Seq(C)
  BY <1>1, <1>4, SeqDef
<1>6. Len(Contents(r)) = Used(r)
  BY <1>1, <1>3, <1>5, LenProperties
<1> QED  BY <1>1, <1>2, <1>3, <1>5, <1>6

\* A store into the slot Acquire returned touches no published block.
LEMMA FillContents ==
  ASSUME NEW C, NEW r \in Ring(C), NEW c \in C, Used(r) < SlotCount
  PROVE  /\ Contents(Fill(r, c)) = Contents(r)
         /\ CanRead(r) => Front(Fill(r, c)) = Front(r)
         /\ Fill(r, c).slots[SlotAt(Fill(r, c).head)] = c
<1>1. /\ r.tail \in Counter /\ r.head \in Counter /\ r.head \in Int /\ SlotCount \in Nat \ {0}
      /\ Used(r) \in 0 .. SlotCount - 1
      /\ (r.tail + Used(r)) % Wrap = r.head
      /\ r.slots \in [Slot -> C]
  BY UsedFacts, WrapFacts DEF Counter, Ring
<1>2. /\ Used(Fill(r, c)) = Used(r) /\ Fill(r, c).tail = r.tail /\ Fill(r, c).head = r.head
      /\ Fill(r, c).slots = [r.slots EXCEPT ![SlotAt(r.head)] = c]
  BY FillFacts
<1>3. ASSUME NEW k \in 0 .. Used(r) - 1
      PROVE  /\ SlotAt((r.tail + k) % Wrap) \in Slot
             /\ SlotAt((r.tail + k) % Wrap) # SlotAt(r.head)
  <2>1. k \in 0 .. SlotCount - 1 /\ k # Used(r) /\ r.tail + k \in Int
    BY <1>1 DEF Counter
  <2>2. SlotAt((r.tail + k) % Wrap) # SlotAt(r.head)
    BY <1>1, <2>1, SlotsDistinct
  <2>   QED  BY <2>1, <2>2, CounterTypes DEF Counter
<1>4. ASSUME NEW k \in 1 .. Used(r)
      PROVE  Fill(r, c).slots[SlotAt((r.tail + k - 1) % Wrap)]
               = r.slots[SlotAt((r.tail + k - 1) % Wrap)]
  <2>1. k - 1 \in 0 .. Used(r) - 1 /\ r.tail + (k - 1) = r.tail + k - 1
    BY <1>1 DEF Counter
  <2>2. SlotAt((r.tail + (k - 1)) % Wrap) # SlotAt(r.head)
    BY <1>3, <2>1
  <2>   QED  BY <1>1, <1>2, <2>1, <2>2
<1>5. Contents(Fill(r, c)) = Contents(r)
  BY <1>2, <1>4 DEF Contents
<1>6. CanRead(r) => Front(Fill(r, c)) = Front(r)
  <2>1. CanRead(r) => 0 \in 0 .. Used(r) - 1
    BY <1>1, UsedFacts
  <2>2. (r.tail + 0) % Wrap = r.tail
    BY <1>1, CounterTypes DEF Counter
  <2>   QED  BY <1>1, <1>2, <1>3, <2>1, <2>2 DEF Front
<1>7. SlotAt(r.head) \in Slot
  BY <1>1, CounterTypes
<1> QED  BY <1>1, <1>2, <1>5, <1>6, <1>7

\* Publishing appends what the slot holds.
LEMMA PublishContents ==
  ASSUME NEW C, NEW r \in Ring(C), Used(r) < SlotCount
  PROVE  /\ Contents(Publish(r)) = Append(Contents(r), r.slots[SlotAt(r.head)])
         /\ r.slots[SlotAt(r.head)] \in C
         /\ CanRead(r) => Front(Publish(r)) = Front(r)
<1>1. /\ Used(r) \in Nat /\ SlotCount \in Nat /\ r.head \in Counter /\ r.tail \in Int
      /\ (r.tail + Used(r)) % Wrap = r.head
      /\ r.slots \in [Slot -> C]
  BY UsedFacts, WrapFacts DEF Counter, Ring
<1>2. /\ Publish(r) \in Ring(C) /\ Used(Publish(r)) = Used(r) + 1
      /\ Publish(r).tail = r.tail /\ Publish(r).slots = r.slots
  BY PublishFacts
<1> DEFINE b == r.slots[SlotAt(r.head)]
           s == Contents(Publish(r))
           t == Append(Contents(r), b)
<1>3. b \in C
  BY <1>1, CounterTypes DEF Counter
<1>4. /\ s \in Seq(C) /\ Len(s) = Used(r) + 1
      /\ \A k \in 1 .. Used(r) + 1 : s[k] = r.slots[SlotOf(r, k)]
  BY <1>1, <1>2, ContentsFacts DEF SlotOf
<1>5. /\ Contents(r) \in Seq(C) /\ Len(Contents(r)) = Used(r)
      /\ \A k \in 1 .. Used(r) : Contents(r)[k] = r.slots[SlotOf(r, k)]
  BY <1>1, ContentsFacts
<1>6. /\ t \in Seq(C) /\ Len(t) = Used(r) + 1 /\ t[Used(r) + 1] = b
      /\ \A k \in 1 .. Used(r) : t[k] = Contents(r)[k]
  BY <1>3, <1>5, AppendProperties
<1>7. ASSUME NEW k \in 1 .. Len(s) PROVE s[k] = t[k]
  <2>1. CASE k = Used(r) + 1
    <3>1. r.tail + k - 1 = r.tail + Used(r)
      BY <1>1, <2>1
    <3>   QED  BY <1>1, <1>4, <1>6, <2>1, <3>1 DEF SlotOf
  <2>2. CASE k # Used(r) + 1
    BY <1>1, <1>4, <1>5, <1>6, <2>2
  <2>   QED  BY <2>1, <2>2
<1>8. s = t
  BY <1>4, <1>6, <1>7, SeqEqual
<1> QED  BY <1>2, <1>3, <1>8 DEF Front

\* Releasing takes the oldest off.
LEMMA ReleaseContents ==
  ASSUME NEW C, NEW r \in Ring(C), Used(r) <= SlotCount, CanRead(r)
  PROVE  /\ Contents(r) # <<>>
         /\ Head(Contents(r)) = Front(r)
         /\ Contents(Release(r)) = Tail(Contents(r))
<1>1. /\ r.tail \in Counter /\ r.tail \in Int
      /\ Used(r) \in 1 .. Wrap - 1 /\ SlotCount < Wrap
      /\ SlotCount \in Nat \ {0} /\ Wrap \in Nat \ {0}
  BY UsedFacts, WrapFacts DEF Counter
<1>2. /\ Contents(r) \in Seq(C) /\ Len(Contents(r)) = Used(r)
      /\ \A k \in 1 .. Used(r) : Contents(r)[k] = r.slots[SlotOf(r, k)]
  BY ContentsFacts
<1>3. Contents(r) # <<>>
  BY <1>1, <1>2, EmptySeq
<1>4. Head(Contents(r)) = Front(r)
  <2>1. Head(Contents(r)) = r.slots[SlotOf(r, 1)]
    BY <1>1, <1>2, <1>3
  <2>2. r.tail + 1 - 1 = r.tail /\ r.tail % Wrap = r.tail
    BY <1>1, CounterTypes
  <2>   QED  BY <2>1, <2>2 DEF SlotOf, Front
<1>5. /\ Release(r) \in Ring(C) /\ Used(Release(r)) = Used(r) - 1
      /\ Release(r).tail = Advance(r.tail) /\ Release(r).slots = r.slots
  BY ReleaseFacts
<1>6. /\ Contents(Release(r)) \in Seq(C) /\ Len(Contents(Release(r))) = Used(r) - 1
      /\ \A k \in 1 .. Used(r) - 1 :
           Contents(Release(r))[k] = r.slots[SlotOf(Release(r), k)]
  BY <1>1, <1>5, ContentsFacts
<1>7. /\ Tail(Contents(r)) \in Seq(C) /\ Len(Tail(Contents(r))) = Used(r) - 1
      /\ \A k \in 1 .. Used(r) - 1 : Tail(Contents(r))[k] = r.slots[SlotOf(r, k + 1)]
  BY <1>1, <1>2, <1>3, HeadTailProperties
<1>8. ASSUME NEW k \in 1 .. Used(r) - 1
      PROVE  SlotOf(Release(r), k) = SlotOf(r, k + 1)
  <2>1. k - 1 \in 0 .. Wrap /\ k \in 0 .. Wrap /\ 1 \in 0 .. Wrap
    BY <1>1
  <2>2. /\ Advance(r.tail) \in Counter
        /\ Advance(r.tail) = IF r.tail + 1 < Wrap THEN r.tail + 1 ELSE r.tail + 1 - Wrap
    BY <1>1, <2>1, ForwardCases, CounterTypes DEF Advance
  <2>3. (Advance(r.tail) + (k - 1)) % Wrap =
          IF Advance(r.tail) + (k - 1) < Wrap
          THEN Advance(r.tail) + (k - 1) ELSE Advance(r.tail) + (k - 1) - Wrap
    BY <2>1, <2>2, ForwardCases
  <2>4. (r.tail + k) % Wrap = IF r.tail + k < Wrap THEN r.tail + k ELSE r.tail + k - Wrap
    BY <1>1, <2>1, ForwardCases
  <2>5. (Advance(r.tail) + (k - 1)) % Wrap = (r.tail + k) % Wrap
    BY <1>1, <2>1, <2>2, <2>3, <2>4 DEF Counter
  <2>6. Advance(r.tail) + (k - 1) = Advance(r.tail) + k - 1 /\ r.tail + k = r.tail + (k + 1) - 1
    BY <1>1, <2>1, <2>2 DEF Counter
  <2>   QED  BY <1>5, <2>5, <2>6 DEF SlotOf
<1>9. Contents(Release(r)) = Tail(Contents(r))
  <2>1. Len(Contents(Release(r))) = Len(Tail(Contents(r)))
    BY <1>6, <1>7
  <2>2. \A k \in 1 .. Len(Contents(Release(r))) :
          Contents(Release(r))[k] = Tail(Contents(r))[k]
    BY <1>6, <1>7, <1>8
  <2>   QED  BY <1>6, <1>7, <2>1, <2>2, SeqEqual
<1> QED  BY <1>3, <1>4, <1>9

----------------------------------------------------------------------------
(* The audio path. *)

\* SlotOwnership is what makes BlocksWhole inductive: a store is harmless only
\* because the storing thread acquired the slot, and a publication only
\* because the slot it publishes is complete.
IInv == TypeOK /\ BlocksWhole /\ SlotOwnership

\* The parts of IInv about one ring, by the threads that use it.
InputInv ==
  /\ input \in Ring(Block \cup {Torn})
  /\ Sound(input, Block)
  /\ writer \in {"store", "publish"} => CanAcquire(input)
  /\ writer = "publish" => input.slots[SlotAt(input.head)] \in Block
  /\ audio \in {"acquire", "drop", "fill", "copy", "publish", "release"} => CanRead(input)

OutputInv ==
  /\ output \in Ring(Block \cup {Torn})
  /\ Sound(output, Block)
  /\ audio \in {"fill", "copy", "publish"} => CanAcquire(output)
  /\ audio = "publish" => output.slots[SlotAt(output.head)] \in Block
  /\ reader = "release" => CanRead(output)

Scalars ==
  /\ inputWakeup \in 0 .. SemMax
  /\ outputWakeup \in 0 .. SemMax
  /\ audio \in AudioStates
  /\ writer \in WriterStates
  /\ reader \in ReaderStates
  /\ stop \in BOOLEAN

\* IInv is the three groups together.
LEMMA IInvParts == IInv <=> Scalars /\ InputInv /\ OutputInv
BY DEF IInv, TypeOK, BlocksWhole, SlotOwnership, InputInv, OutputInv, Scalars

\* The zero-filled rings the host made satisfy it.
LEMMA InitIInv == Init => IInv
<1> SUFFICES ASSUME Init PROVE Scalars /\ InputInv /\ OutputInv
  BY IInvParts
<1>1. Scalars
  <2>1. inputWakeup \in 0 .. SemMax /\ outputWakeup \in 0 .. SemMax
    BY SemAssumption DEF Init
  <2>2. /\ audio \in AudioStates
        /\ writer \in WriterStates
        /\ reader \in ReaderStates
        /\ stop \in BOOLEAN
    BY DEF Init, AudioStates, WriterStates, ReaderStates
  <2>   QED  BY <2>1, <2>2 DEF Scalars
<1>2. InputInv
  <2>1. Torn \in Block \cup {Torn}
    OBVIOUS
  <2>2. input \in Ring(Block \cup {Torn}) /\ Sound(input, Block)
    BY <2>1, NewRingSound DEF Init
  <2>   QED  BY <2>2 DEF Init, InputInv
<1>3. OutputInv
  <2>1. Torn \in Block \cup {Torn}
    OBVIOUS
  <2>2. output \in Ring(Block \cup {Torn}) /\ Sound(output, Block)
    BY <2>1, NewRingSound DEF Init
  <2>   QED  BY <2>2 DEF Init, OutputInv
<1> QED  BY <1>1, <1>2, <1>3

\* Semaphore counts stay in range, and a post leaves a positive count.
LEMMA SignalFacts ==
  ASSUME NEW count \in 0 .. SemMax
  PROVE  Signal(count) \in 1 .. SemMax
BY SemAssumption DEF Signal

\* Every step keeps the semaphores, the threads' places and the stop flag in range.
LEMMA NextScalars ==
  ASSUME IInv, [Next]_vars
  PROVE  Scalars'
<1> USE DEF Scalars, AudioStates, WriterStates, ReaderStates
<1>0. Scalars
  BY IInvParts
<1>1. CASE UNCHANGED vars
  BY <1>0, <1>1 DEF vars
<1>2. CASE WriterNext
  BY <1>0, <1>2, SignalFacts DEF WriterNext, WriterAcquire, WriterStore, WriterPublish,
     WriterSignal, WriterOff
<1>3. CASE ReaderNext
  BY <1>0, <1>3, SemAssumption DEF ReaderNext, ReaderWake, ReaderRead, ReaderRelease
<1>4. CASE AudioNext
  BY <1>0, <1>4, SignalFacts, SemAssumption DEF AudioNext, AudioTest, AudioWake, AudioTimeout,
     AudioRead, AudioAcquire, AudioDrop, AudioFill, AudioCopy, AudioPublish, AudioRelease,
     AudioSignal
<1>5. CASE RequestStop
  BY <1>0, <1>5 DEF RequestStop
<1> QED  BY <1>1, <1>2, <1>3, <1>4, <1>5 DEF Next

\* Steps that touch the input ring: the writer's store, publish, and the
\* loop's release.
LEMMA NextInput ==
  ASSUME IInv, [Next]_vars
  PROVE  InputInv'
<1> USE IInvParts
<1> DEFINE C == Block \cup {Torn}
           Reads == {"acquire", "drop", "fill", "copy", "publish", "release"}
<1>0. /\ InputInv /\ Used(input) \in Nat /\ (CanRead(input) <=> Used(input) > 0)
      /\ SlotCount \in Nat /\ SlotAt(input.head) \in Slot
  <2>1. InputInv /\ input \in Ring(C)
    BY DEF InputInv
  <2>2. Used(input) \in 0 .. Wrap - 1 /\ (CanRead(input) <=> Used(input) > 0)
        /\ input.head \in Counter /\ input.head \in Int
    BY <2>1, UsedFacts DEF Counter
  <2>   QED  BY <2>1, <2>2, WrapFacts, CounterTypes
<1>1. CASE WriterAcquire
  <2>1. input \in Ring(C) /\ Torn \in C /\ Used(input) < SlotCount
    BY <1>0, <1>1 DEF WriterAcquire, CanAcquire, InputInv
  <2>2. Fill(input, Torn) \in Ring(C) /\ Used(Fill(input, Torn)) = Used(input)
    BY <2>1, FillFacts
  <2>3. Sound(Fill(input, Torn), Block)
    BY <1>0, <2>1, FillSound DEF InputInv
  <2>4. CanRead(Fill(input, Torn)) <=> Used(input) > 0
    BY <2>2, UsedFacts
  <2>   QED  BY <1>0, <1>1, <2>1, <2>2, <2>3, <2>4 DEF WriterAcquire, InputInv, CanAcquire
<1>2. CASE WriterStore
  <2>1. PICK b \in Block : input' = Fill(input, b)
    BY <1>2 DEF WriterStore
  <2>2. input \in Ring(C) /\ b \in C /\ Used(input) < SlotCount
    BY <1>0, <1>2 DEF WriterStore, CanAcquire, InputInv
  <2>3. /\ input' \in Ring(C) /\ Used(input') = Used(input) /\ input'.head = input.head
        /\ input'.slots = [input.slots EXCEPT ![SlotAt(input.head)] = b]
    BY <2>1, <2>2, FillFacts
  <2>4. Sound(input', Block)
    BY <1>0, <2>1, <2>2, FillSound DEF InputInv
  <2>5. CanRead(input') <=> Used(input) > 0
    BY <2>3, UsedFacts
  <2>6. input'.slots[SlotAt(input'.head)] \in Block
    BY <1>0, <2>2, <2>3 DEF Ring
  <2>   QED  BY <1>0, <1>2, <2>2, <2>3, <2>4, <2>5, <2>6 DEF WriterStore, InputInv, CanAcquire
<1>3. CASE WriterPublish
  <2>1. input \in Ring(C) /\ Used(input) < SlotCount
        /\ input.slots[SlotAt(input.head)] \in Block
    BY <1>0, <1>3 DEF WriterPublish, CanAcquire, InputInv
  <2>2. Publish(input) \in Ring(C) /\ Used(Publish(input)) = Used(input) + 1
    BY <2>1, PublishFacts
  <2>3. Sound(Publish(input), Block)
    BY <1>0, <2>1, PublishSound DEF InputInv
  <2>4. CanRead(Publish(input))
    BY <1>0, <2>2, UsedFacts
  <2>   QED  BY <1>3, <2>2, <2>3, <2>4 DEF WriterPublish, InputInv
<1>4. CASE AudioDrop \/ AudioRelease
  <2>1. input \in Ring(C) /\ CanRead(input) /\ input' = Release(input)
    BY <1>0, <1>4 DEF AudioDrop, AudioRelease, InputInv
  <2>2. /\ input' \in Ring(C) /\ input'.head = input.head /\ input'.slots = input.slots
        /\ Used(input') = Used(input) - 1
    BY <2>1, ReleaseFacts
  <2>3. Sound(input', Block)
    BY <1>0, <2>1, ReleaseSound DEF InputInv
  <2>4. CanAcquire(input) => CanAcquire(input')
    BY <1>0, <2>2 DEF CanAcquire
  <2>5. writer' = writer /\ audio' \notin Reads
    BY <1>4 DEF AudioDrop, AudioRelease
  <2>   QED  BY <1>0, <2>2, <2>3, <2>4, <2>5 DEF InputInv
<1>5. CASE UNCHANGED <<input, writer>> /\ (audio' \in Reads => audio \in Reads \/ CanRead(input))
  BY <1>0, <1>5 DEF InputInv
<1>6. CASE WriterSignal \/ WriterOff
  BY <1>0, <1>6 DEF WriterSignal, WriterOff, InputInv
<1>7. UNCHANGED vars \/ ReaderNext \/ RequestStop => UNCHANGED <<input, writer, audio>>
  BY DEF vars, ReaderNext, ReaderWake, ReaderRead, ReaderRelease, RequestStop
<1>8. AudioNext => \/ AudioDrop \/ AudioRelease
                   \/ UNCHANGED <<input, writer>>
                      /\ (audio' \in Reads => audio \in Reads \/ CanRead(input))
  BY DEF AudioNext, AudioTest, AudioWake, AudioTimeout, AudioRead, AudioAcquire,
     AudioFill, AudioCopy, AudioPublish, AudioSignal
<1> QED  BY <1>1, <1>2, <1>3, <1>4, <1>5, <1>6, <1>7, <1>8 DEF Next, WriterNext

\* Steps that touch the output ring: the loop's fill, copy and publish, and
\* the reader's release.
LEMMA NextOutput ==
  ASSUME IInv, [Next]_vars
  PROVE  OutputInv'
<1> USE IInvParts
<1> DEFINE C == Block \cup {Torn}
           Writes == {"fill", "copy", "publish"}
<1>0. /\ OutputInv /\ Used(output) \in Nat /\ (CanRead(output) <=> Used(output) > 0)
      /\ SlotCount \in Nat /\ SlotAt(output.head) \in Slot
  <2>1. OutputInv /\ output \in Ring(C)
    BY DEF OutputInv
  <2>2. Used(output) \in 0 .. Wrap - 1 /\ (CanRead(output) <=> Used(output) > 0)
        /\ output.head \in Counter /\ output.head \in Int
    BY <2>1, UsedFacts DEF Counter
  <2>   QED  BY <2>1, <2>2, WrapFacts, CounterTypes
<1>1. CASE AudioFill
  <2>1. output \in Ring(C) /\ Torn \in C /\ Used(output) < SlotCount
    BY <1>0, <1>1 DEF AudioFill, CanAcquire, OutputInv
  <2>2. Fill(output, Torn) \in Ring(C) /\ Used(Fill(output, Torn)) = Used(output)
    BY <2>1, FillFacts
  <2>3. Sound(Fill(output, Torn), Block)
    BY <1>0, <2>1, FillSound DEF OutputInv
  <2>4. CanRead(Fill(output, Torn)) <=> Used(output) > 0
    BY <2>2, UsedFacts
  <2>   QED  BY <1>0, <1>1, <2>1, <2>2, <2>3, <2>4 DEF AudioFill, OutputInv, CanAcquire
<1>2. CASE AudioCopy
  <2> DEFINE c == Front(input)
  <2>1. output' = Fill(output, c)
    BY <1>2 DEF AudioCopy
  <2>3. c \in Block
    BY <1>2, FrontGood DEF AudioCopy, InputInv
  <2>4. output \in Ring(C) /\ c \in C /\ Used(output) < SlotCount
    BY <1>0, <1>2, <2>3 DEF AudioCopy, CanAcquire, OutputInv
  <2>5. /\ output' \in Ring(C) /\ Used(output') = Used(output) /\ output'.head = output.head
        /\ output'.slots = [output.slots EXCEPT ![SlotAt(output.head)] = c]
    BY <2>1, <2>4, FillFacts
  <2>6. Sound(output', Block)
    BY <1>0, <2>1, <2>4, FillSound DEF OutputInv
  <2>7. CanRead(output') <=> Used(output) > 0
    BY <2>5, UsedFacts
  <2>8. output'.slots[SlotAt(output'.head)] \in Block
    BY <1>0, <2>3, <2>4, <2>5 DEF Ring
  <2>   QED  BY <1>0, <1>2, <2>4, <2>5, <2>6, <2>7, <2>8 DEF AudioCopy, OutputInv, CanAcquire
<1>3. CASE AudioPublish
  <2>1. output \in Ring(C) /\ Used(output) < SlotCount
        /\ output.slots[SlotAt(output.head)] \in Block
    BY <1>0, <1>3 DEF AudioPublish, CanAcquire, OutputInv
  <2>2. Publish(output) \in Ring(C) /\ Used(Publish(output)) = Used(output) + 1
    BY <2>1, PublishFacts
  <2>3. Sound(Publish(output), Block)
    BY <1>0, <2>1, PublishSound DEF OutputInv
  <2>4. CanRead(Publish(output))
    BY <1>0, <2>2, UsedFacts
  <2>   QED  BY <1>3, <2>2, <2>3, <2>4 DEF AudioPublish, OutputInv
<1>4. CASE ReaderRelease
  <2>1. output \in Ring(C) /\ CanRead(output) /\ output' = Release(output)
    BY <1>0, <1>4 DEF ReaderRelease, OutputInv
  <2>2. /\ output' \in Ring(C) /\ output'.head = output.head /\ output'.slots = output.slots
        /\ Used(output') = Used(output) - 1
    BY <2>1, ReleaseFacts
  <2>3. Sound(output', Block)
    BY <1>0, <2>1, ReleaseSound DEF OutputInv
  <2>4. CanAcquire(output) => CanAcquire(output')
    BY <1>0, <2>2 DEF CanAcquire
  <2>5. audio' = audio /\ reader' = "read"
    BY <1>4 DEF ReaderRelease
  <2>   QED  BY <1>0, <2>2, <2>3, <2>4, <2>5 DEF OutputInv
<1>5. CASE /\ UNCHANGED output
           /\ audio' \in Writes => audio = audio' \/ CanAcquire(output)
           /\ audio' = "publish" => audio = "publish"
           /\ reader' = "release" => reader = "release" \/ CanRead(output)
  BY <1>0, <1>5 DEF OutputInv
<1>6. UNCHANGED vars \/ WriterNext \/ RequestStop => UNCHANGED <<output, audio, reader>>
  BY DEF vars, WriterNext, WriterAcquire, WriterStore, WriterPublish, WriterSignal, WriterOff,
     RequestStop
<1>7. ReaderWake \/ ReaderRead =>
        /\ UNCHANGED <<output, audio>>
        /\ reader' = "release" => CanRead(output)
  BY DEF ReaderWake, ReaderRead
<1>8. AudioNext => \/ AudioFill \/ AudioCopy \/ AudioPublish
                   \/ /\ UNCHANGED <<output, reader>>
                      /\ audio' \in Writes => CanAcquire(output)
                      /\ audio' # "publish"
  BY DEF AudioNext, AudioTest, AudioWake, AudioTimeout, AudioRead, AudioAcquire,
     AudioDrop, AudioRelease, AudioSignal
<1> QED  BY <1>1, <1>2, <1>3, <1>4, <1>5, <1>6, <1>7, <1>8 DEF Next, ReaderNext

\* IInv is inductive.
LEMMA NextIInv == IInv /\ [Next]_vars => IInv'
<1> SUFFICES ASSUME IInv, [Next]_vars PROVE IInv'
  OBVIOUS
<1>1. Scalars' /\ InputInv' /\ OutputInv'
  BY NextScalars, NextInput, NextOutput
<1> QED  BY <1>1, IInvParts, PTL

\* IInv holds of every behaviour.
LEMMA Inductive == Spec => []IInv
BY InitIInv, NextIInv, PTL DEF Spec

\* Type correctness of the data plane.
THEOREM TypeCorrect == Spec => []TypeOK
<1>1. IInv => TypeOK
  BY DEF IInv
<1> QED  BY <1>1, Inductive, PTL

\* No block is torn or overwritten, and no ring is overrun, whatever the slot
\* count and even when the uint64 counters wrap.
THEOREM NoTornBlock == Spec => []BlocksWhole
<1>1. IInv => BlocksWhole
  BY DEF IInv
<1> QED  BY <1>1, Inductive, PTL

\* Each side only touches slots it holds.
THEOREM SlotsOwned == Spec => []SlotOwnership
<1>1. IInv => SlotOwnership
  BY DEF IInv
<1> QED  BY <1>1, Inductive, PTL

----------------------------------------------------------------------------
(* Wake-ups.  Each is inductive given the types: a thread goes to wait only *)
(* on an empty ring, and a block published after that has its post ahead.   *)

\* A step that publishes an input block, consumes a post or ends a drain keeps
\* the block covered by a post (WriterPublish, AudioWake, AudioRead).
LEMMA NextInputWakeup ==
  IInv /\ InputNeverStranded /\ [Next]_vars => InputNeverStranded'
<1> SUFFICES ASSUME IInv, InputNeverStranded, [Next]_vars PROVE InputNeverStranded'
  OBVIOUS
<1> USE DEF InputNeverStranded
<1>0. inputWakeup \in 0 .. SemMax /\ SemMax \in Nat
  BY SemAssumption DEF IInv, TypeOK
<1>1. CASE WriterAcquire \/ WriterStore
  <2>1. CanRead(input') <=> CanRead(input)
    BY <1>1 DEF WriterAcquire, WriterStore, Fill, CanRead, IInv, TypeOK, Ring
  <2>2. /\ audio' = audio /\ inputWakeup' = inputWakeup
        /\ writer # "signal"
    BY <1>1 DEF WriterAcquire, WriterStore
  <2>   QED  BY <2>1, <2>2
<1>2. CASE WriterPublish
  BY <1>2 DEF WriterPublish
<1>3. CASE WriterSignal
  <2>1. inputWakeup' > 0
    BY <1>0, <1>3, SignalFacts DEF WriterSignal
  <2>   QED  BY <2>1
<1>4. CASE WriterOff
  BY <1>4 DEF WriterOff
<1>5. CASE AudioRead
  BY <1>5 DEF AudioRead
<1>6. CASE UNCHANGED <<input, inputWakeup, writer>> /\ (audio' \in {"test", "wait"} => audio \in {"test", "wait"})
  BY <1>6
<1>7. CASE audio' \notin {"test", "wait"}
  BY <1>7
<1>8. UNCHANGED vars \/ ReaderNext \/ RequestStop => UNCHANGED <<input, inputWakeup, writer, audio>>
  BY DEF vars, ReaderNext, ReaderWake, ReaderRead, ReaderRelease, RequestStop
<1>9. AudioNext => \/ AudioRead
                   \/ audio' \notin {"test", "wait"}
                   \/ UNCHANGED <<input, inputWakeup, writer>> /\ audio \in {"test", "wait"}
  BY DEF AudioNext, AudioTest, AudioWake, AudioTimeout, AudioAcquire, AudioDrop,
     AudioFill, AudioCopy, AudioPublish, AudioRelease, AudioSignal
<1> QED  BY <1>1, <1>2, <1>3, <1>4, <1>5, <1>6, <1>7, <1>8, <1>9 DEF Next, WriterNext

\* The loop never sleeps on a published block.
THEOREM NoLostInputWakeup == Spec => []InputNeverStranded
<1>1. Init => InputNeverStranded
  BY DEF Init, InputNeverStranded, CanRead, NewRing
<1> QED  BY <1>1, NextInputWakeup, Inductive, PTL DEF Spec

\* The same for the output ring (AudioPublish, ReaderWake, ReaderRead).
LEMMA NextOutputWakeup ==
  IInv /\ OutputNeverStranded /\ [Next]_vars => OutputNeverStranded'
<1> SUFFICES ASSUME IInv, OutputNeverStranded, [Next]_vars PROVE OutputNeverStranded'
  OBVIOUS
<1> USE DEF OutputNeverStranded
<1>0. outputWakeup \in 0 .. SemMax /\ SemMax \in Nat
  BY SemAssumption DEF IInv, TypeOK
<1>1. CASE AudioFill \/ AudioCopy
  <2>1. CanRead(output') <=> CanRead(output)
    BY <1>1 DEF AudioFill, AudioCopy, Fill, CanRead, IInv, TypeOK, Ring
  <2>2. /\ reader' = reader /\ outputWakeup' = outputWakeup
        /\ audio \notin {"release", "signal"}
    BY <1>1 DEF AudioFill, AudioCopy
  <2>   QED  BY <2>1, <2>2
<1>2. CASE AudioPublish \/ AudioRelease
  BY <1>2 DEF AudioPublish, AudioRelease
<1>3. CASE AudioSignal
  <2>1. outputWakeup' > 0
    BY <1>0, <1>3, SignalFacts DEF AudioSignal
  <2>   QED  BY <2>1
<1>4. CASE ReaderWake \/ ReaderRelease
  BY <1>4 DEF ReaderWake, ReaderRelease
<1>5. CASE ReaderRead
  BY <1>5 DEF ReaderRead
<1>6. CASE UNCHANGED <<output, outputWakeup, reader>> /\ audio \notin {"release", "signal"}
  BY <1>6
<1>7. CASE UNCHANGED <<output, outputWakeup, reader, audio>>
  BY <1>7
<1>8. UNCHANGED vars \/ WriterNext \/ RequestStop => UNCHANGED <<output, outputWakeup, reader, audio>>
  BY DEF vars, WriterNext, WriterAcquire, WriterStore, WriterPublish, WriterSignal, WriterOff,
     RequestStop
<1>9. AudioNext => \/ AudioFill \/ AudioCopy \/ AudioPublish \/ AudioRelease \/ AudioSignal
                   \/ UNCHANGED <<output, outputWakeup, reader>> /\ audio \notin {"release", "signal"}
  BY DEF AudioNext, AudioTest, AudioWake, AudioTimeout, AudioRead, AudioAcquire, AudioDrop
<1> QED  BY <1>1, <1>2, <1>3, <1>4, <1>5, <1>6, <1>7, <1>8, <1>9 DEF Next, ReaderNext

\* The host's reader never sleeps on a block the loop published.
THEOREM NoLostOutputWakeup == Spec => []OutputNeverStranded
<1>1. Init => OutputNeverStranded
  BY DEF Init, OutputNeverStranded, CanRead, NewRing
<1> QED  BY <1>1, NextOutputWakeup, Inductive, PTL DEF Spec

----------------------------------------------------------------------------
(* The data plane implements BlockPipe: what the loop is about to publish is *)
(* the oldest block it has not decided about, and every step is a step of    *)
(* the pipe or leaves both of its stages as they are.                        *)

Copied == audio = "publish" => output.slots[SlotAt(output.head)] = Front(input)

\* What IInv says of the two rings, with the counts as numbers.
LEMMA RingFacts ==
  ASSUME IInv
  PROVE  /\ input \in Ring(Block \cup {Torn}) /\ output \in Ring(Block \cup {Torn})
         /\ Used(input) <= SlotCount /\ Used(output) <= SlotCount
         /\ Used(input) \in Nat /\ Used(output) \in Nat /\ SlotCount \in Nat
         /\ InputInv /\ OutputInv
BY IInvParts, UsedFacts, WrapFacts DEF InputInv, OutputInv, Sound

\* The writer fills another slot than the one the loop reads from (WriterAcquire,
\* WriterStore), and publishing does not move the oldest block (WriterPublish).
LEMMA FrontStays ==
  ASSUME IInv, CanRead(input), WriterNext
  PROVE  Front(input') = Front(input)
<1>1. CASE WriterAcquire
  <2>1. Used(input) < SlotCount /\ Torn \in Block \cup {Torn} /\ input' = Fill(input, Torn)
    BY <1>1 DEF WriterAcquire, CanAcquire
  <2>   QED  BY <2>1, RingFacts, FillContents
<1>2. CASE WriterStore
  <2>1. PICK b \in Block : input' = Fill(input, b)
    BY <1>2 DEF WriterStore
  <2>2. Used(input) < SlotCount /\ b \in Block \cup {Torn}
    BY <1>2, RingFacts DEF WriterStore, InputInv, CanAcquire
  <2>   QED  BY <2>1, <2>2, RingFacts, FillContents
<1>3. CASE WriterPublish
  <2>1. Used(input) < SlotCount /\ input' = Publish(input)
    BY <1>3, RingFacts DEF WriterPublish, InputInv, CanAcquire
  <2>   QED  BY <2>1, RingFacts, PublishContents
<1>4. CASE WriterSignal \/ WriterOff
  BY <1>4 DEF WriterSignal, WriterOff
<1> QED  BY <1>1, <1>2, <1>3, <1>4 DEF WriterNext

\* From the copy to the publication the output slot is the copy of the block
\* the loop holds.
LEMMA NextCopied ==
  ASSUME IInv, Copied, [Next]_vars
  PROVE  Copied'
<1>1. CASE WriterNext
  <2>1. UNCHANGED <<audio, output>>
    BY <1>1 DEF WriterNext, WriterAcquire, WriterStore, WriterPublish, WriterSignal, WriterOff
  <2>2. audio = "publish" => CanRead(input)
    BY RingFacts DEF InputInv
  <2>   QED  BY <1>1, <2>1, <2>2, FrontStays DEF Copied
<1>2. CASE ReaderNext
  <2>1. UNCHANGED <<audio, input>>
    BY <1>2 DEF ReaderNext, ReaderWake, ReaderRead, ReaderRelease
  <2>2. output'.slots = output.slots /\ output'.head = output.head
    BY <1>2, RingFacts, ReleaseFacts
       DEF ReaderNext, ReaderWake, ReaderRead, ReaderRelease, OutputInv
  <2>   QED  BY <2>1, <2>2 DEF Copied
<1>3. CASE AudioCopy
  <2>1. Used(output) < SlotCount /\ CanRead(input)
    BY <1>3, RingFacts DEF AudioCopy, OutputInv, InputInv, CanAcquire
  <2>2. Front(input) \in Block \cup {Torn}
    BY <2>1, RingFacts, FrontGood DEF InputInv
  <2>   QED  BY <1>3, <2>1, <2>2, RingFacts, FillContents DEF AudioCopy, Copied
<1>4. CASE AudioNext /\ ~AudioCopy
  <2>1. audio' # "publish"
    BY <1>4 DEF AudioNext, AudioTest, AudioWake, AudioTimeout, AudioRead, AudioAcquire,
       AudioDrop, AudioFill, AudioPublish, AudioRelease, AudioSignal
  <2>   QED  BY <2>1 DEF Copied
<1>5. CASE RequestStop \/ UNCHANGED vars
  BY <1>5 DEF RequestStop, vars, Copied
<1> QED  BY <1>1, <1>2, <1>3, <1>4, <1>5 DEF Next

\* Where Pending leaves out the oldest block.
Spent == audio \in {"release", "drop"}

\* Publishing an input block submits it.
LEMMA StepSubmit ==
  ASSUME IInv, WriterNext
  PROVE  Pipe!Submit \/ UNCHANGED Pipe!vars
<1>1. UNCHANGED <<audio, output>>
  BY DEF WriterNext, WriterAcquire, WriterStore, WriterPublish, WriterSignal, WriterOff
<1>2. CASE WriterPublish
  <2>1. /\ Used(input) < SlotCount /\ input' = Publish(input)
        /\ input.slots[SlotAt(input.head)] \in Block
    BY <1>2, RingFacts DEF WriterPublish, InputInv, CanAcquire
  <2> DEFINE b == input.slots[SlotAt(input.head)]
             queued == Contents(input)
  <2>2. Contents(input') = Append(queued, b)
    BY <2>1, RingFacts, PublishContents
  <2>3. queued \in Seq(Block \cup {Torn}) /\ Len(queued) = Used(input)
    BY RingFacts, ContentsFacts
  <2>4. Pending' = Append(Pending, b) /\ Len(Pending) < SlotCount
    <3>1. CASE Spent
      <4>1. queued # <<>>
        BY <3>1, RingFacts, ReleaseContents DEF Spent, InputInv
      <4>2. Tail(Append(queued, b)) = Append(Tail(queued), b) /\ Len(Tail(queued)) = Used(input) - 1
        BY <2>1, <2>3, <4>1, HeadTailAppend, HeadTailProperties
      <4>   QED  BY <1>1, <2>1, <2>2, <3>1, <4>2, RingFacts DEF Pending, Spent
    <3>2. CASE ~Spent
      BY <1>1, <2>1, <2>2, <2>3, <3>2 DEF Pending, Spent
    <3>   QED  BY <3>1, <3>2
  <2>   QED  BY <1>1, <2>1, <2>4 DEF Pipe!Submit
<1>3. CASE ~WriterPublish
  <2>1. Contents(input') = Contents(input)
    <3>1. CASE WriterAcquire
      BY <3>1, RingFacts, FillContents DEF WriterAcquire, CanAcquire
    <3>2. CASE WriterStore
      <4>1. PICK b \in Block : input' = Fill(input, b)
        BY <3>2 DEF WriterStore
      <4>2. Used(input) < SlotCount
        BY <3>2, RingFacts DEF WriterStore, InputInv, CanAcquire
      <4>   QED  BY <4>1, <4>2, RingFacts, FillContents
    <3>3. CASE WriterSignal \/ WriterOff
      BY <3>3 DEF WriterSignal, WriterOff
    <3>   QED  BY <1>3, <3>1, <3>2, <3>3 DEF WriterNext
  <2>   QED  BY <1>1, <2>1 DEF Pending, Pipe!vars
<1> QED  BY <1>2, <1>3

\* Releasing an output block collects it.
LEMMA StepCollect ==
  ASSUME IInv, ReaderNext
  PROVE  Pipe!Collect \/ UNCHANGED Pipe!vars
<1>1. UNCHANGED Pending
  BY DEF ReaderNext, ReaderWake, ReaderRead, ReaderRelease, Pending
<1>2. CASE ReaderRelease
  <2>1. CanRead(output) /\ output' = Release(output)
    BY <1>2, RingFacts DEF ReaderRelease, OutputInv
  <2>   QED  BY <1>1, <2>1, RingFacts, ReleaseContents DEF Pipe!Collect
<1>3. CASE ReaderWake \/ ReaderRead
  BY <1>1, <1>3 DEF ReaderWake, ReaderRead, Pipe!vars
<1> QED  BY <1>2, <1>3 DEF ReaderNext

\* The loop forwards with its Publish and drops when Acquire finds no room.
LEMMA StepForward ==
  ASSUME IInv, Copied, AudioNext
  PROVE  Pipe!Forward \/ Pipe!Drop \/ UNCHANGED Pipe!vars
<1> DEFINE queued == Contents(input)
<1>0. CanRead(input) => queued # <<>> /\ Head(queued) = Front(input)
  BY RingFacts, ReleaseContents
<1>1. CASE AudioPublish
  <2>1. /\ Used(output) < SlotCount /\ output' = Publish(output) /\ CanRead(input)
        /\ output.slots[SlotAt(output.head)] = Front(input)
    BY <1>1, RingFacts DEF AudioPublish, InputInv, OutputInv, CanAcquire, Copied
  <2>2. Contents(output') = Append(Contents(output), Head(queued))
    BY <1>0, <2>1, RingFacts, PublishContents
  <2>3. Len(Contents(output)) < SlotCount
    BY <2>1, RingFacts, ContentsFacts
  <2>4. Pending = queued /\ Pending' = Tail(queued)
    BY <1>1 DEF AudioPublish, Pending
  <2>   QED  BY <1>0, <2>1, <2>2, <2>3, <2>4 DEF Pipe!Forward
<1>2. CASE AudioAcquire
  <2>1. UNCHANGED <<input, output>> /\ CanRead(input) /\ Pending = queued
    BY <1>2, RingFacts DEF AudioAcquire, InputInv, Pending
  <2>2. CASE CanAcquire(output)
    BY <1>2, <2>1, <2>2 DEF AudioAcquire, Pending, Pipe!vars
  <2>3. CASE ~CanAcquire(output)
    <3>1. Len(Contents(output)) = SlotCount
      BY <2>3, RingFacts, ContentsFacts DEF CanAcquire
    <3>2. Pending' = Tail(queued)
      BY <1>2, <2>3 DEF AudioAcquire, Pending
    <3>   QED  BY <1>0, <2>1, <3>1, <3>2 DEF Pipe!Drop
  <2>   QED  BY <2>2, <2>3
<1>3. CASE AudioDrop \/ AudioRelease
  <2>1. /\ CanRead(input) /\ input' = Release(input) /\ UNCHANGED output
        /\ Spent /\ audio' \notin {"release", "drop"}
    BY <1>3, RingFacts DEF AudioDrop, AudioRelease, InputInv, Spent
  <2>2. Contents(input') = Tail(queued)
    BY <2>1, RingFacts, ReleaseContents
  <2>   QED  BY <2>1, <2>2 DEF Pending, Spent, Pipe!vars
<1>4. CASE AudioFill
  <2>1. Used(output) < SlotCount /\ output' = Fill(output, Torn)
    BY <1>4, RingFacts DEF AudioFill, OutputInv, CanAcquire
  <2>2. Contents(output') = Contents(output)
    BY <2>1, RingFacts, FillContents
  <2>   QED  BY <1>4, <2>2 DEF AudioFill, Pending, Pipe!vars
<1>5. CASE AudioCopy
  <2>1. Used(output) < SlotCount /\ CanRead(input) /\ output' = Fill(output, Front(input))
    BY <1>5, RingFacts DEF AudioCopy, OutputInv, InputInv, CanAcquire
  <2>2. Front(input) \in Block \cup {Torn}
    BY <2>1, RingFacts, FrontGood DEF InputInv
  <2>3. Contents(output') = Contents(output)
    BY <2>1, <2>2, RingFacts, FillContents
  <2>   QED  BY <1>5, <2>3 DEF AudioCopy, Pending, Pipe!vars
<1>6. CASE AudioTest \/ AudioWake \/ AudioTimeout \/ AudioRead \/ AudioSignal
  BY <1>6 DEF AudioTest, AudioWake, AudioTimeout, AudioRead, AudioSignal, Pending, Pipe!vars
<1> QED  BY <1>1, <1>2, <1>3, <1>4, <1>5, <1>6 DEF AudioNext

LEMMA StepPipe ==
  ASSUME IInv, Copied, [Next]_vars
  PROVE  [Pipe!Next]_(Pipe!vars)
<1>1. RequestStop \/ UNCHANGED vars => UNCHANGED Pipe!vars
  BY DEF RequestStop, vars, Pending, Pipe!vars
<1> QED  BY <1>1, StepSubmit, StepCollect, StepForward DEF Next, Pipe!Next

\* The sidecar's data plane is a two-stage first-in first-out pipe: no block is
\* lost, repeated, reordered or corrupted, except that the oldest pending one is
\* dropped while the output ring is full; for every size of ring, width of
\* counter and set of blocks.
THEOREM RefinesPipe == Spec => ImplementsPipe
<1>1. Init => Pipe!Init
  <2> SUFFICES ASSUME Init PROVE Pipe!Init
    OBVIOUS
  <2>1. Contents(input) = <<>> /\ Contents(output) = <<>>
    <3>1. Used(NewRing(Torn)) = 0 /\ NewRing(Torn) \in Ring({Torn})
      BY NewRingSound
    <3>2. /\ Contents(NewRing(Torn)) \in Seq({Torn})
          /\ Len(Contents(NewRing(Torn))) = 0
      BY <3>1, ContentsFacts, WrapFacts
    <3>   QED  BY <3>2, EmptySeq DEF Init
  <2>   QED  BY <2>1 DEF Init, Pending, Pipe!Init
<1>2. Init => Copied
  BY DEF Init, Copied
<1> QED  BY <1>1, <1>2, NextCopied, StepPipe, Inductive, PTL DEF Spec, ImplementsPipe, Pipe!Spec
============================================================================
