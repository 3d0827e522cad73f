------------------------------ MODULE ShmRing ------------------------------
(***************************************************************************)
(* The SPSC ring of audio blocks in shared memory (ipc/shm_ring.h).        *)
(*                                                                         *)
(* A ring is a record: two free-running counters and an array of slots.    *)
(* The producer advances head, the consumer advances tail.  Both are       *)
(* std::atomic<uint64_t>: they count modulo Wrap (2^64 in the code), and   *)
(* the slot of a counter is counter & (slotCount - 1), which for the       *)
(* power-of-two slotCount the code requires is counter % SlotCount.        *)
(*                                                                         *)
(* The operators are the four calls of class ShmRing.  Each loads its own  *)
(* side's counter, which nobody else writes, and the other side's, which   *)
(* only ever moves in the caller's favour; so one step per call loses no   *)
(* behaviour.                                                              *)
(***************************************************************************)
EXTENDS Integers

CONSTANTS
  SlotCount,   \* blocks in a ring: RingControlBlock::slotCount
  Wrap         \* the number of values of a counter: 2^64 in the code

ASSUME RingAssumption ==
  /\ SlotCount \in Nat \ {0}
  /\ Wrap \in Nat
  /\ \E rounds \in 2 .. Wrap : Wrap = rounds * SlotCount

Counter == 0 .. Wrap - 1
Slot    == 0 .. SlotCount - 1

\* A ring whose slots hold members of Content.
Ring(Content) == [head : Counter, tail : Counter, slots : [Slot -> Content]]

SlotAt(counter) == counter % SlotCount

\* A counter after its fetch-and-store of counter + 1, in uint64 arithmetic.
Advance(counter) == (counter + 1) % Wrap

\* head - tail, in uint64 arithmetic.
Used(r) == (r.head - r.tail) % Wrap

\* CreateNew zero-fills the mapping: no block is published yet.
NewRing(filler) ==
  [head |-> 0, tail |-> 0, slots |-> [s \in Slot |-> filler]]

----------------------------------------------------------------------------
(* Producer side. *)

\* Mutant of CanAcquire: the full test lets one block too many in.
CanAcquire_OffByOne(r) == Used(r) <= SlotCount

\* Acquire returns a slot, not nullptr.
CanAcquire(r) == Used(r) < SlotCount

\* The producer stores into the slot Acquire returned.
Fill(r, content) == [r EXCEPT !.slots[SlotAt(r.head)] = content]

Publish(r) == [r EXCEPT !.head = Advance(r.head)]

----------------------------------------------------------------------------
(* Consumer side. *)

\* Read returns a slot, not nullptr.
CanRead(r) == r.head # r.tail

\* The slot Read returns.
Front(r) == r.slots[SlotAt(r.tail)]

Release(r) == [r EXCEPT !.tail = Advance(r.tail)]

----------------------------------------------------------------------------
\* The published blocks not yet released, oldest first.
Contents(r) ==
  [k \in 1 .. Used(r) |-> r.slots[SlotAt((r.tail + k - 1) % Wrap)]]

\* The ring holds no more than its slots, and each holds a member of Good.
Sound(r, Good) ==
  /\ Used(r) <= SlotCount
  /\ \A k \in 0 .. Used(r) - 1 : r.slots[SlotAt((r.tail + k) % Wrap)] \in Good
============================================================================
