----------------------------- MODULE AudioPath -----------------------------
(***************************************************************************)
(* The audio data plane: the host's writer, the input ring and its         *)
(* semaphore, the sidecar's audio loop (RunPassthrough), the output ring   *)
(* and its semaphore, the host's reader, and the stop flags.               *)
(*                                                                         *)
(* Three threads share the rings.  The audio loop takes one step per call  *)
(* it makes; storing a block into a slot takes two, and between them the   *)
(* slot holds Torn.  The host's two threads live in another program: they  *)
(* are modelled from the contract the sidecar's code relies on (one writer *)
(* and one reader per ring, a block stored before it is published, one     *)
(* post per block).                                                        *)
(***************************************************************************)
EXTENDS ShmRing, Sequences

CONSTANTS
  Block,       \* the blocks a host may send
  Torn,        \* a slot in the middle of a store, or never written
  SemMax       \* SEM_VALUE_MAX: sem_post fails beyond it

ASSUME BlockAssumption ==
  /\ Block # {}
  /\ Torn \notin Block
ASSUME SemAssumption == SemMax \in Nat \ {0}

VARIABLES
  input, output,                  \* the two rings
  inputWakeup, outputWakeup,      \* semaphore counts
  audio,                          \* where the audio loop stands
  writer, reader,                 \* where the host's two threads stand
  stop                            \* *stopFlag or controlStopFlag

vars == <<input, output, inputWakeup, outputWakeup, audio, writer, reader, stop>>

AudioStates ==
  {"test", "wait", "read", "acquire", "drop", "fill", "copy",
   "publish", "release", "signal", "returned"}
WriterStates == {"idle", "store", "publish", "signal", "off"}
ReaderStates == {"wait", "read", "release"}

TypeOK ==
  /\ input \in Ring(Block \cup {Torn})
  /\ output \in Ring(Block \cup {Torn})
  /\ inputWakeup \in 0 .. SemMax
  /\ outputWakeup \in 0 .. SemMax
  /\ audio \in AudioStates
  /\ writer \in WriterStates
  /\ reader \in ReaderStates
  /\ stop \in BOOLEAN

Init ==
  /\ input = NewRing(Torn)
  /\ output = NewRing(Torn)
  /\ inputWakeup = 0
  /\ outputWakeup = 0
  /\ audio = "test"
  /\ writer = "idle"
  /\ reader = "wait"
  /\ stop = FALSE

\* Mutant of Signal: no limit.
Signal_Unlimited(count) == count + 1

\* Wakeup::Signal: sem_post, whose failure at the limit is ignored.
Signal(count) == IF count < SemMax THEN count + 1 ELSE count

----------------------------------------------------------------------------
(* The host. *)

\* The writer takes a free slot and starts to store a block.
WriterAcquire ==
  /\ writer = "idle"
  /\ CanAcquire(input)
  /\ input' = Fill(input, Torn)
  /\ writer' = "store"
  /\ UNCHANGED <<output, inputWakeup, outputWakeup, audio, reader, stop>>

WriterStore ==
  /\ writer = "store"
  /\ \E b \in Block : input' = Fill(input, b)
  /\ writer' = "publish"
  /\ UNCHANGED <<output, inputWakeup, outputWakeup, audio, reader, stop>>

WriterPublish ==
  /\ writer = "publish"
  /\ input' = Publish(input)
  /\ writer' = "signal"
  /\ UNCHANGED <<output, inputWakeup, outputWakeup, audio, reader, stop>>

\* One post per block.
WriterSignal ==
  /\ writer = "signal"
  /\ inputWakeup' = Signal(inputWakeup)
  /\ writer' = "idle"
  /\ UNCHANGED <<input, output, outputWakeup, audio, reader, stop>>

\* The host sends no more blocks.
WriterOff ==
  /\ writer = "idle"
  /\ writer' = "off"
  /\ UNCHANGED <<input, output, inputWakeup, outputWakeup, audio, reader, stop>>

ReaderWake ==
  /\ reader = "wait"
  /\ outputWakeup > 0
  /\ outputWakeup' = outputWakeup - 1
  /\ reader' = "read"
  /\ UNCHANGED <<input, output, inputWakeup, audio, writer, stop>>

\* Read: hold the oldest block, or go back to wait for the next post.
ReaderRead ==
  /\ reader = "read"
  /\ reader' = IF CanRead(output) THEN "release" ELSE "wait"
  /\ UNCHANGED <<input, output, inputWakeup, outputWakeup, audio, writer, stop>>

ReaderRelease ==
  /\ reader = "release"
  /\ output' = Release(output)
  /\ reader' = "read"
  /\ UNCHANGED <<input, inputWakeup, outputWakeup, audio, writer, stop>>

\* A signal handler or the control reader asks the loop to stop.
RequestStop ==
  /\ ~stop
  /\ stop' = TRUE
  /\ UNCHANGED <<input, output, inputWakeup, outputWakeup, audio, writer, reader>>

----------------------------------------------------------------------------
(* The audio loop. *)

AudioTest ==
  /\ audio = "test"
  /\ audio' = IF stop THEN "returned" ELSE "wait"
  /\ UNCHANGED <<input, output, inputWakeup, outputWakeup, writer, reader, stop>>

\* inputWakeup.Wait(50): a post is there, or comes before the timeout.
AudioWake ==
  /\ audio = "wait"
  /\ inputWakeup > 0
  /\ inputWakeup' = inputWakeup - 1
  /\ audio' = "read"
  /\ UNCHANGED <<input, output, outputWakeup, writer, reader, stop>>

\* Mutant of AudioTimeout: wait on, without a look at the stop flags.
AudioTimeout_WaitsOn ==
  /\ audio = "wait"
  /\ inputWakeup = 0
  /\ audio' = "wait"
  /\ UNCHANGED <<input, output, inputWakeup, outputWakeup, writer, reader, stop>>

\* No post in 50 ms: the loop continues without looking at the ring.
AudioTimeout ==
  /\ audio = "wait"
  /\ inputWakeup = 0
  /\ audio' = "test"
  /\ UNCHANGED <<input, output, inputWakeup, outputWakeup, writer, reader, stop>>

AudioRead ==
  /\ audio = "read"
  /\ audio' = IF CanRead(input) THEN "acquire" ELSE "test"
  /\ UNCHANGED <<input, output, inputWakeup, outputWakeup, writer, reader, stop>>

\* Mutant of AudioAcquire: no full test.
AudioAcquire_Unchecked ==
  /\ audio = "acquire"
  /\ audio' = "fill"
  /\ UNCHANGED <<input, output, inputWakeup, outputWakeup, writer, reader, stop>>

\* Mutant of AudioAcquire: a full output ring ends the drain.
AudioAcquire_Breaks ==
  /\ audio = "acquire"
  /\ audio' = IF CanAcquire(output) THEN "fill" ELSE "test"
  /\ UNCHANGED <<input, output, inputWakeup, outputWakeup, writer, reader, stop>>

\* Mutant of AudioAcquire: wait for room in the output ring.
AudioAcquire_Waits ==
  /\ audio = "acquire"
  /\ CanAcquire(output)
  /\ audio' = "fill"
  /\ UNCHANGED <<input, output, inputWakeup, outputWakeup, writer, reader, stop>>

AudioAcquire ==
  /\ audio = "acquire"
  /\ audio' = IF CanAcquire(output) THEN "fill" ELSE "drop"
  /\ UNCHANGED <<input, output, inputWakeup, outputWakeup, writer, reader, stop>>

\* The output ring was full: release the input block, post nothing.
AudioDrop ==
  /\ audio = "drop"
  /\ input' = Release(input)
  /\ audio' = "read"
  /\ UNCHANGED <<output, inputWakeup, outputWakeup, writer, reader, stop>>

\* The header and the payload are being written.
AudioFill ==
  /\ audio = "fill"
  /\ output' = Fill(output, Torn)
  /\ audio' = "copy"
  /\ UNCHANGED <<input, inputWakeup, outputWakeup, writer, reader, stop>>

\* The payload, by way of the chain if it is mono: the same block, whatever
\* plugins did to its samples.
AudioCopy ==
  /\ audio = "copy"
  /\ output' = Fill(output, Front(input))
  /\ audio' = "publish"
  /\ UNCHANGED <<input, inputWakeup, outputWakeup, writer, reader, stop>>

AudioPublish ==
  /\ audio = "publish"
  /\ output' = Publish(output)
  /\ audio' = "release"
  /\ UNCHANGED <<input, inputWakeup, outputWakeup, writer, reader, stop>>

\* Mutant of AudioRelease: the input block is not released.
AudioRelease_Forgotten ==
  /\ audio = "release"
  /\ audio' = "signal"
  /\ UNCHANGED <<input, output, inputWakeup, outputWakeup, writer, reader, stop>>

\* Mutant of AudioRelease: post only when the input ring has run dry.
AudioRelease_Batched ==
  /\ audio = "release"
  /\ input' = Release(input)
  /\ audio' = IF Used(input) > 1 THEN "read" ELSE "signal"
  /\ UNCHANGED <<output, inputWakeup, outputWakeup, writer, reader, stop>>

AudioRelease ==
  /\ audio = "release"
  /\ input' = Release(input)
  /\ audio' = "signal"
  /\ UNCHANGED <<output, inputWakeup, outputWakeup, writer, reader, stop>>

\* outputWakeup.Signal(), then the inner loop reads again.
AudioSignal ==
  /\ audio = "signal"
  /\ outputWakeup' = Signal(outputWakeup)
  /\ audio' = "read"
  /\ UNCHANGED <<input, output, inputWakeup, writer, reader, stop>>

----------------------------------------------------------------------------
WriterNext ==
  WriterAcquire \/ WriterStore \/ WriterPublish \/ WriterSignal \/ WriterOff
ReaderNext == ReaderWake \/ ReaderRead \/ ReaderRelease
AudioNext ==
  \/ AudioTest \/ AudioWake \/ AudioTimeout \/ AudioRead \/ AudioAcquire
  \/ AudioDrop \/ AudioFill \/ AudioCopy \/ AudioPublish \/ AudioRelease
  \/ AudioSignal

Next == WriterNext \/ ReaderNext \/ AudioNext \/ RequestStop

(***************************************************************************)
(* The audio thread is scheduled as long as it can run.  The host owes the *)
(* sidecar one thing: a block it started to send is published and posted.  *)
(* Whether it sends another one, or ever collects, is up to it.            *)
(***************************************************************************)
Fairness ==
  /\ WF_vars(AudioNext)
  /\ WF_vars(WriterStore \/ WriterPublish \/ WriterSignal)

Spec == Init /\ [][Next]_vars /\ Fairness

----------------------------------------------------------------------------
(* Properties. *)

\* No torn or overwritten block: whatever either side does meanwhile, every
\* published block not yet released is whole, and neither ring holds more
\* than its slots.  (Acquire's full test, the slot mask and the order of
\* store, Publish and Release in RunPassthrough.)
BlocksWhole == Sound(input, Block) /\ Sound(output, Block)

\* Who may touch which slot.  The writer holds a free slot of the input ring,
\* the reader a published one of the output ring; the loop holds one of each
\* while it copies, from its Read to its Release and from its Acquire to its
\* Publish.  What is about to be published is complete.
SlotOwnership ==
  /\ writer \in {"store", "publish"} => CanAcquire(input)
  /\ writer = "publish" => input.slots[SlotAt(input.head)] \in Block
  /\ audio \in {"acquire", "drop", "fill", "copy", "publish", "release"} => CanRead(input)
  /\ audio \in {"fill", "copy", "publish"} => CanAcquire(output)
  /\ audio = "publish" => output.slots[SlotAt(output.head)] \in Block
  /\ reader = "release" => CanRead(output)

\* The audio loop never sleeps on a block: when it is about to wait, or waits,
\* and a block is published, a post is there or the writer is about to make
\* it.  A timeout does not look at the ring, so a missing post would strand
\* the block until the next one.
InputNeverStranded ==
  audio \in {"test", "wait"} /\ CanRead(input) => inputWakeup > 0 \/ writer = "signal"

\* The same for the host's reader: every block the audio loop published has
\* its post made or still to come, whatever was dropped in between.
OutputNeverStranded ==
  reader = "wait" /\ CanRead(output)
    => outputWakeup > 0 \/ audio \in {"release", "signal"}

\* The blocks of the input ring the loop has not decided about.  From its
\* decision (publish, or drop) to the release the oldest one is spent.
Pending ==
  LET queued == Contents(input)
  IN  IF audio \in {"release", "drop"} THEN Tail(queued) ELSE queued

Pipe == INSTANCE BlockPipe WITH pending <- Pending, ready <- Contents(output), Capacity <- SlotCount

\* The data plane implements the two-stage pipe: no block is lost, repeated,
\* reordered or corrupted, except that the oldest pending one is dropped when
\* the output ring is full.
ImplementsPipe == Pipe!Spec

\* The audio loop never keeps published blocks waiting: again and again it
\* takes or drops one, or has none left, unless it is asked to stop; even if
\* the host never collects, and never sends again.
BlockHandled ==
  []<>(~CanRead(input) \/ audio \in {"drop", "release"} \/ stop)

\* RunPassthrough returns after a stop request once the host stops sending.
StopReturns == (stop /\ writer = "off") ~> (audio = "returned")
============================================================================
