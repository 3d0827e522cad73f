---------------------------- MODULE ControlFrame ----------------------------
(***************************************************************************)
(* The framing of the control socket (ipc/control_pipe.cpp): the length of *)
(* tag and payload, little endian, then the tag, then the payload.         *)
(*                                                                         *)
(* The length takes LengthBytes = 2 bytes here and 4 in the code, and a    *)
(* byte has Base values, so that a length read at the wrong place of the   *)
(* stream is still what the bytes there make of it.                        *)
(***************************************************************************)
EXTENDS Naturals, SequencesExt

CONSTANTS
  Base,         \* values of a byte, 256 in the code
  MaxPayload    \* kMaxPayloadBytes, 1 MiB in the code

ASSUME FrameAssumption ==
  /\ Base \in Nat /\ Base > 1
  /\ MaxPayload \in Nat /\ MaxPayload + 1 < Base * Base

Byte  == 0 .. Base - 1
Frame == [tag : Byte, payload : Seq(Byte)]

LengthBytes == 2

\* The five bytes Send puts before the payload, here three.
Header(f) ==
  LET length == Len(f.payload) + 1
  IN  <<length % Base, length \div Base, f.tag>>

Encoded(f) == Header(f) \o f.payload

\* The length the first bytes of a frame stand for.
Length(bytes) == bytes[1] + Base * bytes[2]

\* Recv refuses these, and takes none of the bytes that follow.
Acceptable(length) == length # 0 /\ length <= MaxPayload

\* The bytes of a frame whose tag and payload took all that was announced.
Decoded(bytes) ==
  [tag |-> bytes[LengthBytes + 1], payload |-> SubSeq(bytes, LengthBytes + 2, Len(bytes))]

\* A reader that keeps what it has read: is there a frame at the front?
Complete(bytes) ==
  Len(bytes) > LengthBytes /\ Len(bytes) = LengthBytes + Length(bytes)

\* The bytes of a sequence of frames, end to end.
Bytes(frames) == FlattenSeq([k \in DOMAIN frames |-> Encoded(frames[k])])
=============================================================================
