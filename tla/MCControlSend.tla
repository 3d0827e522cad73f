--------------------------- MODULE MCControlSend ---------------------------
(* ControlSend for TLC: a reader, a GUI thread and a drain thread; an empty *)
(* payload, one of two bytes, and one over the limit.                       *)
EXTENDS ControlSend

CONSTANTS reader, gui, drain

MCSender  == {reader, gui, drain}
MCLossy   == {drain}
MCMessage == {[tag |-> 1, payload |-> <<>>], [tag |-> 2, payload |-> <<3, 0>>],
              [tag |-> 2, payload |-> <<0, 0, 0>>]}
============================================================================
