-------------------------- MODULE MCControlReceive --------------------------
(* ControlReceive for TLC: the answer to Hello, a command with a payload that *)
(* looks like a frame, and the last command.                                  *)
EXTENDS ControlReceive

MCCommand == {[tag |-> HelloAck, payload |-> <<>>], [tag |-> 2, payload |-> <<1, 0, 2>>],
              [tag |-> Goodbye, payload |-> <<>>]}
=============================================================================
