-------------------------- MODULE MCHostedPlugin --------------------------
(* HostedPlugin for TLC: two descriptors, handlers, timers and sizes. *)
EXTENDS HostedPlugin, TLC

CONSTANTS fd1, fd2, h1, h2, t1, t2

MCFd      == {fd1, fd2}
MCHandler == {h1, h2}
MCTimer   == {t1, t2}
MCSize    == 1..2
Symmetry  == Permutations(MCFd) \cup Permutations(MCHandler) \cup Permutations(MCTimer)
===========================================================================
