--------------------------- MODULE MCPluginChain ---------------------------
(* PluginChain for TLC: two slots, two formats, and one object more than    *)
(* slots, for the one the audio thread may still hold.                      *)
EXTENDS PluginChain, TLC

CONSTANTS vst3, clap, o1, o2, o3

MCFormat == {vst3, clap}
MCObject == {o1, o2, o3}
Symmetry == Permutations(MCFormat) \cup Permutations(MCObject)
============================================================================
