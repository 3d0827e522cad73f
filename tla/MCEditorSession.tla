-------------------------- MODULE MCEditorSession --------------------------
(* Small instances of EditorSession: one VST3 slot and one wrapper slot. *)
EXTENDS EditorSession

CONSTANTS vst3, clap, v1, v2, v3

MCSlot    == {vst3, clap}
MCCounted == {vst3}
MCView    == {v1, v2, v3}
============================================================================
