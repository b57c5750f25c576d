-------------------------- MODULE MCKeyboardUart --------------------------
(* Small instances of KeyboardUart for TLC: one key; one or both remotes. *)
EXTENDS KeyboardUart

OneKey == {"k"}
Extender == {"extender"}
BothRemotes == {"browser", "extender"}
Everyone == {"console", "telemetry", "parallel", "layout"}
============================================================================
