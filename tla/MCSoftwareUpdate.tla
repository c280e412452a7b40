-------------------------- MODULE MCSoftwareUpdate --------------------------
(* Both kinds of update, one helper, one console, one panel.               *)
EXTENDS SoftwareUpdate

MCTargets == {"panel", "game"}
=============================================================================
