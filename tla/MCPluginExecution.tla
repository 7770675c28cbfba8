-------------------------- MODULE MCPluginExecution --------------------------
(* Small instances of PluginExecution for TLC. *)
EXTENDS PluginExecution

CONSTANTS c1, c2

\* Calendars that are empty, busy in the morning, full, full of gaps, and busy here
\* and there.
MCAgendas == {{}, 3..7, 0..20, {0, 1, 3, 5, 7, 8, 9, 10, 12, 15, 17}, {2, 7, 11, 13}}
=============================================================================
