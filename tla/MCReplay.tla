------------------------------ MODULE MCReplay ------------------------------
(* Small instances of Replay for TLC.                                       *)
EXTENDS Replay

\* Everything that may happen to a span.
Anything == {"stepFails", "compact", "compactFails", "emptySummary",
             "writerFails", "nudge", "queue", "limit"}
=============================================================================
