---------------------------- MODULE MCLiveDemo ----------------------------
(* Instances of AuditTrail and LiveDemo for TLC. *)
EXTENDS LiveDemo

CONSTANTS a, b, c, d

TwoRuns == <<<<a, b>>, <<c>>>>

\* Replays of one entry each: with a repetition, and with a bad entry.
MCBatches == {<<a, d, d>>, <<b, NoId, d>>}

OneBatch == {<<a>>}
=============================================================================
