---------------------------- MODULE MCPrintQueue ----------------------------
(* Small queues for TLC: a board snapshot that spoils fast and a test print *)
(* that never does. A tick is some ten seconds, the long times shortened    *)
(* with their order kept.                                                   *)
EXTENDS PrintQueue

MCForever == 99
SnapshotAndTest == <<4, MCForever>>
OneTest == <<MCForever>>
=============================================================================
