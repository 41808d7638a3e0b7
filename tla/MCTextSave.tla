------------------------------ MODULE MCTextSave ------------------------------
(* Small instances of TextSave for TLC. *)
EXTENDS TextSave

CONSTANTS notes, contact, T0, T1, T2, a, b
=============================================================================
