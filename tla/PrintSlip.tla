----------------------------- MODULE PrintSlip -----------------------------
(***************************************************************************)
(* What the print queue promises about one slip, whatever happens between  *)
(* the backend, its agents and their printers: it is reported printed only *)
(* once paper came out, nothing that is settled comes out or comes back,   *)
(* and a second paper has a cause the backend could not see.               *)
(***************************************************************************)
EXTENDS Naturals

VARIABLES
    state,  \* "absent", "queued", "completed", "expired" or "deleted"
    paper,  \* how often it came out of a printer, up to twice
    doubt   \* paper came out that the backend does not know of

vars == <<state, paper, doubt>>

Init == state = "absent" /\ paper = 0 /\ doubt = FALSE

Submit ==
    /\ state = "absent"
    /\ state' = "queued"
    /\ UNCHANGED <<paper, doubt>>

\* Of a slip that waits, or that was deleted while a printer had it.
PutOut ==
    /\ state \in {"queued", "deleted"}
    /\ paper' = IF paper < 2 THEN paper + 1 ELSE paper
    /\ doubt => doubt'
    /\ doubt' \in BOOLEAN
    /\ paper > 0 => doubt'
    /\ UNCHANGED state

\* Nobody is left to say that the paper is out.
GoUnheard ==
    /\ paper > 0
    /\ doubt' = TRUE
    /\ UNCHANGED <<state, paper>>

Complete ==
    /\ state = "queued" /\ paper > 0
    /\ state' = "completed"
    /\ UNCHANGED <<paper, doubt>>

Expire ==
    /\ state = "queued"
    /\ state' = "expired"
    /\ UNCHANGED <<paper, doubt>>

Delete ==
    /\ state \in {"queued", "completed", "expired"}
    /\ state' = "deleted"
    /\ UNCHANGED <<paper, doubt>>

Next == Submit \/ PutOut \/ GoUnheard \/ Complete \/ Expire \/ Delete

Spec == Init /\ [][Next]_vars
=============================================================================
