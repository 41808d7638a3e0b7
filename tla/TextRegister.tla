---------------------------- MODULE TextRegister ----------------------------
(***************************************************************************)
(* What one text field of an Einsatz promises the person who types in it,   *)
(* whatever happens between the browser and the server: a text the server   *)
(* holds is replaced only by somebody who had it on screen, and             *)
(* «Gespeichert» is said only of a newest text the server has taken.        *)
(***************************************************************************)
EXTENDS Naturals

CONSTANTS Texts, None

VARIABLES
  text,    \* what the server holds
  others,  \* how often somebody else wrote it
  known,   \* the texts this person has seen
  newest,  \* what was typed last and is not given up
  landed,  \* the server has taken the newest text
  told     \* what the line under the field says

vars == <<text, others, known, newest, landed, told>>

Init ==
  /\ text \in Texts /\ others = 0 /\ known = {}
  /\ newest = None /\ landed = FALSE /\ told = "quiet"

(* More is seen: the board, or the other text of a conflict. *)
Sees == known \subseteq known' /\ known' \subseteq Texts

Type(t) ==
  /\ newest' = t /\ landed' = FALSE /\ told' = "working"
  /\ Sees /\ t \in known'
  /\ UNCHANGED <<text, others>>

(* Something typed here is taken, knowingly replacing what was there. *)
Take(t) ==
  /\ t \in known /\ text \in known \cup {t}
  /\ text' = t
  /\ landed' = (landed \/ newest = t)
  /\ UNCHANGED <<others, known, newest, told>>

SomebodyWrites(t) ==
  /\ text' = t /\ others' = others + 1
  /\ landed' \in {landed, TRUE}
  /\ UNCHANGED <<known, newest, told>>

(* The line under the field. *)
Say ==
  /\ \/ told' = told
     \/ landed /\ told' = "saved"
     \/ newest # None /\ told' \in {"working", "unsaved"}
  /\ Sees
  /\ UNCHANGED <<text, others, newest, landed>>

(* Given up, or the person left: nothing more is said. *)
Drop ==
  /\ newest' = None /\ landed' = FALSE /\ told' = "quiet"
  /\ Sees
  /\ UNCHANGED <<text, others>>

Next ==
  \/ Say \/ Drop
  \/ \E t \in Texts : Type(t) \/ Take(t) \/ SomebodyWrites(t)

Spec == Init /\ [][Next]_vars
=============================================================================
