----------------------------- MODULE MCBoardSync -----------------------------
(* Small instances of BoardSync for TLC. *)
EXTENDS BoardSync

CONSTANTS A, B, theirs, elsewhere, text, move, take, post

(* One Ereignis; or two, `elsewhere` being the change made to the other's. *)
AllOfA == [c \in Changes |-> A]
ElsewhereOfB == [c \in Changes |-> IF c = elsewhere THEN B ELSE A]
=============================================================================
