------------------------------- MODULE Cursor -------------------------------
(***************************************************************************)
(* What every iterator handle of the DASI API promises to its client,      *)
(* whatever happens inside: a finite result is handed over one element at  *)
(* a time, each element once and in order; completion is reported only     *)
(* when all were handed over, and is final.  Failing calls change nothing  *)
(* a client can see.                                                       *)
(***************************************************************************)
EXTENDS Naturals

CONSTANT Sizes      \* the numbers of elements a result may have

VARIABLES
  open,      \* the handle exists
  size,      \* number of elements of its result
  current,   \* the element handed over last, 0 before the first
  ended      \* completion has been reported

cursorState == <<open, size, current, ended>>

Init == /\ open = FALSE
        /\ size = 0
        /\ current = 0
        /\ ended = FALSE

(* A query is answered by a new handle. *)
Open == /\ ~open
        /\ open' = TRUE
        /\ size' \in Sizes
        /\ current' = 0
        /\ ended' = FALSE

(* A call of next that hands over an element. *)
Give == /\ open
        /\ ~ended
        /\ current < size
        /\ current' = current + 1
        /\ UNCHANGED <<open, size, ended>>

(* The first call of next that reports completion. *)
End == /\ open
       /\ ~ended
       /\ current = size
       /\ ended' = TRUE
       /\ UNCHANGED <<open, size, current>>

Close == /\ open
         /\ open' = FALSE
         /\ UNCHANGED <<size, current, ended>>

Next == Open \/ Give \/ End \/ Close

Spec == Init /\ [][Next]_cursorState
=============================================================================
