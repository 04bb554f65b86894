--------------------------- MODULE UpdateRegister ---------------------------
(***************************************************************************)
(* A register to which updates are added, one at a time and at once.       *)
(* Reset updates start the value over.                                     *)
(***************************************************************************)
CONSTANTS Update, Reset
VARIABLE value

Init == value = {}
Add(u) == u \notin value /\ value' = value \cup {u}
Restart(u) == value' = {u}
Next == \/ \E u \in Update \ Reset : Add(u)
        \/ \E u \in Reset : Restart(u)

Spec == Init /\ [][Next]_value
=============================================================================
