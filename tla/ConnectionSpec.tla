--------------------------- MODULE ConnectionSpec ---------------------------
(***************************************************************************)
(* What the opt-in connection mode promises its user, on Android           *)
(* (ci/android-connection) and on Windows (ci/windows-connection-native):  *)
(* every wish takes effect at once, a wish for the tunnel has at most one  *)
(* outcome, and no outcome of an earlier wish ever shows.                  *)
(***************************************************************************)
EXTENDS Naturals

VARIABLES wishes, phase

vars == <<wishes, phase>>

Init == wishes = 0 /\ phase = "off"

Wish(on) == wishes' = wishes + 1 /\ phase' = IF on THEN "starting" ELSE "off"

Outcome(p) == phase = "starting" /\ phase' = p /\ UNCHANGED wishes

Next == \/ \E on \in BOOLEAN : Wish(on)
        \/ Outcome("up")
        \/ Outcome("failed")

Spec == Init /\ [][Next]_vars
=============================================================================
