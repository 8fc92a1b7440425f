-------------------------- MODULE MCArchiveWorker --------------------------
EXTENDS ArchiveWorker, TLC

(* One job of each kind may be outstanding, so the limits are met.         *)
OneEach == [k \in Kinds |-> 1]

(* Slots and logins are only compared for equality.                        *)
Symmetry == Permutations(Slots) \cup Permutations(Logins)
=============================================================================
