--------------------------- MODULE ArchiveLogSpec ---------------------------
(***************************************************************************)
(* What the Windows archive store promises, without files, catalogs,       *)
(* staging or cleanup: a log of captured entries that loses only its       *)
(* oldest ones, where the answer to every add tells what happened to it.   *)
(* Entries are numbered in the order their adds began.                     *)
(***************************************************************************)
EXTENDS Naturals

CONSTANT MaxAdds

Ids == 1..MaxAdds

VARIABLES
    kept,    \* the entries of the log
    answer   \* what the caller of each add knows of it

vars == <<kept, answer>>

Init ==
    /\ kept = {}
    /\ answer = [i \in Ids |-> "none"]

Begin(i) ==
    /\ answer[i] = "none"
    /\ answer' = [answer EXCEPT ![i] = "pending"]
    /\ UNCHANGED kept

(* The entry is in the log from here on, and may push out older ones.      *)
Append(i, gone) ==
    /\ answer[i] = "pending" /\ i \notin kept
    /\ gone \subseteq kept
    /\ \A g \in gone, k \in kept \ gone : g < k
    /\ kept' = (kept \ gone) \cup {i}
    /\ UNCHANGED answer

Succeed(i) ==
    /\ answer[i] = "pending" /\ i \in kept
    /\ answer' = [answer EXCEPT ![i] = "added"]
    /\ UNCHANGED kept

Fail(i) ==
    /\ answer[i] = "pending" /\ i \notin kept
    /\ answer' = [answer EXCEPT ![i] = "failed"]
    /\ UNCHANGED kept

(* The process stopped before the add returned.                            *)
Stop(i) ==
    /\ answer[i] = "pending"
    /\ answer' = [answer EXCEPT ![i] = "unknown"]
    /\ UNCHANGED kept

Next == \E i \in Ids :
    \/ Begin(i) \/ Succeed(i) \/ Fail(i) \/ Stop(i)
    \/ \E gone \in SUBSET Ids : Append(i, gone)

Spec == Init /\ [][Next]_vars
=============================================================================
