------------------------- MODULE VaultRegistrySpec -------------------------
(***************************************************************************)
(* What the account registry of the Windows vault promises its caller,     *)
(* without disk steps, journals, failures or crashes.                      *)
(*                                                                         *)
(* Every account slot has at most one active data generation, bound to     *)
(* the login (Telegram owner and authorization identity) that created it.  *)
(* A generation, once retired, never becomes active again, and a caller    *)
(* is given a store only for the active generation of its own login.       *)
(***************************************************************************)
CONSTANTS Slots, Owners, Authorizations, Generations, None

VARIABLES
    active,   \* slot -> the binding in force, or None
    retired,  \* generations that may never be offered again
    store     \* slot -> generation of the Store the caller holds, or None

vars == <<active, retired, store>>

Binding == [owner: Owners, auth: Authorizations, gen: Generations]

Init ==
    /\ active = [s \in Slots |-> None]
    /\ retired = {}
    /\ store = [s \in Slots |-> None]

Bind(s, b) ==
    /\ active[s] = None
    /\ b.gen \notin retired
    /\ \A t \in Slots : active[t] # None => active[t].gen # b.gen
    /\ active' = [active EXCEPT ![s] = b]
    /\ UNCHANGED <<retired, store>>

(* The caller holds no store of a slot whose generation it gives up.       *)
Retire(S) ==
    /\ \A s \in S : active[s] # None /\ store[s] = None
    /\ active' = [s \in Slots |-> IF s \in S THEN None ELSE active[s]]
    /\ retired' = retired \cup {active[s].gen : s \in S}
    /\ UNCHANGED store

(* A creation that was never bound is thrown away.                         *)
Discard(g) ==
    /\ \A s \in Slots : active[s] # None => active[s].gen # g
    /\ retired' = retired \cup {g}
    /\ UNCHANGED <<active, store>>

Offer(s, owner, auth) ==
    /\ active[s] # None
    /\ active[s].owner = owner /\ active[s].auth = auth
    /\ store' = [store EXCEPT ![s] = active[s].gen]
    /\ UNCHANGED <<active, retired>>

(* The caller drops the stores of S; a crash drops them all.               *)
Drop(S) ==
    /\ store' = [s \in Slots |-> IF s \in S THEN None ELSE store[s]]
    /\ UNCHANGED <<active, retired>>

Next ==
    \/ \E s \in Slots, b \in Binding : Bind(s, b)
    \/ \E S \in SUBSET Slots : Retire(S) \/ Drop(S)
    \/ \E g \in Generations : Discard(g)
    \/ \E s \in Slots, o \in Owners, a \in Authorizations : Offer(s, o, a)

Spec == Init /\ [][Next]_vars
=============================================================================
