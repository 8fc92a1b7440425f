--------------------------- MODULE DesktopFolders ---------------------------
(***************************************************************************)
(* Chat folders of the Windows client: what ci/folders makes of the edits, *)
(* the order, the removal and the bulk save of folders, and of the loads   *)
(* that bring the client's copy back in line with the server.              *)
(*                                                                         *)
(* A folder's contents, and the order, are each the number of the edit     *)
(* they come from.  The server handles requests in any order, except that  *)
(* orders are sent one after the other; its answers come back in any       *)
(* order.  Loads are handled and answered like every other request.        *)
(***************************************************************************)
EXTENDS Naturals, FiniteSets

CONSTANTS Folders,             \* folder ids
          Order,               \* what names the order among the things edited
          MaxEdits, MaxForced  \* bounds: edits and loads forced by an update

OrderIsNoFolder == Order \notin Folders

Things == Folders \cup {Order}

VARIABLES
    server,   \* thing -> edit the server holds
    local,    \* ChatFilters: thing -> edit the client shows
    made,     \* number of edits so far
    requests, \* edits in flight: edit, thing, by, and what the server said
    load,     \* _loadRequestId: "none", "sent" or "read", and what was read
    pending,  \* _capyReloadPending
    order,    \* _saveOrderRequestId: an edit, 0 if none
    bulk,     \* CapySaveState and ids: all, ids, failed, finished, continued
    accepted, \* edits the server accepted
    forced,   \* loads forced so far
    lost      \* is the client's copy known to be behind?

vars == <<server, local, made, requests, load, pending, order, bulk, accepted, forced, lost>>

Edits  == 1..made
Values == [Things -> 0..made]
Says   == {"nothing", "true", "false"}
Ways   == {"edit", "order", "remove", "bulk"}
NoLoad == [state |-> "none", value |-> [t \in Things |-> 0]]
NoBulk == [all |-> {}, ids |-> {}, failed |-> FALSE, finished |-> FALSE, continued |-> 0]

TypeOK ==
    /\ server \in Values /\ local \in Values
    /\ requests \subseteq [edit : Edits, thing : Things, by : Ways, says : Says]
    /\ load \in [state : {"none", "sent", "read"}, value : Values]
    /\ pending \in BOOLEAN /\ lost \in BOOLEAN
    /\ order \in 0..made /\ accepted \subseteq Edits
    /\ bulk.ids \subseteq bulk.all /\ bulk.all \subseteq Edits /\ bulk.continued \in 0..made

Init ==
    /\ server = [t \in Things |-> 0] /\ local = server
    /\ made = 0 /\ requests = {} /\ accepted = {}
    /\ load = NoLoad /\ pending = FALSE /\ order = 0 /\ forced = 0
    /\ bulk = NoBulk /\ lost = FALSE

----------------------------------------------------------------------------
(* ChatFilters::load and reload *)

(* A new load reads the server after everything the client knows of.       *)
Load == load' = [NoLoad EXCEPT !.state = "sent"] /\ pending' = FALSE /\ lost' = FALSE

(* Mutant: a reload during a load is forgotten.                            *)
ReloadForgetful == IF load = NoLoad THEN Load ELSE UNCHANGED <<load, pending, lost>>

Reload == IF load = NoLoad THEN Load ELSE pending' = TRUE /\ UNCHANGED <<load, lost>>

(* An update that cannot be applied: the load in flight is cancelled.      *)
ForceLoad ==
    /\ forced < MaxForced /\ forced' = forced + 1
    /\ Load
    /\ UNCHANGED <<server, local, made, requests, order, bulk, accepted>>

(* A pending reload starts only after the answer was applied.              *)
LoadDone ==
    /\ load.state = "read"
    /\ local' = load.value
    /\ IF pending THEN Load ELSE load' = NoLoad /\ UNCHANGED <<pending, lost>>
    /\ UNCHANGED <<server, made, requests, order, bulk, accepted, forced>>

LoadFailed ==
    /\ load # NoLoad
    /\ IF pending THEN Load ELSE load' = NoLoad /\ lost' = TRUE /\ UNCHANGED pending
    /\ UNCHANGED <<server, local, made, requests, order, bulk, accepted, forced>>

----------------------------------------------------------------------------
(* Edits by the user *)

Request(edit, thing, by) == [edit |-> edit, thing |-> thing, by |-> by, says |-> "nothing"]

Outstanding(thing) == {r \in requests : r.thing = thing}

(* A folder is edited whatever is under way for it, its removal included.  *)
EditFilter(f) ==
    /\ made < MaxEdits
    /\ made' = made + 1
    /\ local' = [local EXCEPT ![f] = made']
    /\ requests' = requests \cup {Request(made', f, "edit")}
    /\ UNCHANGED <<server, load, pending, order, bulk, accepted, forced, lost>>

SaveOrder ==
    /\ made < MaxEdits
    /\ made' = made + 1
    /\ local' = [local EXCEPT ![Order] = made']
    /\ requests' = requests \cup {Request(made', Order, "order")}
    /\ order' = made'
    /\ UNCHANGED <<server, load, pending, bulk, accepted, forced, lost>>

(* The folder stays, to be edited or removed again, until the answer.      *)
Remove(f) ==
    /\ made < MaxEdits
    /\ made' = made + 1
    /\ requests' = requests \cup {Request(made', f, "remove")}
    /\ UNCHANGED <<server, local, load, pending, order, bulk, accepted, forced, lost>>

(* The settings save every folder, one request each.                       *)
SaveAll ==
    LET last   == made + Cardinality(Folders)
        number == CHOOSE n \in [Folders -> made + 1 .. last] :
                      \A f, g \in Folders : n[f] = n[g] => f = g
    IN  /\ bulk = NoBulk /\ last <= MaxEdits
        /\ local' = [t \in Things |-> IF t \in Folders THEN number[t] ELSE local[t]]
        /\ requests' = requests \cup {Request(number[f], f, "bulk") : f \in Folders}
        /\ bulk' = [NoBulk EXCEPT !.all = made + 1 .. last, !.ids = made + 1 .. last]
        /\ made' = last
        /\ UNCHANGED <<server, load, pending, order, accepted, forced, lost>>

----------------------------------------------------------------------------
(* Server *)

(* An edit is accepted or refused; orders are handled as they were sent.   *)
Handle(r) ==
    /\ r \in requests /\ r.says = "nothing"
    /\ r.by = "order" => \A q \in Outstanding(Order) : q.says = "nothing" => q.edit >= r.edit
    /\ \/ /\ server' = [server EXCEPT ![r.thing] = r.edit]
          /\ accepted' = accepted \cup {r.edit}
          /\ requests' = (requests \ {r}) \cup {[r EXCEPT !.says = "true"]}
       \/ /\ requests' = (requests \ {r}) \cup {[r EXCEPT !.says = "false"]}
          /\ UNCHANGED <<server, accepted>>
    /\ UNCHANGED <<local, made, load, pending, order, bulk, forced, lost>>

Read ==
    /\ load.state = "sent"
    /\ load' = [state |-> "read", value |-> server]
    /\ UNCHANGED <<server, local, made, requests, pending, order, bulk, accepted, forced, lost>>

----------------------------------------------------------------------------
(* Answers: false and an error are taken alike *)

Answered(r, by) == r \in requests /\ r.by = by /\ r.says # "nothing"
                   /\ requests' = requests \ {r}

EditAnswered(r) ==
    /\ Answered(r, "edit") /\ Reload
    /\ UNCHANGED <<server, local, made, order, bulk, accepted, forced>>

(* capyOrderFinished ignores all but the latest order.                     *)
OrderAnswered(r) ==
    /\ Answered(r, "order")
    /\ IF r.edit = order THEN order' = 0 /\ Reload ELSE UNCHANGED <<order, load, pending, lost>>
    /\ UNCHANGED <<server, local, made, bulk, accepted, forced>>

(* Is the server's latest change of thing answered already?                *)
Overtaken(thing) == \A q \in Outstanding(thing) : q.says = "true" => q.edit # server[thing]

(* The one answer that is applied without a reload: it shows the removal   *)
(* though a load has read the server before, or, with no load to correct   *)
(* it, though a later change was answered first.                           *)
RemoveAnswered(r) ==
    /\ Answered(r, "remove")
    /\ IF r.says = "true"
       THEN /\ local' = [local EXCEPT ![r.thing] = r.edit]
            /\ lost' = \/ lost
                       \/ load.state = "read"
                       \/ load = NoLoad /\ Overtaken(r.thing)
       ELSE UNCHANGED <<local, lost>>
    /\ UNCHANGED <<server, made, load, pending, order, bulk, accepted, forced>>

(* Mutant: an answer that says false is taken for success.                 *)
BulkAnsweredAny(r) ==
    LET left == bulk.ids \ {r.edit}
    IN  /\ Answered(r, "bulk")
        /\ IF left # {} THEN bulk' = [bulk EXCEPT !.ids = left]
                             /\ UNCHANGED <<load, pending, lost>>
           ELSE bulk' = [bulk EXCEPT !.ids = left, !.finished = TRUE, !.continued = @ + 1]
                /\ Reload
        /\ UNCHANGED <<server, local, made, order, accepted, forced>>

BulkAnswered(r) ==
    LET left   == bulk.ids \ {r.edit}
        failed == bulk.failed \/ r.says = "false"
    IN  /\ Answered(r, "bulk")
        /\ IF left # {} \/ bulk.finished
           THEN bulk' = [bulk EXCEPT !.ids = left, !.failed = failed]
                /\ UNCHANGED <<load, pending, lost>>
           ELSE bulk' = [bulk EXCEPT !.ids = left, !.failed = failed, !.finished = TRUE,
                                     !.continued = IF failed THEN @ ELSE @ + 1]
                /\ Reload
        /\ UNCHANGED <<server, local, made, order, accepted, forced>>

----------------------------------------------------------------------------
User == (\E f \in Folders : EditFilter(f) \/ Remove(f)) \/ SaveOrder \/ SaveAll \/ ForceLoad

Network == \/ \E r \in requests : \/ Handle(r) \/ EditAnswered(r) \/ OrderAnswered(r)
                                  \/ RemoveAnswered(r) \/ BulkAnswered(r)
           \/ Read \/ LoadDone \/ LoadFailed

Next == User \/ Network

Spec == Init /\ [][Next]_vars

----------------------------------------------------------------------------
(* Properties *)

Quiet == requests = {} /\ load = NoLoad

(* Whatever was refused, overtaken or loaded in between, the client shows  *)
(* what the server holds once everything is answered ("Refresh             *)
(* authoritative folder state without restoring stale optimistic           *)
(* snapshots").  Three cases are known to leave it behind: a load that     *)
(* failed, a removal answered while a load brings what was read before,    *)
(* and a removal answered after a later change of its folder.              *)
Reconciled == Quiet /\ ~lost => local = server

(* The settings go on only if the server accepted every change, once, and  *)
(* never stay waiting for an answer that has come.                         *)
BulkHonest ==
    /\ TypeOK
    /\ bulk.continued = (IF bulk.finished /\ bulk.all \subseteq accepted THEN 1 ELSE 0)
    /\ bulk.ids = {r.edit : r \in {q \in requests : q.by = "bulk"}}
    /\ bulk # NoBulk => (bulk.finished <=> bulk.ids = {})
=============================================================================
