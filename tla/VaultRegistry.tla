--------------------------- MODULE VaultRegistry ---------------------------
(***************************************************************************)
(* The account registry of the Windows vault                               *)
(* (ci/windows-vault/vault_registry.cpp over vault_store.cpp), disk step   *)
(* by disk step.                                                           *)
(*                                                                         *)
(* Durable state: the index (slot bindings, journal records, the reset     *)
(* marker) and one data directory per generation.  Volatile state: the     *)
(* call in progress on the one worker thread and the stores its caller     *)
(* holds.  A disk operation either happens as a whole (AtomicWrite moves a *)
(* flushed temporary file into place, DeleteFile removes one file) or      *)
(* throws and changes nothing; the process may stop between any two.       *)
(***************************************************************************)
EXTENDS FiniteSets

CONSTANTS Slots, Owners, Authorizations, Generations, None

Binding == [owner: Owners, auth: Authorizations, gen: Generations]
Args    == [slot: Slots, owner: Owners, auth: Authorizations, fresh: BOOLEAN]
Ops     == {"construct", "open", "logout", "forgetAll", "retryCleanup"}
Journal == [kind: {"C", "R"}, owner: Owners, auth: Authorizations]

ASSUME NoneAssumption ==
    /\ None \notin Generations
    /\ None \notin Binding
    /\ None \notin Journal
    /\ None \notin Args
    /\ None \notin Ops

VARIABLES
    index,       \* the index directory: "none", "bare" (no identity), "ready"
    binding,     \* slot -> Binding or None
    journal,     \* generation -> Journal record "template-<generation>", or None
    reset,       \* is the reset marker on disk?
    data,        \* generation -> state of its data directory
    pc,          \* step of the call in progress; "idle" or "down" if none
    op,          \* the method called, or None
    args,        \* arguments of open and logout, or None
    slotsLeft,   \* finishReset: slots not visited yet
    recordsLeft, \* retryCleanup: journal records not visited yet
    cur,         \* the generation being cleaned or created, or None
    back,        \* where clean() returns to
    complete,    \* local `complete` of finishReset / retryCleanup
    store        \* slot -> generation of the Store the caller holds, or None

disk == <<index, binding, journal, reset, data>>
call == <<op, args>>
vars == <<index, binding, journal, reset, data, pc, op, args, slotsLeft,
          recordsLeft, cur, back, complete, store>>

Cleaning == {"clean", "unbind", "mark", "purge", "drop"}
Creating == {"record", "mkdir", "identity", "publish", "commit"}
Backs    == {"resetSlots", "resetSweep", "sweep", "call"}

TypeOK ==
    /\ index \in {"none", "bare", "ready"}
    /\ binding \in [Slots -> Binding \cup {None}]
    /\ journal \in [Generations -> Journal \cup {None}]
    /\ reset \in BOOLEAN
    /\ data \in [Generations -> {"absent", "bare", "live", "marked", "purged"}]
    /\ pc \in {"down", "idle", "return", "failed", "index", "indexIdentity",
               "marker", "barrier", "resetSlots", "resetSweep", "unmark", "sweep", "bind",
               "retire"} \cup Cleaning \cup Creating
    /\ op \in Ops \cup {None}
    /\ args \in Args \cup {None}
    /\ slotsLeft \subseteq Slots
    /\ recordsLeft \subseteq Generations
    /\ cur \in Generations \cup {None}
    /\ back \in Backs
    /\ complete \in BOOLEAN
    /\ store \in [Slots -> Generations \cup {None}]

Init ==
    /\ index = "none"
    /\ binding = [s \in Slots |-> None]
    /\ journal = [g \in Generations |-> None]
    /\ reset = FALSE
    /\ data = [g \in Generations |-> "absent"]
    /\ pc = "down"
    /\ op = None /\ args = None
    /\ slotsLeft = {} /\ recordsLeft = {}
    /\ cur = None /\ back = "call" /\ complete = TRUE
    /\ store = [s \in Slots |-> None]

----------------------------------------------------------------------------
(* Helpers *)

Bound(s, g) == binding[s] # None /\ binding[s].gen = g

referenced(g) == \E s \in Slots : Bound(s, g)

Pending == {g \in Generations : journal[g] # None}

(* Store::NewId: 128 random bits, so an identifier nothing on disk uses.   *)
NewId(g) == data[g] = "absent" /\ journal[g] = None /\ ~referenced(g)

JournalOf(kind, owner, auth) == [kind |-> kind, owner |-> owner, auth |-> auth]

locals == <<op, args, slotsLeft, recordsLeft, cur, back, complete>>

ClearLocals ==
    /\ op' = None /\ args' = None
    /\ slotsLeft' = {} /\ recordsLeft' = {}
    /\ cur' = None /\ back' = "call" /\ complete' = TRUE

----------------------------------------------------------------------------
(* Calls.  The worker drops its Store of a slot before every call about    *)
(* the slot, and all of them before forgetAll (vault_worker.cpp).          *)

Begin(method, arguments, next, dropped) ==
    /\ op' = method /\ args' = arguments /\ pc' = next
    /\ store' = [t \in Slots |-> IF t \in dropped THEN None ELSE store[t]]
    /\ UNCHANGED <<disk, slotsLeft, recordsLeft, cur, back, complete>>

Construct == pc = "down" /\ Begin("construct", None, "index", {})

Open(a) == pc = "idle" /\ Begin("open", a, "barrier", {a.slot})

(* logout: nothing bound returns, another login's binding is refused.      *)
Logout(a) ==
    LET b == binding[a.slot]
        mine == b # None /\ b.owner = a.owner /\ b.auth = a.auth
    IN  /\ pc = "idle"
        /\ Begin("logout", a, IF mine THEN "retire" ELSE "return", {a.slot})

ForgetAll == pc = "idle" /\ Begin("forgetAll", None, "marker", Slots)

RetryCleanup ==
    /\ pc = "idle"
    /\ op' = "retryCleanup" /\ pc' = "sweep" /\ recordsLeft' = Pending
    /\ UNCHANGED <<disk, args, slotsLeft, cur, back, complete, store>>

(* The call returns, or throws to its caller; a constructor that throws    *)
(* leaves no Registry object ("down").                                     *)
Return ==
    /\ pc \in {"return", "failed"}
    /\ pc' = IF pc = "failed" /\ op = "construct" THEN "down" ELSE "idle"
    /\ ClearLocals
    /\ UNCHANGED <<disk, store>>

----------------------------------------------------------------------------
(* Registry::Registry: the index is itself a Store, created once; NewIndex *)
(* refuses to recreate it over existing data, and a Store directory        *)
(* without its identity file ("bare") is never opened: both throw.         *)

OpenIndex ==
    /\ pc = "index"
    /\ \/ /\ index = "none" /\ \A g \in Generations : data[g] = "absent"
          /\ index' = "bare" /\ pc' = "indexIdentity"
       \/ /\ index = "ready"
          /\ index' = index /\ pc' = "barrier"
    /\ UNCHANGED <<binding, journal, reset, data, locals, store>>

WriteIndexIdentity ==
    /\ pc = "indexIdentity"
    /\ index' = "ready" /\ pc' = "barrier"
    /\ UNCHANGED <<binding, journal, reset, data, locals, store>>

----------------------------------------------------------------------------
(* forgetAll and finishReset *)

WriteMarker ==
    /\ pc = "marker"
    /\ reset' = TRUE /\ pc' = "barrier"
    /\ UNCHANGED <<index, binding, journal, data, locals, store>>

(* Mutant: open does not retry earlier cleanups.                           *)
PassedWithoutSweep ==
    IF op = "forgetAll" THEN "return" ELSE IF op = "open" THEN "bind" ELSE "sweep"

(* finishReset returned: open and the constructor go on with a sweep whose *)
(* result they ignore, forgetAll is done.                                  *)
Passed == IF op = "forgetAll" THEN "return" ELSE "sweep"

finishReset ==
    /\ pc = "barrier"
    /\ complete' = TRUE
    /\ IF reset
       THEN pc' = "resetSlots" /\ slotsLeft' = Slots /\ UNCHANGED recordsLeft
       ELSE pc' = Passed /\ recordsLeft' = Pending /\ UNCHANGED slotsLeft
    /\ UNCHANGED <<disk, call, cur, back, store>>

ResetSlot(s) ==
    /\ pc = "resetSlots" /\ s \in slotsLeft
    /\ slotsLeft' = slotsLeft \ {s}
    /\ IF binding[s] = None
       THEN UNCHANGED <<journal, pc, cur, back>>
       ELSE /\ journal' = [journal EXCEPT ![binding[s].gen] =
                              JournalOf("R", binding[s].owner, binding[s].auth)]
            /\ cur' = binding[s].gen /\ pc' = "clean" /\ back' = "resetSlots"
    /\ UNCHANGED <<index, binding, reset, data, call, recordsLeft, complete, store>>

ResetSweep ==
    /\ pc = "resetSlots" /\ slotsLeft = {}
    /\ pc' = "resetSweep" /\ recordsLeft' = Pending
    /\ UNCHANGED <<disk, call, slotsLeft, cur, back, complete, store>>

(* Mutant: the marker is lifted although some cleanup failed.              *)
ResetDoneRegardless ==
    /\ pc = "resetSweep" /\ recordsLeft = {}
    /\ pc' = "unmark"
    /\ UNCHANGED <<disk, locals, store>>

ResetDone ==
    /\ pc = "resetSweep" /\ recordsLeft = {}
    /\ pc' = IF complete THEN "unmark" ELSE "failed"
    /\ UNCHANGED <<disk, locals, store>>

EraseMarker ==
    /\ pc = "unmark"
    /\ reset' = FALSE
    /\ pc' = Passed /\ recordsLeft' = Pending /\ complete' = TRUE
    /\ UNCHANGED <<index, binding, journal, data, call, slotsLeft, cur, back, store>>

----------------------------------------------------------------------------
(* retryCleanup and clean *)

SweepRecord(g) ==
    /\ pc \in {"sweep", "resetSweep"} /\ g \in recordsLeft
    /\ recordsLeft' = recordsLeft \ {g}
    /\ cur' = g /\ pc' = "clean" /\ back' = pc
    /\ UNCHANGED <<disk, call, slotsLeft, complete, store>>

SweepDone ==
    /\ pc = "sweep" /\ recordsLeft = {}
    /\ pc' = IF op = "open" THEN "bind" ELSE "return"
    /\ UNCHANGED <<disk, locals, store>>

(* Mutant: clean returns to its caller's label whoever called it.          *)
CleanedAnyhow == back

(* clean() returns: a retirement asked for by open goes on to create, one  *)
(* asked for by logout ends the call.                                      *)
Cleaned == IF back # "call" THEN back
           ELSE IF op = "open" THEN "record" ELSE "return"

(* Mutant: a creation journal that survived is cleaned like a retirement.  *)
CleanForgetsCommit ==
    /\ pc = "clean"
    /\ IF journal[cur] = None THEN pc' = Cleaned ELSE pc' = "unbind"
    /\ UNCHANGED <<disk, locals, store>>

Clean ==
    /\ pc = "clean"
    /\ \/ /\ journal[cur] = None
          /\ pc' = Cleaned /\ UNCHANGED journal
       \/ /\ journal[cur] # None /\ journal[cur].kind = "C" /\ referenced(cur)
          /\ journal' = [journal EXCEPT ![cur] = None]
          /\ pc' = Cleaned
       \/ /\ journal[cur] # None /\ (journal[cur].kind = "R" \/ ~referenced(cur))
          /\ pc' = "unbind" /\ UNCHANGED journal
    /\ UNCHANGED <<index, binding, reset, data, locals, store>>

Unbind ==
    /\ pc = "unbind"
    /\ \/ \E s \in Slots : /\ Bound(s, cur)
                           /\ binding' = [binding EXCEPT ![s] = None]
                           /\ UNCHANGED pc
       \/ ~referenced(cur) /\ pc' = "mark" /\ UNCHANGED binding
    /\ UNCHANGED <<index, journal, reset, data, locals, store>>

(* Mutant: the files are left behind once the marker is written.           *)
MarkWithoutPurge ==
    /\ pc = "mark"
    /\ pc' = "drop"
    /\ data' = [data EXCEPT ![cur] = IF @ \in {"absent", "purged"} THEN @ ELSE "marked"]
    /\ UNCHANGED <<index, binding, journal, reset, locals, store>>

(* Store::RetireGeneration: the retired marker, then every other file.     *)
Mark ==
    /\ pc = "mark"
    /\ IF data[cur] = "absent"
       THEN pc' = "drop" /\ UNCHANGED data
       ELSE pc' = "purge" /\ data' = [data EXCEPT ![cur] =
                                         IF @ = "purged" THEN "purged" ELSE "marked"]
    /\ UNCHANGED <<index, binding, journal, reset, locals, store>>

Purge ==
    /\ pc = "purge"
    /\ data' = [data EXCEPT ![cur] = "purged"] /\ pc' = "drop"
    /\ UNCHANGED <<index, binding, journal, reset, locals, store>>

DropRecord ==
    /\ pc = "drop"
    /\ journal' = [journal EXCEPT ![cur] = None]
    /\ pc' = Cleaned
    /\ UNCHANGED <<index, binding, reset, data, locals, store>>

retire ==
    /\ pc = "retire"
    /\ LET b == binding[args.slot] IN
         /\ journal' = [journal EXCEPT ![b.gen] = JournalOf("R", b.owner, b.auth)]
         /\ cur' = b.gen
    /\ pc' = "clean" /\ back' = "call"
    /\ UNCHANGED <<index, binding, reset, data, call, slotsLeft, recordsLeft,
                   complete, store>>

----------------------------------------------------------------------------
(* open, after the reset barrier and the sweep *)

Mine(b) == b.owner = args.owner /\ b.auth = args.auth

(* A journal record naming another login than the binding: open throws.    *)
Forged(b) == LET j == journal[b.gen]
             IN  j # None /\ (j.owner # b.owner \/ j.auth # b.auth)

Retiring(b) == journal[b.gen] # None /\ journal[b.gen].kind = "R"

(* Mutant: a generation whose cleanup failed earlier is offered again.     *)
DecideIgnoresJournal ==
    /\ pc = "bind"
    /\ LET b == binding[args.slot] IN
         \/ /\ b = None
            /\ pc' = "record" /\ UNCHANGED store
         \/ /\ b # None
            /\ ~Mine(b) \/ args.fresh
            /\ pc' = "retire" /\ UNCHANGED store
         \/ /\ b # None /\ Mine(b) /\ ~args.fresh
            /\ pc' = "return"
            /\ store' = [store EXCEPT ![args.slot] = b.gen]
    /\ UNCHANGED <<disk, locals>>

Decide ==
    /\ pc = "bind"
    /\ LET b == binding[args.slot] IN
         \/ /\ b = None
            /\ pc' = "record" /\ UNCHANGED store
         \/ /\ b # None /\ ~Forged(b)
            /\ Retiring(b) \/ ~Mine(b) \/ args.fresh
            /\ pc' = "retire" /\ UNCHANGED store
         \/ /\ b # None /\ ~Forged(b) /\ ~Retiring(b) /\ Mine(b) /\ ~args.fresh
            /\ data[b.gen] = "live"              \* else Store's constructor throws
            /\ pc' = "return"
            /\ store' = [store EXCEPT ![args.slot] = b.gen]
    /\ UNCHANGED <<disk, locals>>

Record(g) ==
    /\ pc = "record" /\ NewId(g)
    /\ cur' = g
    /\ journal' = [journal EXCEPT ![g] = JournalOf("C", args.owner, args.auth)]
    /\ pc' = "mkdir"
    /\ UNCHANGED <<index, binding, reset, data, call, slotsLeft,
                   recordsLeft, back, complete, store>>

(* Mutant: the binding is published before the identity is durable.        *)
MakeDirectoryThenPublish ==
    /\ pc = "mkdir" /\ data[cur] = "absent"
    /\ data' = [data EXCEPT ![cur] = "bare"] /\ pc' = "publish"
    /\ UNCHANGED <<index, binding, journal, reset, locals, store>>

MakeDirectory ==
    /\ pc = "mkdir" /\ data[cur] = "absent"
    /\ data' = [data EXCEPT ![cur] = "bare"] /\ pc' = "identity"
    /\ UNCHANGED <<index, binding, journal, reset, locals, store>>

WriteIdentity ==
    /\ pc = "identity"
    /\ data' = [data EXCEPT ![cur] = "live"] /\ pc' = "publish"
    /\ UNCHANGED <<index, binding, journal, reset, locals, store>>

Publish ==
    /\ pc = "publish"
    /\ binding' = [binding EXCEPT ![args.slot] =
                      [owner |-> args.owner, auth |-> args.auth, gen |-> cur]]
    /\ pc' = "commit"
    /\ UNCHANGED <<index, journal, reset, data, locals, store>>

Commit ==
    /\ pc = "commit"
    /\ journal' = [journal EXCEPT ![cur] = None]
    /\ store' = [store EXCEPT ![args.slot] = cur]
    /\ pc' = "return"
    /\ UNCHANGED <<index, binding, reset, data, locals>>

----------------------------------------------------------------------------
(* Failures *)

(* An exception inside clean(), called from a loop that catches it.        *)
CaughtInClean ==
    /\ pc \in Cleaning /\ back # "call"
    /\ pc' = back /\ complete' = FALSE
    /\ UNCHANGED <<disk, call, slotsLeft, recordsLeft, cur, back, store>>

(* finishReset: reading a binding or writing its R record failed.          *)
CaughtInReset(s) ==
    /\ pc = "resetSlots" /\ s \in slotsLeft
    /\ slotsLeft' = slotsLeft \ {s} /\ complete' = FALSE
    /\ UNCHANGED <<disk, pc, call, recordsLeft, cur, back, store>>

(* Any other exception leaves the registry's operation.                    *)
Uncaught ==
    /\ \/ pc \in Cleaning /\ back = "call"
       \/ pc \in {"index", "indexIdentity", "marker", "barrier", "unmark", "bind",
                  "retire", "record", "mkdir", "identity", "publish", "commit"}
       \/ pc = "resetSlots" /\ slotsLeft = {}         \* templates() failed
       \/ pc = "sweep" /\ recordsLeft = Pending
    /\ pc' = "failed"
    /\ UNCHANGED <<disk, locals, store>>

Crash ==
    /\ pc # "down"
    /\ pc' = "down"
    /\ store' = [s \in Slots |-> None]
    /\ ClearLocals
    /\ UNCHANGED disk

----------------------------------------------------------------------------
Calls ==
    \/ Construct \/ ForgetAll \/ RetryCleanup
    \/ \E a \in Args : Open(a)
    \/ \E a \in {x \in Args : ~x.fresh} : Logout(a)

Step ==
    \/ Return \/ OpenIndex \/ WriteIndexIdentity
    \/ WriteMarker \/ finishReset \/ ResetSweep \/ ResetDone \/ EraseMarker
    \/ \E s \in Slots : ResetSlot(s)
    \/ \E g \in Generations : SweepRecord(g)
    \/ SweepDone \/ Clean \/ Unbind \/ Mark \/ Purge \/ DropRecord \/ retire
    \/ Decide \/ MakeDirectory \/ WriteIdentity \/ Publish \/ Commit
    \/ \E g \in Generations : Record(g)

Throw == CaughtInClean \/ Uncaught \/ \E s \in Slots : CaughtInReset(s)

Next == Calls \/ Step \/ Throw \/ Crash

Spec == Init /\ [][Next]_vars

(* The worker thread keeps running the call it has taken from its queue;   *)
(* whether the next disk operation succeeds or throws is up to the disk.   *)
FairSpec == Spec /\ WF_vars(Step \/ Throw)

----------------------------------------------------------------------------
(* Properties *)

(* A store in the caller's hands stays valid: it is of the generation its  *)
(* slot is bound to, with its data intact and no retirement pending, while *)
(* other slots are opened, logged out, reset and cleaned around it         *)
(* (Registry::open, clean: "retired generations are never offered").       *)
StoreStaysValid == \A s \in Slots : store[s] # None =>
    /\ Bound(s, store[s]) /\ ~Retiring(binding[s]) /\ ~reset
    /\ data[store[s]] = "live"

(* open hands out only data created under the owner and the authorization  *)
(* identity it was called with (Registry::open's comparison).              *)
OpenHonoursLogin ==
    pc = "return" /\ op = "open" /\ store[args.slot] # None =>
        /\ binding[args.slot].owner = args.owner
        /\ binding[args.slot].auth = args.auth

(* Stores are handed out to the login that created them and stay theirs.   *)
LoginsRespected == StoreStaysValid /\ OpenHonoursLogin

(* An active binding is the commit record: whatever journal survived an    *)
(* interrupted creation, the data of a bound generation that is not being  *)
(* retired is complete (the comment in Registry::clean).                   *)
CommittedDataSurvives == \A s \in Slots :
    binding[s] # None /\ ~Retiring(binding[s]) => data[binding[s].gen] = "live"

(* No data without an owner: files not yet deleted belong to a bound       *)
(* generation or to a journal record that will have them deleted.          *)
NoOrphanData == \A g \in Generations :
    data[g] \in {"bare", "live", "marked"} => referenced(g) \/ journal[g] # None

(* No interrupted creation or cleanup loses data that is committed, or     *)
(* leaves data nobody will delete.                                         *)
DataAccounted == CommittedDataSurvives /\ NoOrphanData

(* Slots never share a generation, so cleaning one account never unbinds   *)
(* another (Registry::clean erases every slot bound to the generation).    *)
SlotsDisjoint == \A s, t \in Slots :
    s # t /\ binding[s] # None /\ binding[t] # None => binding[s].gen # binding[t].gen

(* retryCleanup's "true" means nothing is left to clean, also when open    *)
(* ran the sweep on its way (vault_registry.h, comment of retryCleanup).   *)
CompleteSweep ==
    /\ pc = "return" /\ op = "retryCleanup" /\ complete => Pending = {}
    /\ pc = "bind" /\ complete => Pending = {}

(* The reset barrier: while the marker is on disk nothing is bound and     *)
(* nothing is offered, and it goes only when every binding and every       *)
(* journal record that existed is gone (Registry::finishReset).            *)
ResetBarrier == [][
    /\ reset => \A s \in Slots : binding'[s] \in {binding[s], None}
    /\ reset /\ ~reset' => Pending = {} /\ \A s \in Slots : binding[s] = None]_vars

(* Retirement is finished once the disk stops failing and the vault is     *)
(* still being used: a pending R record does not survive for ever ("failed *)
(* cleanup remains queued for retry").                                     *)
RetirementFinishes ==
    <>[][~(Throw \/ Crash)]_vars /\ []<><<pc = "idle" /\ pc' = "barrier">>_vars
        => \A g \in Generations : []<>(journal[g] = None)

----------------------------------------------------------------------------
(* Refinement: a binding is in force unless the reset marker or its own R  *)
(* record has been written.                                                *)

activeBar == [s \in Slots |->
    IF binding[s] = None \/ reset THEN None
    ELSE IF Retiring(binding[s]) THEN None ELSE binding[s]]

retiredBar == {g \in Generations :
    \/ data[g] \in {"marked", "purged"}
    \/ journal[g] # None /\ journal[g].kind = "R"
    \/ reset /\ referenced(g)}

Abstract == INSTANCE VaultRegistrySpec
    WITH active <- activeBar, retired <- retiredBar, store <- store

(* The registry with its journals, failures and crashes implements the     *)
(* abstract registry.                                                      *)
ImplementsSpec == Abstract!Spec

----------------------------------------------------------------------------
(* The inductive invariant behind the safety properties *)

R(g) == journal[g] # None /\ journal[g].kind = "R"

(* A bound generation is whole; a retirement is about data that existed;   *)
(* journal and binding agree on the login.                                 *)
DiskInv ==
    /\ SlotsDisjoint /\ NoOrphanData
    /\ \A s \in Slots : binding[s] # None => data[binding[s].gen] = "live"
    /\ \A g \in Generations : R(g) => data[g] \notin {"absent", "bare"}

(* Which call may be at which step.                                        *)
ControlInv ==
    /\ op \in {"open", "logout"} => args \in Args
    /\ pc \in Creating \cup {"bind"} => op = "open"
    /\ pc = "retire" => op \in {"open", "logout"} /\ binding[args.slot] # None
    /\ pc \in Cleaning /\ back = "call" => op \in {"open", "logout"}
    /\ pc \in Cleaning \cup (Creating \ {"record"}) => cur \in Generations

(* Inside clean(cur).                                                      *)
CleanInv ==
    /\ pc \in Cleaning /\ back \in {"resetSlots", "call"} => R(cur)
    /\ pc \in Cleaning \ {"clean"} => journal[cur] # None
    /\ pc = "unbind" => R(cur) \/ ~referenced(cur)
    /\ pc \in {"mark", "purge", "drop"} => ~referenced(cur)
    /\ pc = "purge" => data[cur] \in {"marked", "purged"}
    /\ pc = "drop" => data[cur] \in {"absent", "purged"}
    /\ pc \in Cleaning /\ back = "call" /\ op = "open" =>
          binding[args.slot] = None \/ Bound(args.slot, cur)

(* Inside open, while it creates a generation.                             *)
CreateInv ==
    /\ pc \in Creating \ {"commit"} => binding[args.slot] = None
    /\ pc \in {"mkdir", "identity", "publish"} =>
          /\ ~referenced(cur)
          /\ journal[cur] = JournalOf("C", args.owner, args.auth)
    /\ pc = "mkdir" => data[cur] = "absent"
    /\ pc = "identity" => data[cur] = "bare"
    /\ pc = "publish" => data[cur] = "live"
    /\ pc = "commit" => Bound(args.slot, cur) /\ Mine(binding[args.slot]) /\ ~R(cur)

(* The stores the caller holds.                                            *)
StoreInv ==
    /\ \A s \in Slots : store[s] # None => Bound(s, store[s]) /\ ~R(store[s]) /\ ~reset
    /\ op \in {"open", "logout"} /\ pc # "return" => store[args.slot] = None
    /\ pc = "marker" => \A s \in Slots : store[s] = None
    /\ OpenHonoursLogin

(* finishReset: where the marker is on disk, and what is already gone.     *)
Resetting == \/ pc \in {"resetSlots", "resetSweep", "unmark"}
             \/ pc \in Cleaning /\ back \in {"resetSlots", "resetSweep"}

PastBarrier == op = "open" /\ \/ pc \in Creating \cup {"sweep", "bind", "retire"}
                              \/ pc \in Cleaning /\ back \in {"sweep", "call"}

ResetInv ==
    /\ Resetting => reset
    /\ PastBarrier => ~reset
    /\ pc = "unmark" => complete
    /\ Resetting /\ complete => \A s \in Slots \ slotsLeft :
          \/ binding[s] = None
          \/ pc \in {"clean", "unbind"} /\ back = "resetSlots" /\ Bound(s, cur)
    /\ Resetting /\ pc # "resetSlots" /\ ~(pc \in Cleaning /\ back = "resetSlots")
          => slotsLeft = {}

(* retryCleanup: what is still pending is still to be visited.             *)
SweepInv ==
    /\ pc \in {"sweep", "resetSweep"} /\ complete => Pending \subseteq recordsLeft
    /\ pc \in Cleaning /\ back \in {"sweep", "resetSweep"} /\ complete
          => Pending \subseteq recordsLeft \cup {cur}
    /\ pc = "unmark" => Pending = {}
    /\ CompleteSweep

(* The conjunction is inductive, and implies every safety property above.  *)
InductiveInv ==
    TypeOK /\ DiskInv /\ ControlInv /\ CleanInv /\ CreateInv /\ StoreInv
           /\ ResetInv /\ SweepInv
=============================================================================
