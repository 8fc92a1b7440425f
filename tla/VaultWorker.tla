---------------------------- MODULE VaultWorker ----------------------------
(***************************************************************************)
(* The worker of the Windows vault (ci/windows-vault/vault_worker.cpp):    *)
(* sessions attached and detached on the UI thread, one FIFO worker thread *)
(* that owns Registry and Store, and a UI mailbox of posted replies.       *)
(*                                                                         *)
(* The registry is used through what VaultRegistry is proved to implement: *)
(* a call retires, binds or offers a generation, or throws part-way.       *)
(* Generations and handles are numbered in the order they are made.        *)
(***************************************************************************)
EXTENDS Naturals, Sequences, FiniteSets

CONSTANTS Slots, Logins,      \* account slots; (owner, authorization) pairs
          MaxHandles, MaxRequests, MaxGenerations, MaxEpoch   \* bounds

VARIABLES
    info,      \* handles made so far: slot, login and freshLogin of each
    sessions,  \* _sessions: slot -> handle, 0 if none (UI thread)
    live,      \* handle -> Session::live
    gate,      \* Gate: alive, locked, epoch
    switching, \* is setLocked between its exchange and its ++epoch?
    queue,     \* _queue
    phase,     \* worker thread: "wait", "run", "reply", "stopped"
    request,   \* the request being run, 0 if none
    result,    \* its result: the generation it used, 0 if it failed
    storage,   \* _storage: slot -> session, store (0 if not open), fresh
    resetPending,
    active,    \* registry: slot -> generation in force, 0 if none
    retired,   \* registry: generations never offered again
    maker,     \* registry: the handle each generation was created for
    mailbox,   \* posted replies not run yet
    asked,     \* every request: its handle, its epoch and what became of it
    sealed,    \* requests open when the vault was locked, reset or closed
    forgotten  \* generations 1..forgotten existed at the last forgetAll

uiVars       == <<info, sessions, live, gate, switching>>
registryVars == <<active, retired, maker>>
workerVars   == <<phase, request, result, storage, resetPending>>
ghosts       == <<sealed, forgotten>>
vars == <<uiVars, queue, workerVars, registryVars, mailbox, asked, ghosts>>

Handles     == 1..Len(info)
Generations == 1..Len(maker)
Requests    == 1..Len(asked)
LoginOf(g)  == info[maker[g]].login

Task(kind, id, out) == [kind |-> kind, id |-> id, out |-> out]

TypeOK ==
    /\ info \in Seq([slot: Slots, login: Logins, fresh: BOOLEAN])
    /\ sessions \in [Slots -> 0..Len(info)]
    /\ live \in [Handles -> BOOLEAN]
    /\ gate \in [alive: BOOLEAN, locked: BOOLEAN, epoch: Nat]
    /\ switching \in BOOLEAN
    /\ queue \in Seq([kind: {"attach", "detach", "forget", "request"},
                      id: Nat, out: BOOLEAN])
    /\ phase \in {"wait", "run", "reply", "stopped"}
    /\ request \in 0..Len(asked) /\ result \in 0..Len(maker)
    /\ storage \in [Slots -> [session: 0..Len(info), store: 0..Len(maker),
                              fresh: BOOLEAN]]
    /\ resetPending \in BOOLEAN
    /\ active \in [Slots -> 0..Len(maker)]
    /\ retired \subseteq Generations
    /\ maker \in Seq(Handles)
    /\ mailbox \in Seq([request: Requests, gen: 0..Len(maker)])
    /\ asked \in Seq([handle: Handles, epoch: Nat,
                      state: {"open", "shown", "dropped"}])
    /\ sealed \subseteq Requests
    /\ forgotten \in 0..Len(maker)

Closed == [session |-> 0, store |-> 0, fresh |-> FALSE]

Init ==
    /\ info = <<>> /\ live = <<>>
    /\ sessions = [s \in Slots |-> 0]
    /\ gate = [alive |-> TRUE, locked |-> FALSE, epoch |-> 0]
    /\ switching = FALSE
    /\ queue = <<>> /\ mailbox = <<>> /\ asked = <<>>
    /\ phase = "wait" /\ request = 0 /\ result = 0
    /\ storage = [s \in Slots |-> Closed]
    /\ resetPending = FALSE
    /\ active = [s \in Slots |-> 0] /\ retired = {} /\ maker = <<>>
    /\ sealed = {} /\ forgotten = 0

Current(h, epoch) ==
    live[h] /\ gate.alive /\ ~gate.locked /\ gate.epoch = epoch

IsCurrent(r) == Current(asked[r].handle, asked[r].epoch)

Open == {r \in Requests : asked[r].state = "open"}

Settle(r, how) == asked' = [asked EXCEPT ![r].state = how]

----------------------------------------------------------------------------
(* UI thread *)

(* The UI thread runs one method at a time, and none once ~Worker began.   *)
OnUi == gate.alive /\ ~switching

(* Mutant: attach does not detach the session it replaces.                 *)
AttachOver(s, login, fresh) ==
    LET h == Len(info) + 1
    IN  /\ OnUi /\ h <= MaxHandles
        /\ info' = Append(info, [slot |-> s, login |-> login, fresh |-> fresh])
        /\ live' = Append(live, TRUE)
        /\ sessions' = [sessions EXCEPT ![s] = h]
        /\ queue' = Append(queue, Task("attach", h, FALSE))
        /\ UNCHANGED <<gate, switching, workerVars, registryVars, mailbox, asked, ghosts>>

Attach(s, login, fresh) ==
    LET old == sessions[s]
        h   == Len(info) + 1
    IN  /\ OnUi /\ h <= MaxHandles
        /\ info' = Append(info, [slot |-> s, login |-> login, fresh |-> fresh])
        /\ live' = [i \in 1..h |-> IF i = h THEN TRUE ELSE live[i] /\ i # old]
        /\ sessions' = [sessions EXCEPT ![s] = h]
        /\ queue' = (IF old = 0 THEN queue ELSE Append(queue, Task("detach", old, FALSE)))
                        \o <<Task("attach", h, FALSE)>>
        /\ UNCHANGED <<gate, switching, workerVars, registryVars, mailbox, asked, ghosts>>

(* detach may be called with any handle the host still keeps.              *)
Detach(h, loggedOut) ==
    /\ OnUi /\ sessions[info[h].slot] = h
    /\ live' = [live EXCEPT ![h] = FALSE]
    /\ sessions' = [sessions EXCEPT ![info[h].slot] = 0]
    /\ queue' = Append(queue, Task("detach", h, loggedOut))
    /\ UNCHANGED <<info, gate, switching, workerVars, registryVars, mailbox, asked, ghosts>>

(* setLocked: the flag is exchanged, then the epoch moves.                 *)
SetLocked(locked) ==
    /\ OnUi /\ gate.locked # locked /\ gate.epoch < MaxEpoch
    /\ gate' = [gate EXCEPT !.locked = locked]
    /\ switching' = TRUE
    /\ sealed' = sealed \cup Open
    /\ UNCHANGED <<info, sessions, live, queue, workerVars, registryVars, mailbox,
                   asked, forgotten>>

(* Mutant: setLocked changes the flag only.                                *)
KeepEpoch ==
    /\ switching /\ switching' = FALSE
    /\ UNCHANGED <<info, sessions, live, gate, queue, workerVars, registryVars, mailbox,
                   asked, ghosts>>

BumpEpoch ==
    /\ switching
    /\ gate' = [gate EXCEPT !.epoch = @ + 1]
    /\ switching' = FALSE
    /\ UNCHANGED <<info, sessions, live, queue, workerVars, registryVars, mailbox,
                   asked, ghosts>>

ForgetAll ==
    /\ OnUi /\ gate.epoch < MaxEpoch
    /\ gate' = [gate EXCEPT !.epoch = @ + 1]
    /\ live' = [h \in Handles |-> live[h] /\ \A s \in Slots : sessions[s] # h]
    /\ sessions' = [s \in Slots |-> 0]
    /\ queue' = Append(queue, Task("forget", 0, FALSE))
    /\ sealed' = sealed \cup Open
    /\ forgotten' = Len(maker)
    /\ UNCHANGED <<info, switching, workerVars, registryVars, mailbox, asked>>

(* read, write, erase, templates.                                          *)
Request(h) ==
    /\ OnUi /\ Len(asked) < MaxRequests
    /\ Current(h, gate.epoch)
    /\ asked' = Append(asked, [handle |-> h, epoch |-> gate.epoch, state |-> "open"])
    /\ queue' = Append(queue, Task("request", Len(asked) + 1, FALSE))
    /\ UNCHANGED <<uiVars, workerVars, registryVars, mailbox, ghosts>>

Destroy ==
    /\ OnUi
    /\ gate' = [gate EXCEPT !.alive = FALSE]
    /\ live' = [h \in Handles |-> live[h] /\ \A s \in Slots : sessions[s] # h]
    /\ sealed' = sealed \cup Open
    /\ UNCHANGED <<info, sessions, switching, queue, workerVars, registryVars,
                   mailbox, asked, forgotten>>

(* A posted reply runs on the UI thread, if it is still current.           *)
Deliver ==
    /\ mailbox # <<>> /\ ~switching
    /\ LET r == Head(mailbox).request
       IN  Settle(r, IF IsCurrent(r) THEN "shown" ELSE "dropped")
    /\ mailbox' = Tail(mailbox)
    /\ UNCHANGED <<uiVars, queue, workerVars, registryVars, ghosts>>

----------------------------------------------------------------------------
(* Registry calls, as sets of possible outcomes *)

InForce(act) == {act[s] : s \in Slots} \ {0}

Now == [active |-> active, retired |-> retired, maker |-> maker]

(* Registry::forgetAll: it may throw before its marker is written, after   *)
(* it, or succeed.                                                         *)
ResetOutcomes ==
    LET none == [active |-> [s \in Slots |-> 0], maker |-> maker,
                 retired |-> retired \cup InForce(active)]
    IN  {[ok |-> FALSE, pending |-> TRUE, reg |-> Now],
         [ok |-> FALSE, pending |-> TRUE, reg |-> none],
         [ok |-> TRUE, pending |-> FALSE, reg |-> none]}

(* Worker::registry(): it may throw from Registry's constructor, and it    *)
(* first repeats a reset that failed.                                      *)
RegistryOutcomes ==
    IF resetPending THEN ResetOutcomes
    ELSE {[ok |-> ok, pending |-> FALSE, reg |-> Now] : ok \in BOOLEAN}

(* Registry::open: the generation in force, or a new one after retiring it. *)
OpenOutcomes(reg, h, fresh) ==
    LET s    == info[h].slot
        g    == reg.active[s]
        kept == [reg EXCEPT !.active[s] = 0, !.retired = @ \cup ({g} \ {0})]
        next == Len(reg.maker) + 1
        made == [kept EXCEPT !.active[s] = next, !.maker = Append(@, h)]
    IN  IF g # 0 /\ ~fresh /\ LoginOf(g) = info[h].login
        THEN {[store |-> g, reg |-> reg], [store |-> 0, reg |-> reg]}
        ELSE {[store |-> 0, reg |-> reg], [store |-> 0, reg |-> kept]}
             \cup IF next > MaxGenerations THEN {}
                  ELSE {[store |-> 0, reg |-> made], [store |-> next, reg |-> made]}

(* Mutant: the fresh-login intent is cleared before open has succeeded.    *)
StoreOutcomesOnce(h, slot) ==
    IF slot.session # h \/ slot.store # 0
    THEN {[slot |-> slot, pending |-> resetPending, reg |-> Now]}
    ELSE UNION {IF r.ok
                THEN {[slot |-> [slot EXCEPT !.store = o.store, !.fresh = FALSE],
                       pending |-> r.pending, reg |-> o.reg] :
                          o \in OpenOutcomes(r.reg, h, slot.fresh)}
                ELSE {[slot |-> slot, pending |-> r.pending, reg |-> r.reg]} :
                    r \in RegistryOutcomes}

(* Worker::store(handle): a stale session throws, an open store is reused; *)
(* freshLogin is kept until an open has succeeded.                         *)
StoreOutcomes(h, slot) ==
    IF slot.session # h \/ slot.store # 0
    THEN {[slot |-> slot, pending |-> resetPending, reg |-> Now]}
    ELSE UNION {IF r.ok
                THEN {[slot |-> [slot EXCEPT !.store = o.store, !.fresh = @ /\ o.store = 0],
                       pending |-> r.pending, reg |-> o.reg] :
                          o \in OpenOutcomes(r.reg, h, slot.fresh)}
                ELSE {[slot |-> slot, pending |-> r.pending, reg |-> r.reg]} :
                    r \in RegistryOutcomes}

UseRegistry(reg) ==
    active' = reg.active /\ retired' = reg.retired /\ maker' = reg.maker

----------------------------------------------------------------------------
(* Worker thread *)

Take(kind) == phase = "wait" /\ queue # <<>> /\ Head(queue).kind = kind
              /\ queue' = Tail(queue)

AttachTask ==
    /\ Take("attach")
    /\ LET h == Head(queue).id
           s == info[h].slot
       IN  \E o \in StoreOutcomes(h, [session |-> h, store |-> 0, fresh |-> info[h].fresh]) :
             /\ storage' = [storage EXCEPT ![s] = o.slot]
             /\ resetPending' = o.pending
             /\ UseRegistry(o.reg)
    /\ UNCHANGED <<uiVars, phase, request, result, mailbox, asked, ghosts>>

(* Registry::logout refuses another login's binding; it may throw before   *)
(* its R record is written, and then nothing is retired.                   *)
LogoutOutcomes(h) ==
    LET s == info[h].slot
    IN  UNION {LET g == r.reg.active[s] IN
               {r} \cup IF r.ok /\ g # 0 /\ LoginOf(g) = info[h].login
                        THEN {[r EXCEPT !.reg.active[s] = 0, !.reg.retired = @ \cup {g}]}
                        ELSE {} :
                   r \in RegistryOutcomes}

DetachTask ==
    /\ Take("detach")
    /\ LET h == Head(queue).id
           s == info[h].slot
       IN  IF storage[s].session # h
           THEN UNCHANGED <<storage, resetPending, registryVars>>
           ELSE /\ storage' = [storage EXCEPT ![s].session = 0, ![s].store = 0]
                /\ IF ~Head(queue).out
                   THEN UNCHANGED <<resetPending, registryVars>>
                   ELSE \E r \in LogoutOutcomes(h) :
                          UseRegistry(r.reg) /\ resetPending' = r.pending
    /\ UNCHANGED <<uiVars, phase, request, result, mailbox, asked, ghosts>>

ForgetTask ==
    /\ Take("forget")
    /\ storage' = [s \in Slots |-> [storage[s] EXCEPT !.session = 0, !.store = 0]]
    /\ \E r \in ResetOutcomes : resetPending' = r.pending /\ UseRegistry(r.reg)
    /\ UNCHANGED <<uiVars, phase, request, result, mailbox, asked, ghosts>>

(* A request is checked when taken, run, checked again, then posted.       *)
TakeRequest ==
    /\ Take("request")
    /\ LET r == Head(queue).id
       IN  IF IsCurrent(r) THEN request' = r /\ phase' = "run" /\ UNCHANGED asked
                           ELSE Settle(r, "dropped") /\ UNCHANGED <<request, phase>>
    /\ UNCHANGED <<uiVars, result, storage, resetPending, registryVars, mailbox, ghosts>>

RunRequest ==
    /\ phase = "run"
    /\ LET h == asked[request].handle
           s == info[h].slot
       IN  \E o \in StoreOutcomes(h, storage[s]) :
             /\ storage' = [storage EXCEPT ![s] = o.slot]
             /\ resetPending' = o.pending
             /\ UseRegistry(o.reg)
             /\ result' \in IF o.slot.session = h /\ o.slot.store # 0
                            THEN {0, o.slot.store} ELSE {0}
    /\ phase' = "reply"
    /\ UNCHANGED <<uiVars, queue, request, mailbox, asked, ghosts>>

(* Mutant: a failed request posts nothing.                                 *)
PostSuccess ==
    /\ phase = "reply"
    /\ IF IsCurrent(request) /\ result # 0
       THEN mailbox' = Append(mailbox, [request |-> request, gen |-> result])
       ELSE UNCHANGED mailbox
    /\ phase' = "wait" /\ request' = 0 /\ result' = 0
    /\ UNCHANGED <<uiVars, queue, storage, resetPending, registryVars, asked, ghosts>>

PostReply ==
    /\ phase = "reply"
    /\ IF IsCurrent(request)
       THEN /\ mailbox' = Append(mailbox, [request |-> request, gen |-> result])
            /\ UNCHANGED asked
       ELSE Settle(request, "dropped") /\ UNCHANGED mailbox
    /\ phase' = "wait" /\ request' = 0 /\ result' = 0
    /\ UNCHANGED <<uiVars, queue, storage, resetPending, registryVars, ghosts>>

Stop ==
    /\ phase = "wait" /\ queue = <<>> /\ ~gate.alive
    /\ phase' = "stopped"
    /\ storage' = [s \in Slots |-> Closed]
    /\ UNCHANGED <<uiVars, queue, request, result, resetPending, registryVars, mailbox,
                   asked, ghosts>>

----------------------------------------------------------------------------
Ui == \/ \E s \in Slots, l \in Logins, fresh \in BOOLEAN : Attach(s, l, fresh)
      \/ \E h \in Handles, out \in BOOLEAN : Detach(h, out)
      \/ \E locked \in BOOLEAN : SetLocked(locked)
      \/ \E h \in Handles : Request(h)
      \/ ForgetAll \/ Destroy

WorkerStep == AttachTask \/ DetachTask \/ ForgetTask \/ TakeRequest \/ RunRequest
              \/ PostReply \/ Stop

Next == Ui \/ BumpEpoch \/ WorkerStep \/ Deliver

Spec == Init /\ [][Next]_vars

----------------------------------------------------------------------------
(* Properties *)

Shown(P(_, _)) == \A i \in 1..Len(mailbox) :
    LET m == mailbox[i]
    IN  IsCurrent(m.request) /\ m.gen # 0 => P(asked[m.request].handle, m.gen)

(* A reply that would be shown now was read from or written to the         *)
(* generation in force, under the login of the session that asked: nothing *)
(* another session did meanwhile can make it stale without making the      *)
(* session stale too (Worker::request's checks).                           *)
ReplyInForce == Shown(LAMBDA h, g :
    /\ active[info[h].slot] = g /\ g \notin retired
    /\ LoginOf(g) = info[h].login)

(* A session attached as a fresh login is never served a generation made   *)
(* before it, whatever failed in between ("A failed open must not turn     *)
(* fresh-login intent into restoration", Worker::store).                   *)
FreshLoginStartsEmpty == Shown(LAMBDA h, g : info[h].fresh => maker[g] = h)

(* Revocation is exact.  After forgetAll no reply comes from a generation  *)
(* that existed when it was called, even if the reset failed and is still  *)
(* being retried; a request open when the vault was locked, reset or       *)
(* destroyed is never shown, not even after an unlock (Gate::epoch); and   *)
(* what was dropped belongs to a session or epoch that is gone for good.   *)
RevocationExact ==
    /\ Shown(LAMBDA h, g : g > forgotten)
    /\ \A r \in sealed : asked[r].state # "shown"
    /\ \A r \in Requests : asked[r].state = "dropped" => ~IsCurrent(r)

(* What VaultRegistry assumes of its caller: an open store is the one in   *)
(* force, and none is open while a reset is to be repeated.                *)
StoreIsActive == \A s \in Slots : storage[s].store # 0 =>
    active[s] = storage[s].store /\ storage[s].session # 0 /\ ~resetPending

(* What a lock, a reset or a logout took back stays back, in the replies   *)
(* and in the stores that are open.                                        *)
RevocationHeld == TypeOK /\ RevocationExact /\ StoreIsActive

(* No request is lost: while it is open it is queued, being run, or its    *)
(* reply is on its way to the UI thread.                                   *)
RequestsAccounted == \A r \in Requests : asked[r].state = "open" =>
    \/ \E i \in 1..Len(queue) : queue[i].kind = "request" /\ queue[i].id = r
    \/ request = r
    \/ \E i \in 1..Len(mailbox) : mailbox[i].request = r
=============================================================================
