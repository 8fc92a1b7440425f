--------------------------- MODULE ArchiveWorker ---------------------------
(***************************************************************************)
(* The worker of the Windows archive                                       *)
(* (ci/windows-archive/archive_worker.cpp): captures and requests admitted *)
(* on the UI thread under limits, one FIFO worker thread that opens the    *)
(* archive lazily and owns Registry, vault and archive, and a UI mailbox.  *)
(*                                                                         *)
(* The registry and the archive store are used through their outcomes: a   *)
(* registry call retires, binds or offers a generation or throws part-way  *)
(* (VaultRegistrySpec); an add commits or not, with or without cleanup     *)
(* left to do (ArchiveLogSpec).  Handles, jobs and generations are         *)
(* numbered in the order they are made.  Text and media captures are       *)
(* counted apart; the budget of queued bytes is taken and given back at    *)
(* the same points and is left out.                                        *)
(***************************************************************************)
EXTENDS Naturals, Sequences, FiniteSets

CONSTANTS Slots, Logins,     \* account slots; (owner, authorization) pairs
          Limit,             \* kind of job -> how many may be outstanding
          MaxHandles, MaxJobs, MaxGenerations, MaxEpoch, MaxClears  \* bounds

Kinds == {"text", "media", "request"}

ASSUME LimitAssumption == Limit \in [Kinds -> Nat \ {0}]

VARIABLES
    info,      \* handles made so far: slot, login and freshLogin of each
    sessions,  \* _sessions: slot -> handle, 0 if none (UI thread)
    live, enabled, revision,   \* handle -> fields of Session
    gate,      \* Gate: alive, locked, epoch
    switching, \* is setLocked between its exchange and its ++epoch?
    count,     \* _textCaptures, _captures, _requests
    queue,     \* _queue
    phase,     \* worker thread: "wait", "open", "add", "commit", "reply", "stopped"
    job,       \* the job being run, 0 if none
    result,    \* its result: generation used, 0 if it failed
    storage,   \* _storage: slot -> Slot
    resetPending,
    registry,  \* generation in force of each slot, retired ones, their makers
    mailbox,   \* posted replies not run yet
    jobs,      \* every capture and request admitted so far
    entries,   \* the captures committed: job and generation
    cleared,   \* handle -> generations made when it was last cleared
    discarded  \* slot -> generations made when it was last cleared

uiVars     == <<info, sessions, live, enabled, revision, gate, switching>>
workerVars == <<phase, job, result, storage, resetPending, registry>>
ghosts     == <<entries, cleared, discarded>>
vars == <<uiVars, count, queue, workerVars, mailbox, jobs, ghosts>>

Handles     == 1..Len(info)
Jobs        == 1..Len(jobs)
Generations == 1..Len(registry.maker)
LoginOf(g)  == info[registry.maker[g]].login

Slot == [session: Nat, vault: Nat, archive: {"none", "clean", "dirty"},
         fresh: BOOLEAN, clear: BOOLEAN, recovery: BOOLEAN]

Task(kind, id, out) == [kind |-> kind, id |-> id, out |-> out]

TypeOK ==
    /\ info \in Seq([slot: Slots, login: Logins, fresh: BOOLEAN])
    /\ sessions \in [Slots -> 0..Len(info)]
    /\ live \in [Handles -> BOOLEAN] /\ enabled \in [Handles -> BOOLEAN]
    /\ revision \in [Handles -> Nat] /\ cleared \in [Handles -> Nat]
    /\ gate \in [alive: BOOLEAN, locked: BOOLEAN, epoch: Nat]
    /\ switching \in BOOLEAN
    /\ count \in [Kinds -> Nat]
    /\ \A i \in 1..Len(queue) : queue[i].kind \in {"attach", "detach", "forget", "clear", "job"}
    /\ phase \in {"wait", "open", "add", "commit", "reply", "stopped"}
    /\ job \in 0..Len(jobs) /\ result \in 0..Len(registry.maker)
    /\ storage \in [Slots -> Slot]
    /\ resetPending \in BOOLEAN
    /\ registry.active \in [Slots -> 0..Len(registry.maker)]
    /\ registry.retired \subseteq Generations
    /\ mailbox \in Seq([job: Jobs, gen: 0..Len(registry.maker)])
    /\ jobs \in Seq([kind: Kinds \cup {"clear"}, handle: Handles, revision: Nat,
                     epoch: Nat, state: {"open", "shown", "dropped"}])
    /\ entries \subseteq [job: Jobs, gen: Generations]
    /\ discarded \in [Slots -> 0..Len(registry.maker)]

Closed == [session |-> 0, vault |-> 0, archive |-> "none", fresh |-> FALSE,
           clear |-> FALSE, recovery |-> FALSE]

Init ==
    /\ info = <<>> /\ live = <<>> /\ enabled = <<>> /\ revision = <<>> /\ cleared = <<>>
    /\ sessions = [s \in Slots |-> 0]
    /\ gate = [alive |-> TRUE, locked |-> FALSE, epoch |-> 0]
    /\ switching = FALSE
    /\ count = [k \in Kinds |-> 0]
    /\ queue = <<>> /\ mailbox = <<>> /\ jobs = <<>>
    /\ phase = "wait" /\ job = 0 /\ result = 0
    /\ storage = [s \in Slots |-> Closed]
    /\ resetPending = FALSE
    /\ registry = [active |-> [s \in Slots |-> 0], retired |-> {}, maker |-> <<>>]
    /\ entries = {} /\ discarded = [s \in Slots |-> 0]

(* Current lets captures go on while locked; Visible guards what is shown. *)
Current(h, rev) == live[h] /\ gate.alive /\ revision[h] = rev

Visible(h, rev, epoch) == Current(h, rev) /\ ~gate.locked /\ gate.epoch = epoch

IsCurrent(j) == Current(jobs[j].handle, jobs[j].revision)
IsVisible(j) == Visible(jobs[j].handle, jobs[j].revision, jobs[j].epoch)

Settle(j, how) == jobs' = [jobs EXCEPT ![j].state = how]

----------------------------------------------------------------------------
(* UI thread *)

OnUi == gate.alive /\ ~switching

(* attach detaches the session it replaces.                                *)
Attach(s, login, fresh) ==
    LET old == sessions[s]
        h   == Len(info) + 1
    IN  /\ OnUi /\ h <= MaxHandles
        /\ info' = Append(info, [slot |-> s, login |-> login, fresh |-> fresh])
        /\ live' = [i \in 1..h |-> IF i = h THEN TRUE ELSE live[i] /\ i # old]
        /\ revision' = [i \in 1..h |-> IF i = h THEN 0
                                       ELSE IF i = old THEN revision[i] + 1 ELSE revision[i]]
        /\ enabled' = Append(enabled, FALSE)
        /\ cleared' = Append(cleared, 0)
        /\ sessions' = [sessions EXCEPT ![s] = h]
        /\ queue' = (IF old = 0 THEN queue ELSE Append(queue, Task("detach", old, FALSE)))
                        \o <<Task("attach", h, FALSE)>>
        /\ UNCHANGED <<gate, switching, count, workerVars, mailbox, jobs, entries,
                       discarded>>

Detach(h, loggedOut) ==
    /\ OnUi /\ sessions[info[h].slot] = h
    /\ live' = [live EXCEPT ![h] = FALSE]
    /\ revision' = [revision EXCEPT ![h] = @ + 1]
    /\ sessions' = [sessions EXCEPT ![info[h].slot] = 0]
    /\ queue' = Append(queue, Task("detach", h, loggedOut))
    /\ UNCHANGED <<info, enabled, gate, switching, count, workerVars, mailbox, jobs, ghosts>>

SetLocked(locked) ==
    /\ OnUi /\ gate.locked # locked /\ gate.epoch < MaxEpoch
    /\ gate' = [gate EXCEPT !.locked = locked]
    /\ switching' = TRUE
    /\ UNCHANGED <<info, sessions, live, enabled, revision, count, queue, workerVars,
                   mailbox, jobs, ghosts>>

BumpEpoch ==
    /\ switching
    /\ gate' = [gate EXCEPT !.epoch = @ + 1]
    /\ switching' = FALSE
    /\ UNCHANGED <<info, sessions, live, enabled, revision, count, queue, workerVars,
                   mailbox, jobs, ghosts>>

SetEnabled(h, value) ==
    /\ OnUi /\ Current(h, revision[h]) /\ enabled[h] # value
    /\ enabled' = [enabled EXCEPT ![h] = value]
    /\ UNCHANGED <<info, sessions, live, revision, gate, switching, count, queue,
                   workerVars, mailbox, jobs, ghosts>>

NewJob(kind, h, rev) ==
    /\ jobs' = Append(jobs, [kind |-> kind, handle |-> h, revision |-> rev,
                             epoch |-> gate.epoch, state |-> "open"])
    /\ queue' = Append(queue, Task(IF kind = "clear" THEN "clear" ELSE "job",
                                   Len(jobs) + 1, FALSE))

(* capture (kind "text" or "media") and request: refused at the limit.     *)
Admit(kind, h) ==
    /\ OnUi /\ Len(jobs) < MaxJobs
    /\ IF kind = "request" THEN Visible(h, revision[h], gate.epoch)
                           ELSE Current(h, revision[h]) /\ enabled[h]
    /\ count[kind] < Limit[kind]
    /\ count' = [count EXCEPT ![kind] = @ + 1]
    /\ NewJob(kind, h, revision[h])
    /\ UNCHANGED <<uiVars, workerVars, mailbox, ghosts>>

(* Mutant: clear leaves the session's revision as it is.                   *)
ClearUnrevised(h) ==
    /\ OnUi /\ Len(jobs) < MaxJobs
    /\ Visible(h, revision[h], gate.epoch)
    /\ NewJob("clear", h, revision[h])
    /\ cleared' = [cleared EXCEPT ![h] = Len(registry.maker)]
    /\ discarded' = [discarded EXCEPT ![info[h].slot] = Len(registry.maker)]
    /\ UNCHANGED <<uiVars, count, workerVars, mailbox, entries>>

(* clear revokes everything admitted before it, then queues its task.      *)
Clear(h) ==
    /\ OnUi /\ revision[h] < MaxClears /\ Len(jobs) < MaxJobs
    /\ Visible(h, revision[h], gate.epoch)
    /\ revision' = [revision EXCEPT ![h] = @ + 1]
    /\ NewJob("clear", h, revision[h] + 1)
    /\ cleared' = [cleared EXCEPT ![h] = Len(registry.maker)]
    /\ discarded' = [discarded EXCEPT ![info[h].slot] = Len(registry.maker)]
    /\ UNCHANGED <<info, sessions, live, enabled, gate, switching, count, workerVars,
                   mailbox, entries>>

ForgetAll ==
    /\ OnUi /\ gate.epoch < MaxEpoch
    /\ gate' = [gate EXCEPT !.epoch = @ + 1]
    /\ live' = [h \in Handles |-> live[h] /\ \A s \in Slots : sessions[s] # h]
    /\ sessions' = [s \in Slots |-> 0]
    /\ queue' = Append(queue, Task("forget", 0, FALSE))
    /\ UNCHANGED <<info, enabled, revision, switching, count, workerVars, mailbox, jobs,
                   ghosts>>

Destroy ==
    /\ OnUi
    /\ gate' = [gate EXCEPT !.alive = FALSE]
    /\ live' = [h \in Handles |-> live[h] /\ \A s \in Slots : sessions[s] # h]
    /\ UNCHANGED <<info, sessions, enabled, revision, switching, count, queue, workerVars,
                   mailbox, jobs, ghosts>>

Deliver ==
    /\ mailbox # <<>> /\ ~switching
    /\ LET j == Head(mailbox).job
       IN  Settle(j, IF IsVisible(j) THEN "shown" ELSE "dropped")
    /\ mailbox' = Tail(mailbox)
    /\ UNCHANGED <<uiVars, count, queue, workerVars, ghosts>>

----------------------------------------------------------------------------
(* Worker::registry and Worker::store, as sets of outcomes.  A world is    *)
(* what the worker thread owns of one slot; ok tells whether it threw.     *)

World(slot) == [slot |-> slot, pending |-> resetPending, reg |-> registry, ok |-> TRUE]

Thrown(w) == [w EXCEPT !.ok = FALSE]

Then(worlds, F(_)) == UNION {IF w.ok THEN F(w) ELSE {w} : w \in worlds}

InForce(reg) == {reg.active[s] : s \in Slots} \ {0}

Retired(w, s) == [w EXCEPT !.reg.active[s] = 0,
                           !.reg.retired = @ \cup ({w.reg.active[s]} \ {0})]

(* forgetAll may throw before its marker is written, after it, or succeed. *)
Forget(w) ==
    LET none == [w EXCEPT !.reg.active = [s \in Slots |-> 0],
                          !.reg.retired = @ \cup InForce(w.reg)]
    IN  {Thrown(w), Thrown(none), [none EXCEPT !.pending = FALSE]}

Registry(w) == IF w.pending THEN Forget(w) ELSE {w, Thrown(w)}

(* logout refuses another login's binding; it may throw before or after    *)
(* the generation is retired.                                              *)
Logout(w, h) ==
    LET s == info[h].slot
        g == w.reg.active[s]
    IN  IF g # 0 /\ LoginOf(g) = info[h].login
        THEN {Thrown(w), Retired(w, s), Thrown(Retired(w, s))} ELSE {w}

(* Mutant: open does not compare the login.                                *)
OpenForAnyone(w, h) ==
    LET s    == info[h].slot
        g    == w.reg.active[s]
        kept == Retired(w, s)
        next == Len(w.reg.maker) + 1
        made == [kept EXCEPT !.reg.active[s] = next, !.reg.maker = Append(@, h)]
    IN  IF g # 0 /\ ~w.slot.fresh
        THEN {Thrown(w), [w EXCEPT !.slot.vault = g]}
        ELSE {Thrown(w), Thrown(kept)}
             \cup IF next > MaxGenerations THEN {}
                  ELSE {Thrown(made), [made EXCEPT !.slot.vault = next, !.slot.fresh = FALSE]}

(* open: the generation in force, or a new one after retiring it.          *)
Open(w, h) ==
    LET s    == info[h].slot
        g    == w.reg.active[s]
        kept == Retired(w, s)
        next == Len(w.reg.maker) + 1
        made == [kept EXCEPT !.reg.active[s] = next, !.reg.maker = Append(@, h)]
    IN  IF g # 0 /\ ~w.slot.fresh /\ LoginOf(g) = info[h].login
        THEN {Thrown(w), [w EXCEPT !.slot.vault = g]}
        ELSE {Thrown(w), Thrown(kept)}
             \cup IF next > MaxGenerations THEN {}
                  ELSE {Thrown(made), [made EXCEPT !.slot.vault = next, !.slot.fresh = FALSE]}

(* A clear that is still to be done goes first.                            *)
Cleared(w, h) ==
    IF ~w.slot.clear THEN {w}
    ELSE {IF v.ok THEN [v EXCEPT !.slot.fresh = TRUE, !.slot.clear = FALSE,
                                 !.slot.recovery = FALSE]
                  ELSE v :
              v \in Then(Registry([w EXCEPT !.slot.archive = "none", !.slot.vault = 0]),
                         LAMBDA u : Logout(u, h))}

Opened(w, h) ==
    IF w.slot.vault # 0 THEN {w} ELSE Then(Registry(w), LAMBDA u : Open(u, h))

(* Archive::Store's constructor runs recover.                              *)
Constructed(w) ==
    IF w.slot.archive # "none" THEN {w}
    ELSE {Thrown(w), [w EXCEPT !.slot.archive = "clean"]}

(* recover() that throws may have set or kept _cleanupPending.             *)
Recovered(w) ==
    IF ~w.slot.recovery THEN {w}
    ELSE {[w EXCEPT !.slot.archive = "clean", !.slot.recovery = FALSE],
          Thrown(w), Thrown([w EXCEPT !.slot.archive = "dirty"])}

StoreOutcomes(h, w) ==
    IF w.slot.session # h THEN {Thrown(w)}
    ELSE Then(Then(Then(Cleared(w, h), LAMBDA a : Opened(a, h)), Constructed), Recovered)

Become(s, w) ==
    /\ storage' = [storage EXCEPT ![s] = w.slot]
    /\ resetPending' = w.pending
    /\ registry' = w.reg

----------------------------------------------------------------------------
(* Worker thread *)

Take(kind) == phase = "wait" /\ queue # <<>> /\ Head(queue).kind = kind
              /\ queue' = Tail(queue)

AttachTask ==
    /\ Take("attach")
    /\ LET h == Head(queue).id
       IN  storage' = [storage EXCEPT ![info[h].slot] =
                          [Closed EXCEPT !.session = h, !.fresh = info[h].fresh]]
    /\ UNCHANGED <<uiVars, count, phase, job, result, resetPending, registry, mailbox,
                   jobs, ghosts>>

DetachTask ==
    /\ Take("detach")
    /\ LET h == Head(queue).id
           s == info[h].slot
           w == World([storage[s] EXCEPT !.session = 0, !.vault = 0, !.archive = "none"])
       IN  IF storage[s].session # h THEN UNCHANGED <<storage, resetPending, registry>>
           ELSE \E v \in IF Head(queue).out THEN Then(Registry(w), LAMBDA u : Logout(u, h))
                                            ELSE {w} : Become(s, v)
    /\ UNCHANGED <<uiVars, count, phase, job, result, mailbox, jobs, ghosts>>

ForgetTask ==
    /\ Take("forget")
    /\ storage' = [s \in Slots |-> [storage[s] EXCEPT !.session = 0, !.vault = 0,
                                                      !.archive = "none"]]
    /\ \E s \in Slots : \E w \in Forget([World(storage[s]) EXCEPT !.pending = TRUE]) :
          resetPending' = w.pending /\ registry' = w.reg
    /\ UNCHANGED <<uiVars, count, phase, job, result, mailbox, jobs, ghosts>>

Release(j) == count' = [count EXCEPT ![jobs[j].kind] = @ - 1]

(* A capture needs a current session, a request an unlocked one as well.   *)
TakeJob ==
    /\ Take("job")
    /\ LET j == Head(queue).id
       IN  IF IF jobs[j].kind = "request" THEN IsVisible(j) ELSE IsCurrent(j)
           THEN job' = j /\ phase' = "open" /\ UNCHANGED <<jobs, count>>
           ELSE Settle(j, "dropped") /\ Release(j) /\ UNCHANGED <<job, phase>>
    /\ UNCHANGED <<uiVars, result, storage, resetPending, registry, mailbox, ghosts>>

(* store(handle): a request reads from it, a capture goes on to add.       *)
OpenStore ==
    /\ phase = "open"
    /\ LET h == jobs[job].handle
           s == info[h].slot
           capture == jobs[job].kind # "request"
       IN  \E w \in StoreOutcomes(h, World(storage[s])) :
             /\ Become(s, IF capture /\ ~w.ok THEN [w EXCEPT !.slot.recovery = TRUE] ELSE w)
             /\ result' \in IF w.ok THEN {w.slot.vault} \cup (IF capture THEN {} ELSE {0})
                                    ELSE {0}
             /\ phase' = IF capture /\ w.ok THEN "add" ELSE "reply"
    /\ UNCHANGED <<uiVars, count, queue, job, mailbox, jobs, ghosts>>

(* The reader of a media capture looks at the session while the store     *)
(* reads from it, the last time before anything of the entry is written.   *)
ReadMedia ==
    /\ phase = "add" /\ jobs[job].kind = "media" /\ IsCurrent(job)
    /\ phase' = "commit"
    /\ UNCHANGED <<uiVars, count, queue, job, result, storage, resetPending, registry,
                   mailbox, jobs, ghosts>>

Adding == phase \in {"add", "commit"}

(* Mutant: cleanup left by a committed add is not remembered.              *)
AddEntryForgetful ==
    LET s == info[jobs[job].handle].slot IN
    /\ Adding
    /\ \E archive \in {"clean", "dirty"} :
         /\ entries' = entries \cup {[job |-> job, gen |-> result]}
         /\ storage' = [storage EXCEPT ![s].archive = archive, ![s].recovery = FALSE]
    /\ phase' = "reply"
    /\ UNCHANGED <<uiVars, count, queue, job, result, resetPending, registry, mailbox,
                   jobs, cleared, discarded>>

(* The store's add throws at any point, also because the reader found the  *)
(* session revoked, or commits; either way it may leave cleanup to do.     *)
AddEntry ==
    LET s == info[jobs[job].handle].slot IN
    /\ Adding
    /\ \E archive \in {"clean", "dirty"} :
         \/ /\ phase = "commit" \/ jobs[job].kind = "text"
            /\ entries' = entries \cup {[job |-> job, gen |-> result]}
            /\ storage' = [storage EXCEPT ![s].archive = archive,
                                          ![s].recovery = (archive = "dirty")]
            /\ UNCHANGED result
         \/ /\ storage' = [storage EXCEPT ![s].archive = archive, ![s].recovery = TRUE]
            /\ result' = 0
            /\ UNCHANGED entries
    /\ phase' = "reply"
    /\ UNCHANGED <<uiVars, count, queue, job, resetPending, registry, mailbox, jobs,
                   cleared, discarded>>

(* Mutant: a failed job posts nothing.                                     *)
PostSuccess ==
    /\ phase = "reply"
    /\ IF IsVisible(job) /\ result # 0
       THEN mailbox' = Append(mailbox, [job |-> job, gen |-> result])
       ELSE UNCHANGED mailbox
    /\ IF jobs[job].kind = "clear" THEN UNCHANGED count ELSE Release(job)
    /\ phase' = "wait" /\ job' = 0 /\ result' = 0
    /\ UNCHANGED <<uiVars, queue, storage, resetPending, registry, jobs, ghosts>>

PostReply ==
    /\ phase = "reply"
    /\ IF IsVisible(job)
       THEN mailbox' = Append(mailbox, [job |-> job, gen |-> result]) /\ UNCHANGED jobs
       ELSE Settle(job, "dropped") /\ UNCHANGED mailbox
    /\ IF jobs[job].kind = "clear" THEN UNCHANGED count ELSE Release(job)
    /\ phase' = "wait" /\ job' = 0 /\ result' = 0
    /\ UNCHANGED <<uiVars, queue, storage, resetPending, registry, ghosts>>

(* The clear is remembered until store(handle) has carried it out.         *)
ClearTask ==
    /\ Take("clear")
    /\ LET j == Head(queue).id
           h == jobs[j].handle
           s == info[h].slot
       IN  IF ~IsCurrent(j)
           THEN Settle(j, "dropped") /\ UNCHANGED <<phase, job, result, storage, resetPending,
                                                    registry>>
           ELSE /\ job' = j /\ phase' = "reply" /\ UNCHANGED jobs
                /\ \E w \in StoreOutcomes(h, World([storage[s] EXCEPT !.clear = TRUE])) :
                      /\ Become(s, w)
                      /\ result' = IF w.ok THEN w.slot.vault ELSE 0
    /\ UNCHANGED <<uiVars, count, mailbox, ghosts>>

Stop ==
    /\ phase = "wait" /\ queue = <<>> /\ ~gate.alive
    /\ phase' = "stopped"
    /\ storage' = [s \in Slots |-> Closed]
    /\ UNCHANGED <<uiVars, count, queue, job, result, resetPending, registry, mailbox,
                   jobs, ghosts>>

----------------------------------------------------------------------------
Ui == \/ \E s \in Slots, l \in Logins, fresh \in BOOLEAN : Attach(s, l, fresh)
      \/ \E h \in Handles, value \in BOOLEAN : Detach(h, value) \/ SetEnabled(h, value)
      \/ \E locked \in BOOLEAN : SetLocked(locked)
      \/ \E h \in Handles, kind \in Kinds : Admit(kind, h)
      \/ \E h \in Handles : Clear(h)
      \/ ForgetAll \/ Destroy

WorkerStep == AttachTask \/ DetachTask \/ ForgetTask \/ ClearTask \/ TakeJob \/ OpenStore
              \/ ReadMedia \/ AddEntry \/ PostReply \/ Stop

Next == Ui \/ BumpEpoch \/ WorkerStep \/ Deliver

Spec == Init /\ [][Next]_vars

(* The worker thread runs while its queue is not empty, and the UI event   *)
(* loop runs what is posted to it.                                         *)
FairSpec == Spec /\ WF_vars(WorkerStep) /\ WF_vars(Deliver) /\ WF_vars(BumpEpoch)

----------------------------------------------------------------------------
(* Properties *)

Shown(P(_, _)) == \A i \in 1..Len(mailbox) :
    LET m == mailbox[i]
    IN  IsVisible(m.job) /\ m.gen # 0 => P(jobs[m.job].handle, m.gen)

(* What would be shown now was read from the generation in force, of the   *)
(* login that asked, and holds nothing the session had cleared: neither a  *)
(* generation made before its clear() nor an entry captured before it      *)
(* (README: clear "revokes old results"; Worker::Visible).                 *)
ShownInForce == Shown(LAMBDA h, g :
    /\ registry.active[info[h].slot] = g /\ g \notin registry.retired
    /\ LoginOf(g) = info[h].login
    /\ g > cleared[h]
    /\ \A e \in entries : e.gen = g /\ jobs[e.job].handle = h
                              => jobs[e.job].revision = revision[h])

(* A capture is committed only to a generation of its own login, while its *)
(* session is the one attached to the slot (Worker::capture's checks).     *)
CaptureInSession == \A e \in entries :
    /\ LoginOf(e.gen) = info[jobs[e.job].handle].login
    /\ info[registry.maker[e.gen]].slot = info[jobs[e.job].handle].slot

(* While a job runs, its session's slot is still that session's, so that   *)
(* recoveryPending and the store it works on are never another session's   *)
(* (Worker::capture writes _storage[handle->slot] without a check).        *)
RunsInOwnSlot == phase \in {"open", "add", "commit"} =>
    storage[info[jobs[job].handle].slot].session = jobs[job].handle

(* A job neither reads another session's data nor touches its slot.        *)
JobsStayHome == CaptureInSession /\ RunsInOwnSlot

(* Every unit of the limits is held by a job that is still to be run, and  *)
(* given back whatever became of it (Release).                             *)
LimitsReturned == \A k \in Kinds :
    count[k] = Cardinality({j \in Jobs : jobs[j].kind = k
                              /\ (j = job \/ \E i \in 1..Len(queue) :
                                                queue[i].kind = "job" /\ queue[i].id = j)})

(* Cleanup the archive store still has to do is remembered by the worker:  *)
(* otherwise every later access would fail (recoveryPending).              *)
RecoveryRemembered == \A s \in Slots :
    storage[s].archive = "dirty" /\ phase = "wait" => storage[s].recovery

(* What the worker keeps for later is exact: deferred cleanups and limits. *)
BooksBalance == TypeOK /\ RecoveryRemembered /\ LimitsReturned

(* Every job is answered or, if it became stale, dropped.                  *)
JobsSettle == \A j \in 1..MaxJobs :
    (j \in Jobs /\ jobs[j].state = "open") ~> (j \in Jobs /\ jobs[j].state # "open")

(* README, 42-43: the worker "retires its archive generation before later  *)
(* access": once an account's archive was cleared, no session of its slot  *)
(* is shown a generation that existed then.                                *)
ClearedNeverShown == Shown(LAMBDA h, g : g > discarded[info[h].slot])
=============================================================================
