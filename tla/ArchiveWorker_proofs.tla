------------------------ MODULE ArchiveWorker_proofs ------------------------
(***************************************************************************)
(* Theorems about ArchiveWorker, for any slots, logins and limits and any  *)
(* number of sessions, jobs, generations, locks and clears: what is shown  *)
(* is in force and was not cleared, no job leaves its session's slot, and  *)
(* what is kept for later is exact.                                        *)
(*                                                                         *)
(* The argument: jobs run in the order they were admitted, and a clear     *)
(* revokes every job before it, so a job of a session that is still        *)
(* current has no clear ahead of it to wait for (RevisedInv).  Until such  *)
(* a clear has run, nothing is claimed of the session's archive; from then *)
(* on, it is one the clear did not see, or none (CleanInv).  The slot is   *)
(* the session's as long as the session is live (HomeInv, HoldInv).        *)
(***************************************************************************)
EXTENDS ArchiveWorker, FiniteSetTheorems, SequenceTheorems, TLAPS

----------------------------------------------------------------------------
(* The inductive invariant *)

Info == [slot: Slots, login: Logins, fresh: BOOLEAN]

TaskRec == [kind: {"attach", "detach", "forget", "clear", "job"}, id: Nat, out: BOOLEAN]

JobRec == [kind: Kinds \cup {"clear"}, handle: Handles, revision: Nat, epoch: Nat,
           state: {"open", "shown", "dropped"}]

SlotRec(n, g) == [session: 0..n, vault: 0..g, archive: {"none", "clean", "dirty"},
                  fresh: BOOLEAN, clear: BOOLEAN, recovery: BOOLEAN]

SessionsOK ==
    /\ info \in Seq(Info) /\ sessions \in [Slots -> 0..Len(info)]
    /\ live \in [Handles -> BOOLEAN] /\ enabled \in [Handles -> BOOLEAN]
    /\ revision \in [Handles -> Nat] /\ cleared \in [Handles -> Nat]

GateOK == /\ gate \in [alive: BOOLEAN, locked: BOOLEAN, epoch: Nat]
          /\ switching \in BOOLEAN

(* Task t is for a session, or for a job of its kind.                      *)
Meant(t) ==
    /\ t.kind \in {"attach", "detach"} => t.id \in Handles
    /\ t.kind \in {"clear", "job"} => t.id \in Jobs /\ (t.kind = "clear" <=> jobs[t.id].kind = "clear")

QueueOK == queue \in Seq(TaskRec) /\ \A i \in 1..Len(queue) : Meant(queue[i])

JobsOK == jobs \in Seq(JobRec)

MailOK == /\ mailbox \in Seq([job: Jobs, gen: 0..Len(registry.maker)])
          /\ entries \subseteq [job: Jobs, gen: Generations]
          /\ discarded \in [Slots -> 0..Len(registry.maker)]

StorageOK == /\ storage \in [Slots -> SlotRec(Len(info), Len(registry.maker))]
             /\ resetPending \in BOOLEAN

(* The registry: no generation in force is retired or bound to two slots,  *)
(* and each was made by a session of its slot.                             *)
RegRec == [active: [Slots -> Nat], retired: SUBSET Nat, maker: Seq(Handles)]

Sound(reg) ==
    /\ reg \in RegRec
    /\ reg.active \in [Slots -> 0..Len(reg.maker)] /\ reg.retired \subseteq 1..Len(reg.maker)
    /\ \A s \in Slots : reg.active[s] # 0 =>
         /\ reg.active[s] \notin reg.retired
         /\ info[reg.maker[reg.active[s]]].slot = s

RegistryInv == Sound(registry)

(* The worker at its job.                                                  *)
PhaseInv ==
    /\ phase \in {"wait", "open", "add", "commit", "reply", "stopped"}
    /\ job \in 0..Len(jobs) /\ result \in 0..Len(registry.maker)
    /\ phase \in {"open", "add", "commit", "reply"} <=> job # 0
    /\ phase \in {"wait", "open", "stopped"} => result = 0
    /\ phase \in {"open", "add", "commit"} => jobs[job].kind # "clear"
    /\ phase \in {"add", "commit"} => result # 0 /\ jobs[job].kind # "request"

LiveInv == \A h \in Handles : live[h] => gate.alive /\ sessions[info[h].slot] = h

(* Task t, once it runs, ends what the worker holds for handle h.          *)
Ends(t, h) ==
    \/ t.kind = "forget"
    \/ t.kind = "detach" /\ t.id = h
    \/ t.kind = "attach" /\ info[t.id].slot = info[h].slot

HoldInv == \A s \in Slots : storage[s].session # 0 /\ live[storage[s].session] =>
    \A i \in 1..Len(queue) : ~Ends(queue[i], storage[s].session)

OrderInv == \A i, k \in 1..Len(queue) :
    i < k /\ queue[i].kind = "attach" /\ live[queue[i].id] => ~Ends(queue[k], queue[i].id)

IsJob(t) == t.kind \in {"job", "clear"}

(* A live session is attached to its slot, or its attach is queued, ahead  *)
(* of the session's jobs.                                                  *)
AttachedIn(st, q, h, k) ==
    \/ st[info[h].slot].session = h
    \/ \E i \in 1..Len(q) : i < k /\ q[i].kind = "attach" /\ q[i].id = h

HomeInv ==
    /\ \A h \in Handles : live[h] => AttachedIn(storage, queue, h, Len(queue) + 1)
    /\ \A k \in 1..Len(queue) : IsJob(queue[k]) /\ live[jobs[queue[k].id].handle]
                                    => AttachedIn(storage, queue, jobs[queue[k].id].handle, k)

(* Jobs are queued in the order they were admitted, after the one that is  *)
(* being run and those that were answered.                                 *)
FifoInv ==
    /\ \A i, k \in 1..Len(queue) :
         i < k /\ IsJob(queue[i]) /\ IsJob(queue[k]) => queue[i].id < queue[k].id
    /\ \A k \in 1..Len(queue) : IsJob(queue[k]) =>
         /\ job < queue[k].id
         /\ \A i \in 1..Len(mailbox) : mailbox[i].job < queue[k].id
    /\ \A i \in 1..Len(mailbox) : job # 0 => mailbox[i].job < job

(* A clear revokes every job of its session before it.                     *)
RevisionInv ==
    /\ \A j \in Jobs : jobs[j].revision <= revision[jobs[j].handle]
    /\ \A i, j \in Jobs : i < j /\ jobs[i].handle = jobs[j].handle =>
         /\ jobs[i].revision <= jobs[j].revision
         /\ jobs[j].kind = "clear" => jobs[i].revision < jobs[j].revision

(* A clear of a session that has not run yet, and is the last one.         *)
ClearDue(h) == \E k \in 1..Len(queue) :
    /\ queue[k].kind = "clear" /\ jobs[queue[k].id].handle = h
    /\ jobs[queue[k].id].revision = revision[h]

Unsettled(j) == j = job \/ \E k \in 1..Len(queue) : IsJob(queue[k]) /\ queue[k].id = j

(* A job of a live session that was revoked has the clear behind it.       *)
RevisedInv ==
    /\ \A j \in Jobs : LET h == jobs[j].handle IN
         live[h] /\ Unsettled(j) /\ jobs[j].revision < revision[h] => ClearDue(h)
    /\ \A h \in Handles : /\ cleared[h] <= Len(registry.maker)
                          /\ revision[h] = 0 => cleared[h] = 0
    /\ \A k \in 1..Len(queue) : LET h == queue[k].id IN
         queue[k].kind = "attach" /\ live[h] => revision[h] = 0 \/ ClearDue(h)

(* What an open vault is: the generation in force, of its session's login. *)
VaultOK(s, o, reg, pending) ==
    /\ o.vault # 0 => /\ reg.active[s] = o.vault /\ ~pending
                      /\ info[reg.maker[o.vault]].login = info[o.session].login
                      /\ o.session # 0 /\ ~o.clear
    /\ o.session # 0 => info[o.session].slot = s
    /\ o.archive = "dirty" => o.recovery

StoreInv == \A s \in Slots : VaultOK(s, storage[s], registry, resetPending)

(* Generation g holds nothing that session h has cleared.                  *)
Uncleared(h, g) ==
    /\ g > cleared[h]
    /\ \A e \in entries : e.gen = g /\ jobs[e.job].handle = h => jobs[e.job].revision = revision[h]

Clean(h, o) ==
    \/ o.clear
    \/ o.vault # 0 /\ Uncleared(h, o.vault)
    \/ o.vault = 0 /\ (o.fresh \/ revision[h] = 0)

CleanInv == \A s \in Slots : LET h == storage[s].session IN
    h # 0 /\ live[h] /\ ~ClearDue(h) => Clean(h, storage[s])

Held(j, g) == LET o == storage[info[jobs[j].handle].slot] IN
    o.session = jobs[j].handle /\ o.vault = g

(* The store that a job has opened, and a reply came from.                 *)
HeldInv ==
    /\ phase \in {"open", "add", "commit"} => storage[info[jobs[job].handle].slot].session = jobs[job].handle
    /\ result # 0 => Held(job, result)
    /\ \A i \in 1..Len(mailbox) :
         mailbox[i].gen # 0 /\ IsCurrent(mailbox[i].job) => Held(mailbox[i].job, mailbox[i].gen)

Queued(j) == \E i \in 1..Len(queue) : queue[i].kind = "job" /\ queue[i].id = j

Holding(k) == {j \in Jobs : jobs[j].kind = k /\ (j = job \/ Queued(j))}

CountInv == count \in [Kinds -> Nat] /\ \A k \in Kinds : count[k] = Cardinality(Holding(k))

IInv ==
    /\ SessionsOK /\ GateOK /\ QueueOK /\ JobsOK /\ MailOK /\ StorageOK /\ RegistryInv /\ PhaseInv
    /\ LiveInv /\ HoldInv /\ OrderInv /\ HomeInv /\ FifoInv /\ RevisionInv /\ RevisedInv
    /\ StoreInv /\ CleanInv /\ HeldInv /\ CaptureInSession /\ CountInv

----------------------------------------------------------------------------
(* Facts about the sequences *)

LEMMA SessionFacts ==
    ASSUME SessionsOK, RegistryInv
    PROVE  /\ Len(info) \in Nat /\ \A h \in Handles : info[h] \in Info
           /\ \A s \in Slots : sessions[s] # 0 => sessions[s] \in Handles
           /\ registry.maker \in Seq(Handles) /\ Len(registry.maker) \in Nat
           /\ \A g \in Generations : registry.maker[g] \in Handles
<1>1. info \in Seq(Info) /\ registry.maker \in Seq(Handles)
  BY DEF SessionsOK, RegistryInv, Sound, RegRec
<1>2. Len(info) \in Nat /\ Len(registry.maker) \in Nat
  BY <1>1, LenProperties
<1>3. \A h \in Handles : info[h] \in Info
  BY <1>1, ElementOfSeq DEF Handles
<1>4. \A g \in Generations : registry.maker[g] \in Handles
  BY <1>1, ElementOfSeq DEF Generations
<1>5. \A s \in Slots : sessions[s] \in 0..Len(info)
  BY DEF SessionsOK
<1> QED
  BY <1>1, <1>2, <1>3, <1>4, <1>5 DEF Handles

LEMMA QueueFacts ==
    ASSUME QueueOK, JobsOK, MailOK, RegistryInv
    PROVE  /\ Len(jobs) \in Nat /\ Len(queue) \in Nat /\ Len(mailbox) \in Nat
           /\ \A j \in Jobs : jobs[j] \in JobRec /\ jobs[j].handle \in Handles
                              /\ jobs[j].revision \in Nat
           /\ \A i \in 1..Len(queue) : queue[i] \in TaskRec /\ Meant(queue[i]) /\ queue[i].id \in Nat
           /\ \A i \in 1..Len(mailbox) : mailbox[i] \in [job: Jobs, gen: 0..Len(registry.maker)]
                                         /\ mailbox[i].job \in Jobs
<1>1. /\ jobs \in Seq(JobRec) /\ queue \in Seq(TaskRec)
      /\ mailbox \in Seq([job: Jobs, gen: 0..Len(registry.maker)])
  BY DEF JobsOK, QueueOK, MailOK
<1>2. Len(jobs) \in Nat /\ Len(queue) \in Nat /\ Len(mailbox) \in Nat
  BY <1>1, LenProperties
<1>3. \A j \in Jobs : jobs[j] \in JobRec
  BY <1>1, ElementOfSeq DEF Jobs
<1>4. \A i \in 1..Len(queue) : queue[i] \in TaskRec
  BY <1>1, ElementOfSeq
<1>5. \A i \in 1..Len(mailbox) : mailbox[i] \in [job: Jobs, gen: 0..Len(registry.maker)]
  BY <1>1, ElementOfSeq
<1>6. \A i \in 1..Len(queue) : Meant(queue[i])
  BY DEF QueueOK
<1> QED
  BY <1>2, <1>3, <1>4, <1>5, <1>6 DEF JobRec, TaskRec

LEMMA StorageFacts ==
    ASSUME StorageOK, SessionsOK, RegistryInv
    PROVE  \A s \in Slots :
              /\ storage[s] \in SlotRec(Len(info), Len(registry.maker))
              /\ storage[s].session # 0 => storage[s].session \in Handles
              /\ storage[s].vault # 0 => storage[s].vault \in Generations
<1>1. \A s \in Slots : storage[s] \in SlotRec(Len(info), Len(registry.maker))
  BY DEF StorageOK
<1> QED
  BY <1>1, SessionFacts DEF SlotRec, Handles, Generations

(* What became of a job is not what it was for.                            *)
SameJobs ==
    /\ Len(jobs') = Len(jobs)
    /\ \A j \in Jobs : /\ jobs'[j].kind = jobs[j].kind /\ jobs'[j].handle = jobs[j].handle
                       /\ jobs'[j].revision = jobs[j].revision

LEMMA SettleFacts ==
    ASSUME JobsOK, NEW j \in Jobs, NEW how \in {"open", "shown", "dropped"}, Settle(j, how),
           info' = info
    PROVE  JobsOK' /\ SameJobs
<1>1. jobs \in Seq(JobRec) /\ jobs[j] \in JobRec /\ Len(jobs) \in Nat
  BY ElementOfSeq, LenProperties DEF JobsOK, Jobs
<1>2. [jobs[j] EXCEPT !.state = how] \in JobRec
  BY <1>1 DEF JobRec
<1>3. jobs' = [jobs EXCEPT ![j] = [jobs[j] EXCEPT !.state = how]]
  BY DEF Settle
<1>4. jobs' \in Seq(JobRec) /\ Len(jobs') = Len(jobs)
  BY <1>1, <1>2, <1>3, ExceptSeq DEF Jobs
<1>5. JobRec' = JobRec
  BY DEF JobRec, Handles
<1>6. \A i \in Jobs : jobs'[i] = IF i = j THEN [jobs[j] EXCEPT !.state = how] ELSE jobs[i]
  BY <1>1, <1>3, ExceptSeq DEF Jobs
<1>7. /\ [jobs[j] EXCEPT !.state = how].kind = jobs[j].kind
      /\ [jobs[j] EXCEPT !.state = how].handle = jobs[j].handle
      /\ [jobs[j] EXCEPT !.state = how].revision = jobs[j].revision
  BY <1>1, Zenon DEF JobRec
<1>8. SameJobs
  BY <1>4, <1>6, <1>7 DEF SameJobs
<1> QED
  BY <1>4, <1>5, <1>8 DEF JobsOK

LEMMA KeptJobs == ASSUME JobsOK, UNCHANGED <<info, jobs>> PROVE JobsOK' /\ SameJobs
  BY DEF JobsOK, SameJobs, JobRec, Handles

(* The first task is taken.                                                *)
LEMMA TakenFacts ==
    ASSUME IInv, queue # <<>>, queue' = Tail(queue)
    PROVE  /\ Head(queue) = queue[1] /\ 1 \in 1..Len(queue) /\ queue' \in Seq(TaskRec)
           /\ Len(queue') \in Nat /\ Len(queue) = Len(queue') + 1
           /\ \A i \in 1..Len(queue') : i + 1 \in 2..Len(queue) /\ queue'[i] = queue[i + 1]
           /\ \A i \in 2..Len(queue) : i - 1 \in 1..Len(queue') /\ queue'[i - 1] = queue[i]
<1>1. queue \in Seq(TaskRec)
  BY DEF IInv, QueueOK
<1>2. /\ Head(queue) = queue[1] /\ Len(queue) \in Nat \ {0} /\ queue' \in Seq(TaskRec)
      /\ Len(queue') = Len(queue) - 1 /\ \A i \in 1..Len(queue') : queue'[i] = queue[i + 1]
  BY <1>1, HeadTailProperties, LenProperties, EmptySeq
<1> QED
  BY <1>2

----------------------------------------------------------------------------
(* The registry and the store, outcome by outcome *)

SlotSet == [session: 0..Len(info), vault: Nat, archive: {"none", "clean", "dirty"},
            fresh: BOOLEAN, clear: BOOLEAN, recovery: BOOLEAN]

WorldRec == [slot: SlotSet, pending: BOOLEAN, reg: RegRec, ok: BOOLEAN]

LEMMA ThrownFacts ==
    ASSUME NEW w \in WorldRec
    PROVE  /\ Thrown(w) \in WorldRec /\ Thrown(w).slot = w.slot /\ Thrown(w).pending = w.pending
           /\ Thrown(w).reg = w.reg /\ ~Thrown(w).ok
  BY DEF Thrown, WorldRec

(* A slot's binding is dropped, and its generation retired.                *)
LEMMA RetiredFacts ==
    ASSUME NEW w \in WorldRec, Sound(w.reg), NEW s \in Slots
    PROVE  LET v == Retired(w, s) IN
           /\ v \in WorldRec /\ v.slot = w.slot /\ v.pending = w.pending /\ v.ok = w.ok
           /\ Sound(v.reg) /\ v.reg.maker = w.reg.maker
           /\ \A t \in Slots : v.reg.active[t] = IF t = s THEN 0 ELSE w.reg.active[t]
<1> DEFINE v == Retired(w, s)
           gone == w.reg.retired \cup ({w.reg.active[s]} \ {0})
           act == [w.reg.active EXCEPT ![s] = 0]
<1>1. /\ w.reg \in RegRec /\ w.reg.active \in [Slots -> 0..Len(w.reg.maker)]
      /\ w.reg.maker \in Seq(Handles) /\ w.reg.retired \subseteq 1..Len(w.reg.maker)
      /\ Len(w.reg.maker) \in Nat
  BY LenProperties DEF Sound, RegRec
<1>2. /\ v.slot = w.slot /\ v.pending = w.pending /\ v.ok = w.ok
      /\ v.reg = [w.reg EXCEPT !.active = act, !.retired = gone]
      /\ v = [w EXCEPT !.reg = [w.reg EXCEPT !.active = act, !.retired = gone]]
  BY <1>1 DEF Retired, WorldRec, RegRec
<1>3. act \in [Slots -> 0..Len(w.reg.maker)] /\ act \in [Slots -> Nat]
      /\ gone \subseteq 1..Len(w.reg.maker) /\ gone \in SUBSET Nat
      /\ \A t \in Slots : act[t] = IF t = s THEN 0 ELSE w.reg.active[t]
  BY <1>1
<1> HIDE DEF act, gone
<1>4. /\ v.reg.active = act /\ v.reg.retired = gone /\ v.reg.maker = w.reg.maker
      /\ v.reg \in RegRec
  BY <1>1, <1>2, <1>3 DEF RegRec
<1>5. v \in WorldRec
  BY <1>2, <1>4 DEF WorldRec
<1>6. \A t \in Slots : act[t] # 0 => act[t] \notin gone
  <2> SUFFICES ASSUME NEW t \in Slots, act[t] # 0 PROVE act[t] \notin gone
    OBVIOUS
  <2>1. t # s /\ act[t] = w.reg.active[t] /\ act[t] \notin w.reg.retired
        /\ info[w.reg.maker[act[t]]].slot = t
    BY <1>3 DEF Sound
  <2>2. w.reg.active[s] # 0 => info[w.reg.maker[w.reg.active[s]]].slot = s
    BY DEF Sound
  <2> QED
    BY <2>1, <2>2 DEF gone
<1> HIDE DEF v
<1>7. Sound(v.reg)
  BY <1>3, <1>4, <1>6 DEF Sound
<1> QED
  BY <1>2, <1>3, <1>4, <1>5, <1>7 DEF v

(* A new generation is bound to a slot without a binding, for handle h.    *)
Made(w, s, h) == [w EXCEPT !.reg.active[s] = Len(w.reg.maker) + 1, !.reg.maker = Append(@, h)]

LEMMA MadeFacts ==
    ASSUME NEW w \in WorldRec, Sound(w.reg), NEW h \in Handles, info[h].slot \in Slots
    PROVE  LET v == Made(w, info[h].slot, h)
               n == Len(w.reg.maker) + 1 IN
           /\ v \in WorldRec /\ v.slot = w.slot /\ v.pending = w.pending /\ v.ok = w.ok
           /\ Sound(v.reg) /\ Len(v.reg.maker) = n /\ v.reg.maker[n] = h
           /\ \A g \in 1..Len(w.reg.maker) : v.reg.maker[g] = w.reg.maker[g]
           /\ \A t \in Slots : v.reg.active[t] = IF t = info[h].slot THEN n ELSE w.reg.active[t]
<1> DEFINE s == info[h].slot
           n == Len(w.reg.maker) + 1
           v == Made(w, s, h)
           act == [w.reg.active EXCEPT ![s] = n]
           mk == Append(w.reg.maker, h)
<1>1. /\ w.reg \in RegRec /\ w.reg.active \in [Slots -> 0..Len(w.reg.maker)]
      /\ w.reg.maker \in Seq(Handles) /\ w.reg.retired \subseteq 1..Len(w.reg.maker)
      /\ Len(w.reg.maker) \in Nat
  BY LenProperties DEF Sound, RegRec
<1>2. /\ v.slot = w.slot /\ v.pending = w.pending /\ v.ok = w.ok
      /\ v.reg = [w.reg EXCEPT !.active = act, !.maker = mk]
      /\ v = [w EXCEPT !.reg = [w.reg EXCEPT !.active = act, !.maker = mk]]
  BY <1>1 DEF Made, WorldRec, RegRec
<1>3. /\ mk \in Seq(Handles) /\ Len(mk) = n /\ mk[n] = h
      /\ \A g \in 1..Len(w.reg.maker) : mk[g] = w.reg.maker[g]
  BY <1>1, AppendProperties
<1>4. act \in [Slots -> 0..n] /\ act \in [Slots -> Nat] /\ n \in Nat /\ n \notin w.reg.retired
      /\ w.reg.retired \subseteq 1..n
      /\ \A t \in Slots : act[t] = IF t = s THEN n ELSE w.reg.active[t]
  BY <1>1
<1> HIDE DEF act, mk
<1>5. /\ v.reg.active = act /\ v.reg.retired = w.reg.retired /\ v.reg.maker = mk
      /\ v.reg \in RegRec
  BY <1>1, <1>2, <1>3, <1>4 DEF RegRec
<1>6. v \in WorldRec
  BY <1>2, <1>5 DEF WorldRec
<1>7. \A t \in Slots : act[t] # 0 => act[t] \notin w.reg.retired /\ info[mk[act[t]]].slot = t
  <2> SUFFICES ASSUME NEW t \in Slots, t # s, act[t] # 0
               PROVE  act[t] \notin w.reg.retired /\ info[mk[act[t]]].slot = t
    BY <1>3, <1>4
  <2>1. act[t] \in 1..Len(w.reg.maker) /\ act[t] = w.reg.active[t]
    BY <1>1, <1>4
  <2> QED
    BY <1>3, <2>1 DEF Sound
<1> HIDE DEF v, n
<1>8. Sound(v.reg)
  BY <1>3, <1>4, <1>5, <1>7 DEF Sound
<1> QED
  BY <1>2, <1>3, <1>4, <1>5, <1>6, <1>8 DEF v, n

(* What a call of the registry leaves alone: the slot, the makers, and,    *)
(* unless a reset was pending, the other slots' bindings.                  *)
Follows(w, v, s) ==
    /\ v \in WorldRec /\ v.slot = w.slot
    /\ Sound(v.reg) /\ v.reg.maker = w.reg.maker
    /\ ~w.pending => ~v.pending /\ \A t \in Slots \ {s} : v.reg.active[t] = w.reg.active[t]

LEMMA ForgetFacts ==
    ASSUME NEW w \in WorldRec, Sound(w.reg), NEW v \in Forget(w)
    PROVE  /\ v \in WorldRec /\ v.slot = w.slot /\ Sound(v.reg) /\ v.reg.maker = w.reg.maker
           /\ v.ok => ~v.pending
<1> DEFINE none == [w EXCEPT !.reg.active = [s \in Slots |-> 0],
                             !.reg.retired = @ \cup InForce(w.reg)]
           zero == [s \in Slots |-> 0]
           gone == w.reg.retired \cup InForce(w.reg)
<1>1. /\ w.reg \in RegRec /\ w.reg.active \in [Slots -> 0..Len(w.reg.maker)]
      /\ w.reg.maker \in Seq(Handles) /\ w.reg.retired \subseteq 1..Len(w.reg.maker)
      /\ Len(w.reg.maker) \in Nat
  BY LenProperties DEF Sound, RegRec
<1>2. zero \in [Slots -> Nat] /\ zero \in [Slots -> 0..Len(w.reg.maker)]
      /\ \A s \in Slots : zero[s] = 0
  BY <1>1
<1>3. gone \subseteq 1..Len(w.reg.maker) /\ gone \in SUBSET Nat
  BY <1>1 DEF InForce
<1>4. /\ none.slot = w.slot /\ none.pending = w.pending /\ none.ok = w.ok
      /\ none.reg = [w.reg EXCEPT !.active = zero, !.retired = gone]
      /\ none = [w EXCEPT !.reg = [w.reg EXCEPT !.active = zero, !.retired = gone]]
  BY <1>1 DEF WorldRec, RegRec
<1>7. v \in {Thrown(w), Thrown(none), [none EXCEPT !.pending = FALSE]}
  BY DEF Forget
<1> HIDE DEF none
<1> HIDE DEF zero, gone
<1>5. /\ none.reg.active = zero /\ none.reg.retired = gone /\ none.reg.maker = w.reg.maker
      /\ none.reg \in RegRec
  <2>1. \A r \in RegRec : LET v1 == [r EXCEPT !.active = zero, !.retired = gone] IN
           v1.active = zero /\ v1.retired = gone /\ v1.maker = r.maker /\ v1 \in RegRec
    BY <1>2, <1>3 DEF RegRec
  <2> QED
    BY <1>1, <1>4, <2>1
<1>6. none \in WorldRec
  BY <1>4, <1>5 DEF WorldRec
<1>8. Sound(none.reg)
  BY <1>2, <1>3, <1>5 DEF Sound
<1>9. CASE v = Thrown(w)
  BY <1>9, ThrownFacts
<1>10. CASE v = Thrown(none)
  BY <1>4, <1>5, <1>6, <1>8, <1>10, ThrownFacts
<1>11. CASE v = [none EXCEPT !.pending = FALSE]
  <2>1. v \in WorldRec /\ v.slot = none.slot /\ v.reg = none.reg /\ ~v.pending
    BY <1>6, <1>11 DEF WorldRec
  <2> QED
    BY <1>4, <1>5, <1>8, <2>1
<1> QED
  BY <1>7, <1>9, <1>10, <1>11

LEMMA RegistryCall ==
    ASSUME NEW w \in WorldRec, Sound(w.reg), NEW s, NEW v \in Registry(w)
    PROVE  Follows(w, v, s) /\ (v.ok => ~v.pending)
<1>1. CASE w.pending
  BY <1>1, ForgetFacts DEF Registry, Follows
<1>2. CASE ~w.pending
  <2>1. v = w \/ v = Thrown(w)
    BY <1>2 DEF Registry
  <2> QED
    BY <1>2, <2>1, ThrownFacts DEF Follows
<1> QED
  BY <1>1, <1>2

LEMMA LogoutCall ==
    ASSUME NEW w \in WorldRec, Sound(w.reg), NEW h \in Handles, info[h].slot \in Slots,
           NEW v \in Logout(w, h)
    PROVE  Follows(w, v, info[h].slot)
<1> DEFINE s == info[h].slot
           k == Retired(w, s)
<1>1. v = w \/ v = Thrown(w) \/ v = k \/ v = Thrown(k)
  BY DEF Logout
<1>2. /\ k \in WorldRec /\ k.slot = w.slot /\ k.pending = w.pending
      /\ Sound(k.reg) /\ k.reg.maker = w.reg.maker
      /\ \A t \in Slots : k.reg.active[t] = IF t = s THEN 0 ELSE w.reg.active[t]
  BY RetiredFacts
<1> HIDE DEF k
<1>3. CASE v = w \/ v = Thrown(w)
  BY <1>3, ThrownFacts DEF Follows
<1>4. CASE v = k \/ v = Thrown(k)
  BY <1>2, <1>4, ThrownFacts DEF Follows
<1> QED
  BY <1>1, <1>3, <1>4

(* A logout that first builds the registry again.                          *)
LEMMA LoggedOut ==
    ASSUME NEW w \in WorldRec, Sound(w.reg), NEW h \in Handles, info[h].slot \in Slots,
           NEW v \in Then(Registry(w), LAMBDA u : Logout(u, h))
    PROVE  Follows(w, v, info[h].slot)
<1>1. PICK u \in Registry(w) : v \in IF u.ok THEN Logout(u, h) ELSE {u}
  BY DEF Then
<1>2. Follows(w, u, info[h].slot)
  BY RegistryCall
<1>3. CASE ~u.ok
  BY <1>1, <1>2, <1>3
<1>4. CASE u.ok
  BY <1>1, <1>2, <1>4, LogoutCall DEF Follows
<1> QED
  BY <1>3, <1>4

(* What a world is worth to handle h, whose slot it is of.                 *)
Good(w, h) ==
    /\ w \in WorldRec /\ Sound(w.reg) /\ w.slot.session = h
    /\ VaultOK(info[h].slot, w.slot, w.reg, w.pending)
    /\ Len(registry.maker) <= Len(w.reg.maker)

(* World v is what the store made of world w.                              *)
Ahead(w, v, h) ==
    /\ Good(v, h)
    /\ ~w.pending => ~v.pending /\ \A t \in Slots : t # info[h].slot
                                       => v.reg.active[t] = w.reg.active[t]
    /\ Len(w.reg.maker) <= Len(v.reg.maker)
    /\ \A g \in 1..Len(w.reg.maker) : v.reg.maker[g] = w.reg.maker[g]
    /\ w.slot.vault # 0 => v.slot.vault = w.slot.vault
    /\ Clean(h, w.slot) => Clean(h, v.slot)

LEMMA AheadAgain ==
    ASSUME NEW w, NEW u, NEW v, NEW h, Good(w, h), Ahead(w, u, h), Ahead(u, v, h)
    PROVE  Ahead(w, v, h)
<1>1. Len(w.reg.maker) \in Nat /\ Len(u.reg.maker) \in Nat /\ Len(v.reg.maker) \in Nat
  BY LenProperties DEF Ahead, Good, Sound, RegRec
<1>2. /\ Len(w.reg.maker) <= Len(v.reg.maker)
      /\ \A g \in 1..Len(w.reg.maker) : v.reg.maker[g] = w.reg.maker[g]
  BY <1>1 DEF Ahead
<1> QED
  BY <1>2 DEF Ahead

LEMMA AheadSame ==
    ASSUME NEW w, NEW h, Good(w, h)
    PROVE  Ahead(w, w, h) /\ Ahead(w, Thrown(w), h)
<1>1. Len(w.reg.maker) \in Nat
  BY LenProperties DEF Good, Sound, RegRec
<1> QED
  BY <1>1, ThrownFacts DEF Ahead, Good

(* A vault that is not open leaves a call of the registry alone.           *)
LEMMA AheadCall ==
    ASSUME NEW w, NEW v, NEW h, Good(w, h), w.slot.vault = 0, Follows(w, v, info[h].slot)
    PROVE  Ahead(w, v, h)
<1>1. Len(w.reg.maker) \in Nat
  BY LenProperties DEF Good, Sound, RegRec
<1> QED
  BY <1>1 DEF Ahead, Good, Follows, VaultOK

(* The generations and the sessions before a world was entered.            *)
Bounds(h) ==
    /\ h \in Handles /\ info[h].slot \in Slots /\ cleared[h] \in Nat
    /\ cleared[h] <= Len(registry.maker) /\ Len(registry.maker) \in Nat
    /\ entries \subseteq [job: Jobs, gen: Generations]
    /\ \A j \in Jobs : jobs[j].handle = h => jobs[j].revision \in Nat /\ jobs[j].revision <= revision[h]
    /\ revision[h] = 0 => cleared[h] = 0

LEMMA OpenCall ==
    ASSUME NEW h, Bounds(h), NEW w, Good(w, h), w.slot.vault = 0, ~w.slot.clear, ~w.pending,
           w.reg.maker = registry.maker, NEW v \in Open(w, h)
    PROVE  Ahead(w, v, h) /\ (v.ok => v.slot.vault # 0)
<1> DEFINE s == info[h].slot
           g == w.reg.active[s]
           k == Retired(w, s)
           n == Len(w.reg.maker) + 1
           m == [k EXCEPT !.reg.active[s] = n, !.reg.maker = Append(@, h)]
           o == [m EXCEPT !.slot.vault = n, !.slot.fresh = FALSE]
           p == [w EXCEPT !.slot.vault = g]
<1>1. /\ w \in WorldRec /\ Sound(w.reg) /\ s \in Slots /\ h \in Handles
      /\ Len(w.reg.maker) \in Nat /\ Len(registry.maker) <= Len(w.reg.maker)
      /\ w.slot \in SlotSet /\ w.slot.session = h /\ h # 0
  BY LenProperties DEF Good, Sound, RegRec, Bounds, WorldRec, Handles
<1>2. \/ v = Thrown(w) \/ v = Thrown(k) \/ v = Thrown(m) \/ v = o
      \/ v = p /\ g # 0 /\ ~w.slot.fresh /\ LoginOf(g) = info[h].login
  BY DEF Open
<1>3. /\ k \in WorldRec /\ k.slot = w.slot /\ k.pending = w.pending
      /\ Sound(k.reg) /\ k.reg.maker = w.reg.maker
      /\ \A t \in Slots : k.reg.active[t] = IF t = s THEN 0 ELSE w.reg.active[t]
  BY <1>1, RetiredFacts
<1>4. Ahead(w, k, h)
  <2>1. Follows(w, k, s)
    BY <1>3 DEF Follows
  <2> QED
    BY <2>1, AheadCall
<1> HIDE DEF k
<1>5. m = Made(k, s, h)
  BY <1>3 DEF Made
<1> HIDE DEF m
<1>6. /\ m \in WorldRec /\ m.slot = w.slot /\ ~m.pending
      /\ Sound(m.reg) /\ Len(m.reg.maker) = n /\ m.reg.maker[n] = h
      /\ \A i \in 1..Len(w.reg.maker) : m.reg.maker[i] = w.reg.maker[i]
      /\ \A t \in Slots : t # s => m.reg.active[t] = w.reg.active[t]
      /\ m.reg.active[s] = n
  <2> DEFINE v1 == Made(k, s, h)
  <2>1. /\ v1 \in WorldRec /\ v1.slot = k.slot /\ v1.pending = k.pending
        /\ Sound(v1.reg) /\ Len(v1.reg.maker) = Len(k.reg.maker) + 1
        /\ v1.reg.maker[Len(k.reg.maker) + 1] = h
        /\ \A i \in 1..Len(k.reg.maker) : v1.reg.maker[i] = k.reg.maker[i]
        /\ \A t \in Slots : v1.reg.active[t] = IF t = s THEN Len(k.reg.maker) + 1
                                                       ELSE k.reg.active[t]
    BY <1>1, <1>3, MadeFacts, SMTT(30)
  <2> HIDE DEF v1
  <2>2. m = v1
    BY <1>5 DEF v1
  <2> QED
    BY <1>1, <1>3, <2>1, <2>2
<1>7. n \in Nat /\ n > Len(w.reg.maker) /\ n # 0
  BY <1>1
<1> HIDE DEF n
<1>8. Ahead(w, m, h)
  BY <1>1, <1>6, <1>7 DEF Ahead, Good, VaultOK
<1>9. /\ o \in WorldRec /\ o.reg = m.reg /\ o.pending = m.pending /\ o.slot.vault = n
      /\ o.slot.session = h /\ o.slot.clear = w.slot.clear /\ o.slot.archive = w.slot.archive
      /\ o.slot.recovery = w.slot.recovery
  BY <1>1, <1>6, <1>7 DEF WorldRec, SlotSet
<1>10. Uncleared(h, n)
  BY <1>1, <1>7 DEF Uncleared, Bounds, Generations
<1> HIDE DEF o
<1>11. Ahead(w, o, h)
  <2>1. Good(o, h)
    BY <1>1, <1>6, <1>7, <1>9 DEF Good, VaultOK
  <2>2. Clean(h, o.slot)
    BY <1>7, <1>9, <1>10 DEF Clean
  <2> QED
    BY <1>1, <1>6, <1>7, <1>9, <2>1, <2>2 DEF Ahead
<1>12. ASSUME v = p, g # 0, ~w.slot.fresh, LoginOf(g) = info[h].login PROVE Ahead(w, p, h)
  <2>1. g \in Nat /\ info[w.reg.maker[g]].login = info[h].login
    <3>1. w.reg.active \in [Slots -> Nat]
      BY <1>1 DEF Sound, RegRec
    <3> QED
      BY <1>1, <1>12, <3>1 DEF LoginOf
  <2>2. /\ p \in WorldRec /\ p.reg = w.reg /\ p.pending = w.pending /\ p.slot.vault = g
        /\ p.slot.session = h /\ p.slot.clear = w.slot.clear /\ p.slot.archive = w.slot.archive
        /\ p.slot.recovery = w.slot.recovery
    BY <1>1, <2>1, SMTT(30) DEF WorldRec, SlotSet
  <2> HIDE DEF p, g
  <2>3. revision[h] = 0 => Uncleared(h, g)
    <3> SUFFICES ASSUME revision[h] = 0 PROVE Uncleared(h, g)
      OBVIOUS
    <3>1. g > cleared[h]
      BY <1>12, <2>1 DEF Bounds
    <3>2. \A e \in entries : jobs[e.job].handle = h => jobs[e.job].revision = revision[h]
      BY DEF Bounds
    <3> QED
      BY <3>1, <3>2 DEF Uncleared
  <2>4. VaultOK(s, p.slot, p.reg, p.pending) /\ Good(p, h)
    BY <1>1, <1>12, <2>1, <2>2, ZenonT(30) DEF Good, VaultOK, g
  <2>5. Clean(h, w.slot) => Clean(h, p.slot)
    BY <1>12, <2>2, <2>3 DEF Clean
  <2> QED
    BY <1>1, <2>2, <2>4, <2>5, SMTT(30) DEF Ahead
<1>13. CASE v = Thrown(w) \/ v = Thrown(k) \/ v = Thrown(m)
  <2>1. Good(k, h) /\ Good(m, h)
    BY <1>4, <1>8 DEF Ahead
  <2>2. Ahead(k, Thrown(k), h) /\ Ahead(m, Thrown(m), h) /\ Ahead(w, Thrown(w), h)
    BY <2>1, AheadSame
  <2>3. Ahead(w, Thrown(k), h) /\ Ahead(w, Thrown(m), h)
    BY <1>4, <1>8, <2>2, AheadAgain
  <2>4. Ahead(w, v, h)
    BY <1>13, <2>2, <2>3
  <2> QED
    BY <1>3, <1>6, <1>1, <1>13, <2>4, ThrownFacts
<1> QED
  BY <1>2, <1>7, <1>9, <1>11, <1>12, <1>13, <1>1 DEF WorldRec, SlotSet

(* The clear that is to be done leaves an empty slot, or the intent.       *)
Emptied(w) == [w EXCEPT !.slot.archive = "none", !.slot.vault = 0]

LEMMA EmptiedFacts ==
    ASSUME NEW w \in WorldRec
    PROVE  LET x == Emptied(w) IN
           /\ x \in WorldRec /\ x.reg = w.reg /\ x.pending = w.pending /\ x.ok = w.ok
           /\ x.slot = [w.slot EXCEPT !.archive = "none", !.vault = 0]
           /\ x.slot.vault = 0 /\ x.slot.archive = "none" /\ x.slot.session = w.slot.session
           /\ x.slot.clear = w.slot.clear
  BY DEF Emptied, WorldRec, SlotSet

LEMMA EmptiedGood ==
    ASSUME NEW h, NEW w, Good(w, h), w.slot.clear
    PROVE  Ahead(w, Emptied(w), h) /\ Good(Emptied(w), h)
<1>1. Len(w.reg.maker) \in Nat /\ w \in WorldRec
  BY LenProperties DEF Good, Sound, RegRec
<1> DEFINE x == Emptied(w)
<1>2. /\ x \in WorldRec /\ x.reg = w.reg /\ x.pending = w.pending
      /\ x.slot.vault = 0 /\ x.slot.archive = "none" /\ x.slot.session = w.slot.session
      /\ x.slot.clear = w.slot.clear
  BY <1>1, EmptiedFacts
<1> HIDE DEF x
<1>3. Good(x, h)
  BY <1>2 DEF Good, VaultOK
<1>4. Ahead(w, x, h)
  BY <1>1, <1>2, <1>3 DEF Ahead, Clean, Good, VaultOK
<1> QED
  BY <1>3, <1>4 DEF x

LEMMA ClearedCall ==
    ASSUME NEW h, Bounds(h), NEW w \in WorldRec, w.slot.clear, Good(Emptied(w), h),
           NEW v \in Cleared(w, h)
    PROVE  /\ Ahead(Emptied(w), v, h) /\ v.reg.maker = w.reg.maker
           /\ v.ok => ~v.slot.clear
<1> DEFINE x == Emptied(w)
<1>1. /\ x \in WorldRec /\ Sound(x.reg) /\ x.slot.vault = 0 /\ x.slot.archive = "none"
      /\ h \in Handles /\ info[h].slot \in Slots /\ x.reg = w.reg
  BY EmptiedFacts DEF Good, Bounds
<1>2. PICK u \in Then(Registry(x), LAMBDA y : Logout(y, h)) :
         v = IF u.ok THEN [u EXCEPT !.slot.fresh = TRUE, !.slot.clear = FALSE,
                                    !.slot.recovery = FALSE]
                     ELSE u
  BY DEF Cleared, Emptied
<1> HIDE DEF x
<1>3. Follows(x, u, info[h].slot)
  BY <1>1, <1>2, LoggedOut
<1>4. Ahead(x, u, h) /\ u \in WorldRec /\ u.slot = x.slot /\ u.reg.maker = w.reg.maker
  BY <1>1, <1>3, AheadCall DEF Follows, x
<1>5. CASE ~u.ok
  BY <1>2, <1>4, <1>5 DEF x
<1>6. CASE u.ok
  <2>1. v = [u EXCEPT !.slot.fresh = TRUE, !.slot.clear = FALSE, !.slot.recovery = FALSE]
    BY <1>2, <1>6
  <2>2. /\ v \in WorldRec /\ v.reg = u.reg /\ v.pending = u.pending /\ ~v.slot.clear
        /\ v.slot.fresh /\ v.slot.vault = u.slot.vault /\ v.slot.session = u.slot.session
        /\ v.slot.archive = u.slot.archive
    BY <1>4, <2>1 DEF WorldRec, SlotSet
  <2>3. Good(v, h)
    BY <1>1, <1>4, <2>2 DEF Ahead, Good, VaultOK
  <2>4. Clean(h, v.slot)
    BY <1>1, <1>4, <2>2 DEF Clean
  <2>5. Ahead(x, v, h)
    BY <1>1, <1>4, <2>2, <2>3, <2>4 DEF Ahead
  <2> QED
    BY <1>4, <2>2, <2>5 DEF x
<1> QED
  BY <1>5, <1>6

LEMMA OpenedCall ==
    ASSUME NEW h, Bounds(h), NEW w, Good(w, h), ~w.slot.clear, w.reg.maker = registry.maker,
           NEW v \in Opened(w, h)
    PROVE  Ahead(w, v, h) /\ (v.ok => v.slot.vault # 0)
<1>1. CASE w.slot.vault # 0
  BY <1>1, AheadSame DEF Opened
<1>2. CASE w.slot.vault = 0
  <2>1. PICK u \in Registry(w) : v \in IF u.ok THEN Open(u, h) ELSE {u}
    BY <1>2 DEF Opened, Then
  <2>2. Follows(w, u, info[h].slot) /\ (u.ok => ~u.pending)
    BY RegistryCall DEF Good
  <2>3. Ahead(w, u, h) /\ u.slot = w.slot /\ u.reg.maker = w.reg.maker /\ Good(u, h)
    BY <1>2, <2>2, AheadCall DEF Follows, Ahead
  <2>4. CASE ~u.ok
    BY <2>1, <2>3, <2>4
  <2>5. CASE u.ok
    <3>1. Ahead(u, v, h) /\ (v.ok => v.slot.vault # 0)
      BY <1>2, <2>1, <2>2, <2>3, <2>5, OpenCall
    <3> QED
      BY <2>3, <3>1, AheadAgain
  <2> QED
    BY <2>4, <2>5
<1> QED
  BY <1>1, <1>2

(* The archive in an open vault is constructed, or recovered.              *)
Filed(w, archive, recovery) == [w EXCEPT !.slot.archive = archive, !.slot.recovery = recovery]

LEMMA ArchiveCall ==
    ASSUME NEW h, NEW w, Good(w, h), NEW archive \in {"none", "clean", "dirty"},
           NEW recovery \in BOOLEAN, archive = "dirty" => recovery
    PROVE  /\ Ahead(w, Filed(w, archive, recovery), h)
           /\ Filed(w, archive, recovery).slot.vault = w.slot.vault
<1> DEFINE v == Filed(w, archive, recovery)
<1>1. Len(w.reg.maker) \in Nat /\ w \in WorldRec
  BY LenProperties DEF Good, Sound, RegRec
<1>2. /\ v \in WorldRec /\ v.reg = w.reg /\ v.pending = w.pending
      /\ v.slot.vault = w.slot.vault /\ v.slot.session = w.slot.session
      /\ v.slot.clear = w.slot.clear /\ v.slot.fresh = w.slot.fresh
      /\ v.slot.archive = archive /\ v.slot.recovery = recovery
  BY <1>1 DEF WorldRec, SlotSet, Filed
<1> HIDE DEF v
<1>3. Good(v, h)
  BY <1>2 DEF Good, VaultOK
<1>4. Ahead(w, v, h)
  BY <1>1, <1>2, <1>3 DEF Ahead, Clean
<1> QED
  BY <1>2, <1>4 DEF v

LEMMA ConstructedCall ==
    ASSUME NEW h, NEW w, Good(w, h), NEW v \in Constructed(w)
    PROVE  Ahead(w, v, h) /\ v.slot.vault = w.slot.vault
<1> DEFINE f == Filed(w, "clean", w.slot.recovery)
<1>1. w \in WorldRec /\ w.slot.recovery \in BOOLEAN /\ w.slot \in SlotSet
  BY DEF Good, WorldRec, SlotSet
<1>2. v = w \/ v = Thrown(w) \/ v = [w EXCEPT !.slot.archive = "clean"]
  BY DEF Constructed
<1>3. [w EXCEPT !.slot.archive = "clean"] = f
  BY <1>1 DEF WorldRec, SlotSet, Filed
<1>4. Ahead(w, f, h) /\ f.slot.vault = w.slot.vault
  BY <1>1, ArchiveCall
<1> HIDE DEF f
<1> QED
  BY <1>1, <1>2, <1>3, <1>4, AheadSame, ThrownFacts

LEMMA RecoveredCall ==
    ASSUME NEW h, NEW w, Good(w, h), NEW v \in Recovered(w)
    PROVE  Ahead(w, v, h) /\ v.slot.vault = w.slot.vault
<1> DEFINE d == Filed(w, "dirty", TRUE)
           c == Filed(w, "clean", FALSE)
<1>1. w \in WorldRec /\ w.slot \in SlotSet
  BY DEF Good, WorldRec
<1>2. \/ v = w \/ v = Thrown(w) \/ v = [w EXCEPT !.slot.archive = "clean", !.slot.recovery = FALSE]
      \/ w.slot.recovery /\ v = Thrown([w EXCEPT !.slot.archive = "dirty"])
  BY DEF Recovered
<1>3. w.slot.recovery => [w EXCEPT !.slot.archive = "dirty"] = d
  BY <1>1 DEF WorldRec, SlotSet, Filed
<1>4. [w EXCEPT !.slot.archive = "clean", !.slot.recovery = FALSE] = c
  BY DEF Filed
<1>5. Ahead(w, c, h) /\ c.slot.vault = w.slot.vault /\ Ahead(w, d, h) /\ d.slot.vault = w.slot.vault
  BY ArchiveCall
<1> HIDE DEF c, d
<1>6. v = w \/ v = Thrown(w) \/ v = c \/ v = Thrown(d)
  BY <1>2, <1>3, <1>4
<1>7. Ahead(d, Thrown(d), h) /\ Thrown(d).slot = d.slot
  BY <1>5, AheadSame, ThrownFacts DEF Ahead, Good
<1> QED
  BY <1>1, <1>5, <1>6, <1>7, AheadSame, AheadAgain, ThrownFacts

(* store(handle) is called for the session its slot is attached to.        *)
LEMMA StoreCall ==
    ASSUME NEW h, Bounds(h), NEW w \in WorldRec, w.ok, w.slot.session = h,
           w.reg.maker = registry.maker,
           NEW x, x = (IF w.slot.clear THEN Emptied(w) ELSE w), Good(x, h),
           NEW v \in StoreOutcomes(h, w)
    PROVE  Ahead(x, v, h) /\ (v.ok => v.slot.vault # 0)
<1>1. v \in Then(Then(Then(Cleared(w, h), LAMBDA a : Opened(a, h)), Constructed), Recovered)
  BY DEF StoreOutcomes
<1>2. PICK c \in Then(Then(Cleared(w, h), LAMBDA a : Opened(a, h)), Constructed) :
         v \in IF c.ok THEN Recovered(c) ELSE {c}
  BY <1>1 DEF Then
<1>3. PICK b \in Then(Cleared(w, h), LAMBDA a : Opened(a, h)) :
         c \in IF b.ok THEN Constructed(b) ELSE {b}
  BY <1>2 DEF Then
<1>4. PICK a \in Cleared(w, h) : b \in IF a.ok THEN Opened(a, h) ELSE {a}
  BY <1>3 DEF Then
<1>5. Ahead(x, a, h) /\ a.reg.maker = w.reg.maker /\ (a.ok => ~a.slot.clear)
  <2>1. CASE w.slot.clear
    BY <1>4, <2>1, ClearedCall
  <2>2. CASE ~w.slot.clear
    <3>1. a = w /\ x = w
      BY <1>4, <2>2 DEF Cleared
    <3> QED
      BY <2>2, <3>1, AheadSame
  <2> QED
    BY <2>1, <2>2
<1>6. Ahead(a, b, h) /\ (b.ok => b.slot.vault # 0)
  <2>1. Good(a, h)
    BY <1>5 DEF Ahead
  <2>2. CASE ~a.ok
    BY <1>4, <2>1, <2>2, AheadSame
  <2>3. CASE a.ok
    BY <1>4, <1>5, <2>1, <2>3, OpenedCall
  <2> QED
    BY <2>2, <2>3
<1>7. Ahead(b, c, h) /\ (c.ok => c.slot.vault # 0)
  <2>1. Good(b, h)
    BY <1>6 DEF Ahead
  <2>2. CASE ~b.ok
    BY <1>3, <2>1, <2>2, AheadSame
  <2>3. CASE b.ok
    BY <1>3, <1>6, <2>1, <2>3, ConstructedCall
  <2> QED
    BY <2>2, <2>3
<1>8. Ahead(c, v, h) /\ (v.ok => v.slot.vault # 0)
  <2>1. Good(c, h)
    BY <1>7 DEF Ahead
  <2>2. CASE ~c.ok
    BY <1>2, <2>1, <2>2, AheadSame
  <2>3. CASE c.ok
    BY <1>2, <1>7, <2>1, <2>3, RecoveredCall
  <2> QED
    BY <2>2, <2>3
<1>9. Ahead(x, b, h)
  BY <1>5, <1>6, AheadAgain
<1>10. Ahead(x, c, h)
  BY <1>7, <1>9, AheadAgain
<1> QED
  BY <1>8, <1>10, AheadAgain

----------------------------------------------------------------------------
(* What the steps have in common *)

(* The generations there are stay as they were made.                       *)
GrownMakers ==
    /\ Len(registry.maker') \in Nat /\ Len(registry.maker) <= Len(registry.maker')
    /\ \A g \in Generations : registry.maker'[g] = registry.maker[g]

(* A step of the worker thread, or of the mailbox.                         *)
LEMMA UiKept ==
    ASSUME IInv, UNCHANGED <<uiVars, cleared>>
    PROVE  SessionsOK' /\ GateOK' /\ LiveInv'
  BY DEF IInv, SessionsOK, GateOK, LiveInv, uiVars, Handles

LEMMA Facts ==
    ASSUME IInv
    PROVE  /\ Len(info) \in Nat /\ Len(registry.maker) \in Nat /\ registry.maker \in Seq(Handles)
           /\ Len(jobs) \in Nat /\ Len(queue) \in Nat /\ Len(mailbox) \in Nat
           /\ \A h \in Handles : /\ h \in Nat \ {0} /\ info[h] \in Info /\ info[h].slot \in Slots
                                 /\ live[h] \in BOOLEAN /\ revision[h] \in Nat /\ cleared[h] \in Nat
           /\ \A j \in Jobs : jobs[j] \in JobRec /\ jobs[j].handle \in Handles
                              /\ jobs[j].revision \in Nat /\ j \in Nat \ {0}
           /\ \A i \in 1..Len(queue) :
                /\ queue[i] \in TaskRec /\ queue[i].id \in Nat
                /\ queue[i].kind \in {"attach", "detach"} => queue[i].id \in Handles
                /\ IsJob(queue[i]) => queue[i].id \in Jobs
                /\ IsJob(queue[i]) => (queue[i].kind = "clear" <=> jobs[queue[i].id].kind = "clear")
           /\ \A i \in 1..Len(mailbox) : mailbox[i].job \in Jobs
                                         /\ mailbox[i].gen \in 0..Len(registry.maker)
           /\ \A s \in Slots :
                /\ storage[s] \in SlotRec(Len(info), Len(registry.maker))
                /\ storage[s].session # 0 => storage[s].session \in Handles
                /\ storage[s].vault # 0 => storage[s].vault \in Generations
           /\ job \in 0..Len(jobs) /\ (job # 0 => job \in Jobs)
<1>1. SessionsOK /\ RegistryInv /\ QueueOK /\ JobsOK /\ MailOK /\ StorageOK /\ PhaseInv
  BY DEF IInv
<1>2. /\ Len(info) \in Nat /\ \A h \in Handles : info[h] \in Info
      /\ registry.maker \in Seq(Handles) /\ Len(registry.maker) \in Nat
  BY <1>1, SessionFacts
<1>3. \A h \in Handles : /\ h \in Nat \ {0} /\ info[h].slot \in Slots
                         /\ live[h] \in BOOLEAN /\ revision[h] \in Nat /\ cleared[h] \in Nat
  <2>1. \A h \in Handles : live[h] \in BOOLEAN
    BY <1>1 DEF SessionsOK
  <2>2. \A h \in Handles : revision[h] \in Nat /\ cleared[h] \in Nat
    BY <1>1 DEF SessionsOK
  <2>3. \A h \in Handles : info[h].slot \in Slots
    BY <1>2 DEF Info
  <2>4. \A h \in Handles : h \in Nat \ {0}
    BY <1>2 DEF Handles
  <2> QED
    BY <2>1, <2>2, <2>3, <2>4
<1>4. /\ Len(jobs) \in Nat /\ Len(queue) \in Nat /\ Len(mailbox) \in Nat
      /\ \A j \in Jobs : jobs[j] \in JobRec /\ jobs[j].handle \in Handles
                         /\ jobs[j].revision \in Nat
      /\ \A i \in 1..Len(queue) : queue[i] \in TaskRec /\ Meant(queue[i]) /\ queue[i].id \in Nat
      /\ \A i \in 1..Len(mailbox) : mailbox[i] \in [job: Jobs, gen: 0..Len(registry.maker)]
                                    /\ mailbox[i].job \in Jobs
  BY <1>1, QueueFacts
<1>5. \A j \in Jobs : j \in Nat \ {0}
  BY <1>4 DEF Jobs
<1>6. \A s \in Slots :
        /\ storage[s] \in SlotRec(Len(info), Len(registry.maker))
        /\ storage[s].session # 0 => storage[s].session \in Handles
        /\ storage[s].vault # 0 => storage[s].vault \in Generations
  BY <1>1, StorageFacts
<1>7. job \in 0..Len(jobs) /\ (job # 0 => job \in Jobs)
  BY <1>1, <1>4 DEF PhaseInv, Jobs
<1>8. \A i \in 1..Len(queue) :
        /\ queue[i].kind \in {"attach", "detach"} => queue[i].id \in Handles
        /\ IsJob(queue[i]) => queue[i].id \in Jobs
        /\ IsJob(queue[i]) => (queue[i].kind = "clear" <=> jobs[queue[i].id].kind = "clear")
  BY <1>4 DEF Meant, IsJob
<1> QED
  BY <1>2, <1>3, <1>4, <1>5, <1>6, <1>7, <1>8

LEMMA HandleFact ==
    ASSUME IInv, NEW h \in Handles
    PROVE  /\ h \in Nat \ {0} /\ h # 0 /\ info[h] \in Info /\ info[h].slot \in Slots
           /\ live[h] \in BOOLEAN /\ revision[h] \in Nat /\ cleared[h] \in Nat
  BY Facts

LEMMA JobFact ==
    ASSUME IInv, NEW j \in Jobs
    PROVE  /\ jobs[j] \in JobRec /\ jobs[j].handle \in Handles
           /\ jobs[j].revision \in Nat /\ j \in Nat \ {0} /\ j # 0
  BY Facts

LEMMA TaskFact ==
    ASSUME IInv, NEW i \in 1..Len(queue)
    PROVE  /\ queue[i] \in TaskRec /\ queue[i].id \in Nat
           /\ queue[i].kind \in {"attach", "detach"} => queue[i].id \in Handles
           /\ IsJob(queue[i]) => queue[i].id \in Jobs
           /\ IsJob(queue[i]) => (queue[i].kind = "clear" <=> jobs[queue[i].id].kind = "clear")
  BY Facts

LEMMA MailFact ==
    ASSUME IInv, NEW i \in 1..Len(mailbox)
    PROVE  mailbox[i].job \in Jobs /\ mailbox[i].gen \in 0..Len(registry.maker)
  BY Facts

LEMMA SlotFact ==
    ASSUME IInv, NEW s \in Slots
    PROVE  /\ storage[s] \in SlotRec(Len(info), Len(registry.maker))
           /\ storage[s].session # 0 => storage[s].session \in Handles
           /\ storage[s].vault # 0 => storage[s].vault \in Generations
           /\ VaultOK(s, storage[s], registry, resetPending)
  BY Facts DEF IInv, StoreInv

LEMMA LenFact ==
    ASSUME IInv
    PROVE  /\ Len(info) \in Nat /\ Len(registry.maker) \in Nat /\ Len(jobs) \in Nat
           /\ Len(queue) \in Nat /\ Len(mailbox) \in Nat
           /\ job \in 0..Len(jobs) /\ (job # 0 => job \in Jobs)
  BY Facts

(* Whose tasks the first one is, and what it leaves of the session's slot. *)
KeepsSessions ==
    /\ \A h \in Handles :
         live[h] /\ (storage[info[h].slot].session = h \/ (Head(queue).kind = "attach" /\ Head(queue).id = h))
            => storage'[info[h].slot].session = h
    /\ \A s \in Slots : storage'[s].session # 0 =>
         \/ storage'[s].session = storage[s].session
         \/ Head(queue).kind = "attach" /\ Head(queue).id = storage'[s].session

(* The worker takes a task: it runs a job, or something that is not one.   *)
LEMMA TakeQueue ==
    ASSUME IInv, queue # <<>>, queue' = Tail(queue), SameJobs, phase = "wait",
           UNCHANGED <<uiVars, cleared, mailbox>>,
           job' = job \/ (IsJob(Head(queue)) /\ job' = Head(queue).id)
    PROVE  QueueOK' /\ OrderInv' /\ FifoInv' /\ RevisionInv'
<1>1. /\ Head(queue) = queue[1] /\ 1 \in 1..Len(queue) /\ queue' \in Seq(TaskRec)
      /\ Len(queue') \in Nat /\ Len(queue) = Len(queue') + 1
      /\ \A i \in 1..Len(queue') : i + 1 \in 2..Len(queue) /\ queue'[i] = queue[i + 1]
  BY TakenFacts
<1>2. Handles' = Handles /\ Jobs' = Jobs /\ info' = info /\ live' = live /\ revision' = revision
  BY DEF uiVars, SameJobs, Handles, Jobs
<1>3. job = 0
  BY DEF IInv, PhaseInv
<1>4. \A i \in 1..Len(queue) : queue[i].id \in Nat /\ (IsJob(queue[i]) => queue[i].id \in Jobs)
  BY Facts
<1>5. QueueOK'
  <2>1. \A i \in 1..Len(queue') : i + 1 \in 1..Len(queue) /\ queue'[i] = queue[i + 1]
    BY <1>1
  <2>2. \A i \in 1..Len(queue) : Meant(queue[i])
    BY DEF IInv, QueueOK
  <2>3. \A i \in 1..Len(queue') : LET t == queue'[i] IN
          /\ t.kind \in {"attach", "detach"} => t.id \in Handles
          /\ t.kind \in {"clear", "job"} => t.id \in Jobs /\ (t.kind = "clear" <=> jobs[t.id].kind = "clear")
    BY <2>1, <2>2 DEF Meant
  <2>4. \A j \in Jobs : jobs'[j].kind = jobs[j].kind
    BY DEF SameJobs
  <2>5. \A i \in 1..Len(queue') : LET t == queue'[i] IN
          t.kind \in {"clear", "job"} => (t.kind = "clear" <=> jobs'[t.id].kind = "clear")
    BY <2>3, <2>4
  <2> QED
    BY <1>1, <1>2, <2>3, <2>5 DEF QueueOK, Meant
<1>6. OrderInv'
  <2>1. \A i \in 1..Len(queue') : i + 1 \in 1..Len(queue) /\ queue'[i] = queue[i + 1]
    BY <1>1
  <2> QED
    BY <1>1, <1>2, <2>1 DEF IInv, OrderInv, Ends
<1>7. FifoInv'
  <2>1. FifoInv
    BY DEF IInv
  <2>2. \A i \in 1..Len(queue') : i + 1 \in 1..Len(queue) /\ queue'[i] = queue[i + 1]
    BY <1>1
  <2>3. \A i, k \in 1..Len(queue') :
           i < k /\ IsJob(queue'[i]) /\ IsJob(queue'[k]) => queue'[i].id < queue'[k].id
    BY <1>1, <2>1, <2>2 DEF FifoInv
  <2>4. \A k \in 1..Len(queue') : IsJob(queue'[k]) =>
           job' < queue'[k].id /\ \A i \in 1..Len(mailbox) : mailbox[i].job < queue'[k].id
    BY <1>1, <1>3, <2>1, <2>2 DEF FifoInv
  <2>5. \A i \in 1..Len(mailbox) : job' # 0 => mailbox[i].job < job'
    BY <1>1, <1>3, <2>1 DEF FifoInv
  <2> QED
    BY <2>3, <2>4, <2>5 DEF FifoInv, IsJob
<1>8. RevisionInv'
  BY <1>2 DEF IInv, RevisionInv, SameJobs
<1> QED
  BY <1>5, <1>6, <1>7, <1>8

LEMMA TakeSlots ==
    ASSUME IInv, queue # <<>>, queue' = Tail(queue), SameJobs, UNCHANGED uiVars, KeepsSessions
    PROVE  HoldInv' /\ HomeInv'
<1>1. /\ Head(queue) = queue[1] /\ 1 \in 1..Len(queue)
      /\ Len(queue') \in Nat /\ Len(queue) = Len(queue') + 1
      /\ \A i \in 1..Len(queue') : i + 1 \in 2..Len(queue) /\ queue'[i] = queue[i + 1]
      /\ \A i \in 2..Len(queue) : i - 1 \in 1..Len(queue') /\ queue'[i - 1] = queue[i]
  BY TakenFacts
<1>2. Handles' = Handles /\ Jobs' = Jobs /\ info' = info /\ live' = live
  BY DEF uiVars, SameJobs, Handles, Jobs
<1>3. HoldInv'
  <2>1. ASSUME NEW s \in Slots, storage'[s].session # 0, live[storage'[s].session],
               NEW i \in 1..Len(queue')
        PROVE  ~Ends(queue'[i], storage'[s].session)
    <3>1. i + 1 \in 1..Len(queue) /\ 1 < i + 1 /\ queue'[i] = queue[i + 1]
      BY <1>1
    <3>2. CASE storage'[s].session = storage[s].session
      BY <2>1, <3>1, <3>2 DEF IInv, HoldInv
    <3>3. CASE Head(queue).kind = "attach" /\ Head(queue).id = storage'[s].session
      BY <1>1, <2>1, <3>1, <3>3 DEF IInv, OrderInv
    <3> QED
      BY <2>1, <3>2, <3>3 DEF KeepsSessions
  <2>2. \A s \in Slots : storage'[s].session # 0 /\ live'[storage'[s].session] =>
           \A i \in 1..Len(queue') : ~Ends(queue'[i], storage'[s].session)
    BY <1>2, <2>1
  <2>3. \A s \in Slots : \A i \in 1..Len(queue') :
           Ends(queue[i], storage[s].session)' => Ends(queue'[i], storage'[s].session)
    BY <1>2 DEF Ends
  <2> QED
    BY <2>2, <2>3 DEF HoldInv
<1>4. ASSUME NEW h \in Handles, live[h], NEW k \in 1..(Len(queue') + 1),
             AttachedIn(storage, queue, h, k + 1)
      PROVE  AttachedIn(storage', queue', h, k)
  <2>1. CASE storage[info[h].slot].session = h
    BY <1>2, <1>4, <2>1 DEF KeepsSessions, AttachedIn
  <2>2. CASE \E i \in 1..Len(queue) : i < k + 1 /\ queue[i].kind = "attach" /\ queue[i].id = h
    <3>1. PICK i \in 1..Len(queue) : i < k + 1 /\ queue[i].kind = "attach" /\ queue[i].id = h
      BY <2>2
    <3>2. CASE i = 1
      BY <1>1, <1>2, <1>4, <3>1, <3>2 DEF KeepsSessions, AttachedIn
    <3>3. CASE i # 1
      <4>1. i \in 2..Len(queue) /\ i - 1 < k /\ queue'[i - 1] = queue[i] /\ i - 1 \in 1..Len(queue')
        BY <1>1, <3>1, <3>3
      <4> QED
        BY <3>1, <4>1 DEF AttachedIn
    <3> QED
      BY <3>2, <3>3
  <2> QED
    BY <1>4, <2>1, <2>2 DEF AttachedIn
<1>5. ASSUME NEW h \in Handles, live[h] PROVE AttachedIn(storage', queue', h, Len(queue') + 1)
  <2>1. AttachedIn(storage, queue, h, Len(queue) + 1)
    BY <1>5 DEF IInv, HomeInv
  <2> DEFINE k == Len(queue') + 1
  <2>2. k \in 1..(Len(queue') + 1) /\ Len(queue) + 1 = k + 1
    BY <1>1
  <2>3. AttachedIn(storage, queue, h, k + 1)
    BY <2>1, <2>2, Zenon
  <2> HIDE DEF k
  <2>4. AttachedIn(storage', queue', h, k)
    BY <1>4, <1>5, <2>2, <2>3
  <2> QED
    BY <2>4 DEF k
<1>6. ASSUME NEW k \in 1..Len(queue'), IsJob(queue'[k]), live[jobs[queue'[k].id].handle]
      PROVE  AttachedIn(storage', queue', jobs[queue'[k].id].handle, k)
  <2> DEFINE h == jobs[queue'[k].id].handle
  <2>1. k + 1 \in 1..Len(queue) /\ queue'[k] = queue[k + 1] /\ k \in 1..(Len(queue') + 1)
    BY <1>1
  <2>2. h \in Handles /\ queue'[k].id \in Jobs
    BY <1>6, <2>1, Facts
  <2>3. \A m \in 1..Len(queue) : IsJob(queue[m]) /\ live[jobs[queue[m].id].handle]
                                   => AttachedIn(storage, queue, jobs[queue[m].id].handle, m)
    BY DEF IInv, HomeInv
  <2>4. AttachedIn(storage, queue, h, k + 1)
    BY <1>6, <2>1, <2>3
  <2> QED
    BY <1>4, <1>6, <2>1, <2>2, <2>4
<1>7. HomeInv'
  <2>1. \A k \in 1..Len(queue') : IsJob(queue'[k]) => queue'[k].id \in Jobs
    BY <1>1, Facts
  <2>2. \A k \in 1..Len(queue') : IsJob(queue'[k]) =>
           jobs'[queue'[k].id].handle = jobs[queue'[k].id].handle
    BY <2>1 DEF SameJobs
  <2>3. \A h \in Handles' : live'[h] => AttachedIn(storage, queue, h, Len(queue) + 1)'
    BY <1>2, <1>5 DEF AttachedIn
  <2>4. \A k \in 1..Len(queue') : IsJob(queue'[k]) /\ live'[jobs'[queue'[k].id].handle]
           => AttachedIn(storage', queue', jobs'[queue'[k].id].handle, k)
    BY <1>2, <1>6, <2>2
  <2>5. \A k \in 1..Len(queue') : IsJob(queue[k])' /\ live'[jobs'[queue'[k].id].handle]
           => AttachedIn(storage, queue, jobs[queue[k].id].handle, k)'
    BY <1>2, <2>4 DEF AttachedIn, IsJob
  <2> QED
    BY <2>3, <2>5 DEF HomeInv
<1> QED
  BY <1>3, <1>7

(* ClearDue, in the next state.                                            *)
DueNext(h) == \E k \in 1..Len(queue') :
    /\ queue'[k].kind = "clear" /\ jobs'[queue'[k].id].handle = h
    /\ jobs'[queue'[k].id].revision = revision'[h]

(* The clear that is taken was the last one of its session.                *)
LEMMA TakeRevised ==
    ASSUME IInv, queue # <<>>, queue' = Tail(queue), SameJobs, phase = "wait",
           UNCHANGED <<uiVars, cleared>>, GrownMakers,
           job' = job \/ (IsJob(Head(queue)) /\ job' = Head(queue).id)
    PROVE  /\ RevisedInv'
           /\ \A h \in Handles : ClearDue(h) =>
                \/ DueNext(h)
                \/ /\ Head(queue).kind = "clear" /\ jobs[Head(queue).id].handle = h
                   /\ jobs[Head(queue).id].revision = revision[h]
<1>1. /\ Head(queue) = queue[1] /\ 1 \in 1..Len(queue)
      /\ Len(queue') \in Nat /\ Len(queue) = Len(queue') + 1
      /\ \A i \in 1..Len(queue') : i + 1 \in 2..Len(queue) /\ queue'[i] = queue[i + 1]
      /\ \A i \in 2..Len(queue) : i - 1 \in 1..Len(queue') /\ queue'[i - 1] = queue[i]
  BY TakenFacts
<1>2. /\ Handles' = Handles /\ Jobs' = Jobs /\ info' = info /\ live' = live /\ revision' = revision
      /\ cleared' = cleared
  BY DEF uiVars, SameJobs, Handles, Jobs
<1>3. job = 0 /\ Len(registry.maker) \in Nat /\ Len(registry.maker') \in Nat
      /\ Len(registry.maker) <= Len(registry.maker')
  BY Facts DEF IInv, PhaseInv, GrownMakers
<1>4. \A i \in 1..Len(queue) : IsJob(queue[i]) => queue[i].id \in Jobs
  BY Facts
<1> DEFINE Last(h) == /\ Head(queue).kind = "clear" /\ jobs[Head(queue).id].handle = h
                      /\ jobs[Head(queue).id].revision = revision[h]
<1>5. ASSUME NEW h \in Handles, ClearDue(h) PROVE DueNext(h) \/ Last(h)
  <2>1. PICK k \in 1..Len(queue) : /\ queue[k].kind = "clear" /\ jobs[queue[k].id].handle = h
                                   /\ jobs[queue[k].id].revision = revision[h]
    BY <1>5 DEF ClearDue
  <2>2. CASE k = 1
    BY <1>1, <2>1, <2>2
  <2>3. CASE k # 1
    <3>1. k \in 2..Len(queue) /\ k - 1 \in 1..Len(queue') /\ queue'[k - 1] = queue[k]
      BY <1>1, <2>3
    <3>2. queue[k].id \in Jobs
      BY <1>4, <2>1 DEF IsJob
    <3> QED
      BY <1>2, <2>1, <3>1, <3>2 DEF DueNext, SameJobs
  <2> QED
    BY <2>2, <2>3
<1>6. ASSUME NEW j \in Jobs, live[jobs[j].handle], Unsettled(j)',
             jobs[j].revision < revision[jobs[j].handle]
      PROVE  DueNext(jobs[j].handle)
  <2> DEFINE h == jobs[j].handle
  <2>1. h \in Handles /\ j \in Nat \ {0} /\ jobs[j].revision \in Nat /\ revision[h] \in Nat
    BY Facts
  <2>2. \/ IsJob(Head(queue)) /\ j = Head(queue).id
        \/ \E k \in 2..Len(queue) : IsJob(queue[k]) /\ queue[k].id = j
    BY <1>1, <1>3, <1>6, <2>1 DEF Unsettled, IsJob
  <2>3. Unsettled(j)
    BY <1>1, <2>2 DEF Unsettled
  <2>4. ClearDue(h)
    BY <1>6, <2>3 DEF IInv, RevisedInv
  <2>5. ASSUME Last(h) PROVE FALSE
    <3>1. Head(queue).id \in Jobs /\ IsJob(queue[1]) /\ jobs[Head(queue).id].kind = "clear"
      BY <1>1, <2>5, Facts DEF IsJob
    <3>2. CASE j = Head(queue).id
      BY <1>6, <2>1, <2>5, <3>2
    <3>3. CASE \E k \in 2..Len(queue) : IsJob(queue[k]) /\ queue[k].id = j
      <4>1. Head(queue).id < j
        BY <1>1, <3>1, <3>3 DEF IInv, FifoInv
      <4>2. jobs[Head(queue).id].revision <= jobs[j].revision
        BY <2>5, <3>1, <4>1 DEF IInv, RevisionInv
      <4> QED
        BY <1>6, <2>1, <2>5, <4>2
    <3> QED
      BY <2>2, <3>2, <3>3
  <2> QED
    BY <1>5, <2>1, <2>4, <2>5
<1>7. ASSUME NEW k \in 1..Len(queue'), queue'[k].kind = "attach", live[queue'[k].id],
             revision[queue'[k].id] # 0
      PROVE  DueNext(queue'[k].id)
  <2> DEFINE h == queue'[k].id
  <2>1. k + 1 \in 1..Len(queue) /\ 1 < k + 1 /\ queue'[k] = queue[k + 1]
    BY <1>1
  <2>2. h \in Handles
    BY <1>7, <2>1, Facts
  <2>3. ClearDue(h)
    BY <1>7, <2>1 DEF IInv, RevisedInv
  <2>4. ASSUME Last(h) PROVE FALSE
    <3>1. Head(queue).id \in Jobs /\ IsJob(queue[1])
      BY <1>1, <2>4, Facts DEF IsJob
    <3>2. AttachedIn(storage, queue, h, 1)
      BY <1>1, <1>7, <2>4, <3>1 DEF IInv, HomeInv
    <3>3. storage[info[h].slot].session = h
      BY <3>2 DEF AttachedIn
    <3>4. info[h].slot \in Slots /\ h # 0
      BY <2>2, Facts
    <3>5. ~Ends(queue[k + 1], h)
      BY <1>7, <2>1, <3>3, <3>4 DEF IInv, HoldInv
    <3> QED
      BY <1>7, <2>1, <3>5 DEF Ends
  <2> QED
    BY <1>5, <2>2, <2>3, <2>4
<1>8. \A h \in Handles : /\ cleared[h] <= Len(registry.maker')
                         /\ revision[h] = 0 => cleared[h] = 0
  BY <1>3, Facts DEF IInv, RevisedInv
<1>9. RevisedInv'
  <2>1. \A j \in Jobs' : (live[jobs[j].handle] /\ Unsettled(j)
                           /\ jobs[j].revision < revision[jobs[j].handle])' => ClearDue(jobs[j].handle)'
    <3> SUFFICES ASSUME NEW j \in Jobs', (live[jobs[j].handle] /\ Unsettled(j)
                           /\ jobs[j].revision < revision[jobs[j].handle])'
                 PROVE  DueNext(jobs'[j].handle)
      BY DEF DueNext, ClearDue
    <3> QED
      BY <1>2, <1>6 DEF SameJobs
  <2>2. \A k \in 1..Len(queue') : queue'[k].kind = "attach" /\ live'[queue'[k].id]
           => revision'[queue'[k].id] = 0 \/ DueNext(queue'[k].id)
    BY <1>2, <1>7
  <2>3. \A k \in 1..Len(queue') : (queue[k].kind = "attach" /\ live[queue[k].id])'
           => (revision[queue[k].id] = 0 \/ ClearDue(queue[k].id))'
    BY <2>2 DEF ClearDue, DueNext
  <2> QED
    BY <1>2, <1>8, <2>1, <2>3 DEF RevisedInv
<1> QED
  BY <1>5, <1>9

(* What is outstanding after a task is taken.                              *)
LEMMA TakeQueued ==
    ASSUME IInv, queue # <<>>, queue' = Tail(queue), NEW j \in Jobs
    PROVE  Queued(j)' <=> Queued(j) /\ ~(Head(queue).kind = "job" /\ Head(queue).id = j)
<1>1. /\ Head(queue) = queue[1] /\ 1 \in 1..Len(queue)
      /\ Len(queue') \in Nat /\ Len(queue) = Len(queue') + 1
      /\ \A i \in 1..Len(queue') : i + 1 \in 2..Len(queue) /\ queue'[i] = queue[i + 1]
      /\ \A i \in 2..Len(queue) : i - 1 \in 1..Len(queue') /\ queue'[i - 1] = queue[i]
  BY TakenFacts
<1>2. Queued(j)' <=> \E i \in 2..Len(queue) : queue[i].kind = "job" /\ queue[i].id = j
  <2>1. Queued(j)' <=> \E i \in 1..Len(queue') : queue'[i].kind = "job" /\ queue'[i].id = j
    BY DEF Queued
  <2>2. ASSUME NEW i \in 1..Len(queue'), queue'[i].kind = "job", queue'[i].id = j
        PROVE  \E k \in 2..Len(queue) : queue[k].kind = "job" /\ queue[k].id = j
    BY <1>1, <2>2
  <2>3. ASSUME NEW i \in 2..Len(queue), queue[i].kind = "job", queue[i].id = j
        PROVE  \E k \in 1..Len(queue') : queue'[k].kind = "job" /\ queue'[k].id = j
    BY <1>1, <2>3
  <2> QED
    BY <2>1, <2>2, <2>3
<1>3. ASSUME NEW i \in 2..Len(queue), queue[i].kind = "job", queue[1].kind = "job"
      PROVE  queue[1].id < queue[i].id
  BY <1>1, <1>3 DEF IInv, FifoInv, IsJob
<1>4. \A i \in 1..Len(queue) : i = 1 \/ i \in 2..Len(queue)
  BY <1>1
<1>5. \A i \in 1..Len(queue) : queue[i].id \in Nat
  BY Facts
<1> QED
  BY <1>1, <1>2, <1>3, <1>4, <1>5 DEF Queued

LEMMA HoldingFinite ==
    ASSUME IInv, NEW k
    PROVE  IsFiniteSet(Holding(k)) /\ Cardinality(Holding(k)) \in Nat
<1>1. IsFiniteSet(1..Len(jobs)) /\ Holding(k) \subseteq 1..Len(jobs)
  BY FS_Interval, Facts DEF Holding, Jobs
<1> QED
  BY <1>1, FS_Subset, FS_CardinalityType

LEMMA HoldingKept ==
    ASSUME IInv, UNCHANGED count, \A k \in Kinds : Holding(k)' = Holding(k)
    PROVE  CountInv'
  BY DEF IInv, CountInv

(* A job that is done gives its unit back.                                 *)
LEMMA HoldingReleased ==
    ASSUME IInv, SameJobs, NEW j \in Jobs, jobs[j].kind \in Kinds, j = job \/ Queued(j), Release(j),
           \A i \in Jobs : (i = job \/ Queued(i))' <=> (i = job \/ Queued(i)) /\ i # j
    PROVE  CountInv'
<1> DEFINE c == jobs[j].kind
<1>1. \A k \in Kinds : Holding(k)' = Holding(k) \ {j}
  BY DEF Holding, SameJobs, Jobs
<1>2. j \in Holding(c) /\ \A k \in Kinds : k # c => Holding(k) \ {j} = Holding(k)
  BY DEF Holding
<1>3. Cardinality(Holding(c) \ {j}) = Cardinality(Holding(c)) - 1
      /\ Cardinality(Holding(c)) \in Nat /\ Cardinality(Holding(c) \ {j}) \in Nat
  BY <1>2, HoldingFinite, FS_RemoveElement, FS_CardinalityType
<1>4. /\ count \in [Kinds -> Nat] /\ \A k \in Kinds : count[k] = Cardinality(Holding(k))
      /\ count' = [count EXCEPT ![c] = @ - 1]
  BY DEF IInv, CountInv, Release
<1>5. \A k \in Kinds : count'[k] = Cardinality(Holding(k) \ {j}) /\ count'[k] \in Nat
  BY <1>2, <1>3, <1>4
<1>6. count' \in [Kinds -> Nat]
  BY <1>4, <1>5
<1> QED
  BY <1>1, <1>5, <1>6 DEF CountInv

(* What every step of the worker thread owes: the slots stay records, and  *)
(* an open vault stays the one in force.                                   *)
SlotsHonest ==
    /\ storage' \in [Slots -> SlotRec(Len(info), Len(registry.maker'))]
    /\ resetPending' \in BOOLEAN /\ Sound(registry') /\ GrownMakers
    /\ \A s \in Slots : VaultOK(s, storage'[s], registry', resetPending')

LEMMA WorkerKept ==
    ASSUME IInv, UNCHANGED <<uiVars, cleared>>, SlotsHonest
    PROVE  SessionsOK' /\ GateOK' /\ LiveInv' /\ StorageOK' /\ RegistryInv' /\ StoreInv'
<1>1. info' = info
  BY DEF uiVars
<1>2. SessionsOK' /\ GateOK' /\ LiveInv'
  BY UiKept
<1>3. StorageOK'
  BY <1>1 DEF SlotsHonest, StorageOK, SlotRec
<1>4. RegistryInv'
  BY <1>1 DEF SlotsHonest, RegistryInv, Sound, RegRec, Handles
<1>5. StoreInv'
  BY <1>1 DEF SlotsHonest, StoreInv, VaultOK
<1> QED
  BY <1>2, <1>3, <1>4, <1>5

LEMMA EntriesKept ==
    ASSUME IInv, UNCHANGED <<info, entries, discarded>>, SameJobs, GrownMakers
    PROVE  /\ CaptureInSession' /\ entries' \subseteq [job: Jobs', gen: Generations']
           /\ discarded' \in [Slots -> 0..Len(registry.maker')]
<1>1. /\ entries \subseteq [job: Jobs, gen: Generations]
      /\ discarded \in [Slots -> 0..Len(registry.maker)] /\ Len(registry.maker) \in Nat
  BY Facts DEF IInv, MailOK
<1>2. Jobs' = Jobs /\ Generations \subseteq Generations'
  BY <1>1 DEF SameJobs, Jobs, GrownMakers, Generations
<1>3. \A e \in entries : e.job \in Jobs /\ e.gen \in Generations
  BY <1>1
<1>4. CaptureInSession'
  BY <1>3 DEF IInv, CaptureInSession, LoginOf, SameJobs, GrownMakers
<1>5. discarded \in [Slots -> 0..Len(registry.maker')]
  BY <1>1 DEF GrownMakers
<1>6. entries \subseteq [job: Jobs', gen: Generations']
  BY <1>1, <1>2
<1> QED
  BY <1>4, <1>5, <1>6

LEMMA MailKept ==
    ASSUME IInv, UNCHANGED <<info, entries, discarded, mailbox>>, SameJobs, GrownMakers
    PROVE  MailOK' /\ CaptureInSession'
<1>1. mailbox \in Seq([job: Jobs, gen: 0..Len(registry.maker)]) /\ Len(registry.maker) \in Nat
      /\ Len(mailbox) \in Nat
  BY Facts DEF IInv, MailOK
<1>2. [job: Jobs, gen: 0..Len(registry.maker)] \subseteq [job: Jobs, gen: 0..Len(registry.maker')]
  BY <1>1 DEF GrownMakers
<1>3. mailbox \in Seq([job: Jobs, gen: 0..Len(registry.maker')])
  BY <1>1, <1>2, SeqMonotonic
<1>4. Jobs' = Jobs
  BY DEF SameJobs, Jobs
<1>5. mailbox' \in Seq([job: Jobs', gen: 0..Len(registry.maker')])
  BY <1>3, <1>4
<1> QED
  BY <1>5, EntriesKept DEF MailOK

(* What a session has not cleared stays so.                                *)
LEMMA CleanKept ==
    ASSUME IInv, UNCHANGED <<uiVars, cleared, entries>>, SameJobs,
           \A s \in Slots : storage'[s].session # 0 /\ live[storage'[s].session]
                               /\ ~DueNext(storage'[s].session)
                            => Clean(storage'[s].session, storage'[s])
    PROVE  CleanInv'
<1>1. \A e \in entries : e.job \in Jobs
  BY DEF IInv, MailOK
<1>2. \A h, g : Uncleared(h, g)' <=> Uncleared(h, g)
  BY <1>1 DEF Uncleared, SameJobs, uiVars
<1> QED
  BY <1>2 DEF CleanInv, Clean, Uncleared, ClearDue, DueNext, uiVars, SameJobs

(* A reply that would be shown now: its session still has what was read.   *)
LEMMA CurrentMail ==
    ASSUME IInv, NEW i \in 1..Len(mailbox), mailbox[i].gen # 0, IsCurrent(mailbox[i].job)
    PROVE  LET h == jobs[mailbox[i].job].handle
               s == info[h].slot IN
           /\ mailbox[i].job \in Jobs /\ h \in Handles /\ s \in Slots /\ live[h] /\ h # 0
           /\ storage[s].session = h /\ storage[s].vault = mailbox[i].gen
<1> DEFINE j == mailbox[i].job
           h == jobs[j].handle
<1>1. j \in Jobs
  BY MailFact
<1>2. h \in Handles
  BY <1>1, JobFact
<1>3. info[h].slot \in Slots /\ h # 0
  BY <1>2, HandleFact
<1>4. live[h]
  BY DEF IsCurrent, Current
<1>5. Held(j, mailbox[i].gen)
  BY DEF IInv, HeldInv
<1> QED
  BY <1>1, <1>2, <1>3, <1>4, <1>5 DEF Held

MailStays ==
    \A i \in 1..Len(mailbox) : mailbox[i].gen # 0 /\ IsCurrent(mailbox[i].job) =>
        LET s == info[jobs[mailbox[i].job].handle].slot IN
        storage'[s].session = storage[s].session /\ storage'[s].vault = storage[s].vault

MailHonest ==
    \A i \in 1..Len(mailbox) :
        mailbox[i].gen # 0 /\ IsCurrent(mailbox[i].job) => Held(mailbox[i].job, mailbox[i].gen)

LEMMA MailHeld ==
    ASSUME IInv, UNCHANGED <<uiVars, mailbox>>, SameJobs, MailStays
    PROVE  MailHonest'
<1>1. ASSUME NEW i \in 1..Len(mailbox), mailbox[i].gen # 0, IsCurrent(mailbox[i].job)'
      PROVE  Held(mailbox[i].job, mailbox[i].gen)'
  <2>1. mailbox[i].job \in Jobs
    BY MailFact
  <2> DEFINE j == mailbox[i].job
  <2>2. /\ jobs'[j].handle = jobs[j].handle /\ jobs'[j].revision = jobs[j].revision
        /\ UNCHANGED <<info, live, revision, gate>> /\ mailbox' = mailbox
    BY <2>1 DEF SameJobs, uiVars
  <2>3. IsCurrent(j)
    BY <1>1, <2>2, Zenon DEF IsCurrent, Current
  <2> DEFINE h == jobs[j].handle
             s == info[h].slot
  <2>4. storage[s].session = h /\ storage[s].vault = mailbox[i].gen
    BY <1>1, <2>3, CurrentMail, Zenon
  <2>5. storage'[s].session = h /\ storage'[s].vault = mailbox[i].gen
    BY <1>1, <2>3, <2>4, Zenon DEF MailStays
  <2> QED
    BY <2>2, <2>5 DEF Held
<1> QED
  BY <1>1 DEF MailHonest

----------------------------------------------------------------------------
(* The worker thread, task by task *)

(* A session whose slot the task ends is not live.                         *)
LEMMA HeadEnds ==
    ASSUME IInv, queue # <<>>, NEW s \in Slots, storage[s].session # 0,
           Ends(Head(queue), storage[s].session)
    PROVE  ~live[storage[s].session]
<1>1. Head(queue) = queue[1] /\ 1 \in 1..Len(queue)
  BY Facts, HeadTailProperties, EmptySeq DEF IInv, QueueOK
<1> QED
  BY <1>1 DEF IInv, HoldInv

LEMMA AttachTaskStep == ASSUME IInv, AttachTask PROVE IInv'
<1> DEFINE h == Head(queue).id
           s == info[h].slot
           o == [Closed EXCEPT !.session = h, !.fresh = info[h].fresh]
<1>1. /\ queue # <<>> /\ queue' = Tail(queue) /\ phase = "wait" /\ Head(queue).kind = "attach"
      /\ storage' = [storage EXCEPT ![s] = o]
      /\ UNCHANGED <<uiVars, count, phase, job, result, resetPending, registry, mailbox, jobs, ghosts>>
  BY DEF AttachTask, Take
<1>2. /\ info' = info /\ live' = live /\ UNCHANGED <<cleared, discarded, entries>>
      /\ JobsOK' /\ SameJobs /\ GrownMakers
  BY <1>1, KeptJobs, Facts DEF uiVars, ghosts, GrownMakers, IInv
<1>3. /\ Head(queue) = queue[1] /\ 1 \in 1..Len(queue)
      /\ h \in Handles /\ info[h] \in Info /\ s \in Slots /\ h # 0 /\ h \in 1..Len(info)
      /\ Len(info) \in Nat
  BY <1>1, TakenFacts, Facts DEF Handles
<1>4. /\ o \in SlotRec(Len(info), Len(registry.maker))
      /\ o.session = h /\ o.vault = 0 /\ o.archive = "none" /\ o.fresh = info[h].fresh
  <2>1. /\ Closed \in SlotRec(Len(info), Len(registry.maker))
        /\ Closed.vault = 0 /\ Closed.archive = "none"
    BY <1>3, Facts DEF Closed, SlotRec
  <2>2. info[h].fresh \in BOOLEAN /\ h \in 0..Len(info)
    BY <1>3 DEF Info
  <2> QED
    BY <2>1, <2>2 DEF SlotRec
<1> HIDE DEF o
<1>5. storage \in [Slots -> SlotRec(Len(info), Len(registry.maker))]
      /\ \A t \in Slots : storage'[t] = IF t = s THEN o ELSE storage[t]
  BY <1>1 DEF IInv, StorageOK
<1>6. storage[s].session # 0 => ~live[storage[s].session]
  <2> SUFFICES ASSUME storage[s].session # 0 PROVE Ends(Head(queue), storage[s].session)
    BY <1>1, <1>3, HeadEnds
  <2>1. info[storage[s].session].slot = s
    BY <1>3 DEF IInv, StoreInv, VaultOK
  <2> QED
    BY <1>1, <2>1 DEF Ends
<1>7. KeepsSessions
  BY <1>1, <1>3, <1>4, <1>5, <1>6, Facts DEF KeepsSessions
<1>8. SlotsHonest
  <2>1. \A t \in Slots : VaultOK(t, storage[t], registry, resetPending)
    BY DEF IInv, StoreInv
  <2>2. VaultOK(s, o, registry, resetPending)
    BY <1>4 DEF VaultOK
  <2>3. \A t \in Slots : VaultOK(t, storage'[t], registry, resetPending)
    BY <1>5, <2>1, <2>2
  <2>4. storage' \in [Slots -> SlotRec(Len(info), Len(registry.maker))]
    BY <1>1, <1>3, <1>4, <1>5
  <2> QED
    BY <1>1, <1>2, <2>3, <2>4 DEF SlotsHonest, IInv, StorageOK, RegistryInv
<1>9. /\ QueueOK' /\ OrderInv' /\ FifoInv' /\ RevisionInv' /\ HoldInv' /\ HomeInv' /\ RevisedInv'
      /\ \A x \in Handles : ClearDue(x) => DueNext(x)
  BY <1>1, <1>2, <1>7, TakeQueue, TakeSlots, TakeRevised DEF IsJob
<1>10. SessionsOK' /\ GateOK' /\ LiveInv' /\ StorageOK' /\ RegistryInv' /\ StoreInv' /\ MailOK' /\ CaptureInSession'
  BY <1>1, <1>2, <1>8, WorkerKept, MailKept
<1>11. PhaseInv'
  BY <1>1, <1>2 DEF IInv, PhaseInv
<1>12. CleanInv'
  <2>1. \A t \in Slots : storage[t].session # 0 /\ live[storage[t].session]
            /\ ~DueNext(storage[t].session) => Clean(storage[t].session, storage[t])
    BY <1>9, Facts DEF IInv, CleanInv
  <2>2. live[h] /\ ~DueNext(h) => revision[h] = 0
    BY <1>1, <1>3, <1>9 DEF IInv, RevisedInv
  <2>3. live[h] /\ ~DueNext(h) => Clean(h, o)
    BY <1>4, <2>2 DEF Clean
  <2>4. \A t \in Slots : storage'[t].session # 0 /\ live[storage'[t].session]
            /\ ~DueNext(storage'[t].session) => Clean(storage'[t].session, storage'[t])
    BY <1>4, <1>5, <2>1, <2>3
  <2> QED
    BY <1>1, <1>2, <2>4, CleanKept
<1>13. HeldInv'
  <2>1. MailStays
    BY <1>5, <1>6, CurrentMail, Zenon DEF MailStays
  <2>2. MailHonest'
    BY <1>1, <1>2, <2>1, MailHeld
  <2> QED
    BY <1>1, <2>2, Zenon DEF HeldInv, MailHonest, IInv, PhaseInv
<1>14. CountInv'
  <2>1. \A j \in Jobs : Queued(j)' <=> Queued(j)
    BY <1>1, TakeQueued
  <2>2. \A k \in Kinds : Holding(k)' = Holding(k)
    BY <1>1, <1>2, <2>1 DEF Holding, Jobs
  <2> QED
    BY <1>1, <2>2, HoldingKept
<1> QED
  BY <1>2, <1>9, <1>10, <1>11, <1>12, <1>13, <1>14 DEF IInv

(* World v may become what the worker owns of slot s.                      *)
Honest(v, s) ==
    /\ v \in WorldRec /\ Sound(v.reg) /\ VaultOK(s, v.slot, v.reg, v.pending)
    /\ Len(registry.maker) <= Len(v.reg.maker)
    /\ \A g \in Generations : v.reg.maker[g] = registry.maker[g]
    /\ ~resetPending => ~v.pending /\ \A t \in Slots \ {s} : v.reg.active[t] = registry.active[t]

LEMMA WorldFacts ==
    ASSUME IInv, NEW o \in SlotSet
    PROVE  /\ World(o) \in WorldRec /\ Sound(World(o).reg) /\ World(o).slot = o /\ World(o).ok
           /\ World(o).pending = resetPending /\ World(o).reg = registry
<1>1. resetPending \in BOOLEAN /\ Sound(registry) /\ registry \in RegRec
  BY DEF IInv, StorageOK, RegistryInv, Sound
<1> QED
  BY <1>1 DEF World, WorldRec

(* A slot whose session is over: only what is still to be done is kept.    *)
LEMMA EndedSlot ==
    ASSUME NEW A, NEW B, 0 \in A, 0 \in B,
           NEW r \in [session: A, vault: B, archive: {"none", "clean", "dirty"},
                      fresh: BOOLEAN, clear: BOOLEAN, recovery: BOOLEAN]
    PROVE  LET o == [r EXCEPT !.session = 0, !.vault = 0, !.archive = "none"] IN
           /\ o \in [session: A, vault: B, archive: {"none", "clean", "dirty"},
                     fresh: BOOLEAN, clear: BOOLEAN, recovery: BOOLEAN]
           /\ o.session = 0 /\ o.vault = 0 /\ o.archive = "none"
  OBVIOUS

LEMMA SlotInSet == ASSUME IInv, NEW s \in Slots PROVE storage[s] \in SlotSet
<1>1. storage[s] \in SlotRec(Len(info), Len(registry.maker)) /\ Len(registry.maker) \in Nat
  BY SlotFact, LenFact
<1> QED
  BY <1>1 DEF SlotRec, SlotSet

LEMMA BecomeHonest ==
    ASSUME IInv, NEW s \in Slots, NEW v, Honest(v, s), Become(s, v)
    PROVE  SlotsHonest /\ \A t \in Slots : storage'[t] = IF t = s THEN v.slot ELSE storage[t]
<1> DEFINE n == Len(v.reg.maker)
<1>1. storage \in [Slots -> SlotRec(Len(info), Len(registry.maker))]
  BY DEF IInv, StorageOK
<1>2. \A t \in Slots : storage'[t] = IF t = s THEN v.slot ELSE storage[t]
  BY <1>1 DEF Become
<1>3. n \in Nat /\ Len(registry.maker) \in Nat /\ Len(registry.maker) <= n /\ v.slot \in SlotSet
      /\ v.pending \in BOOLEAN
  BY LenProperties, LenFact DEF Honest, Sound, RegRec, WorldRec
<1>4. v.slot.vault \in 0..n
  <2>1. v.reg.active[s] \in 0..n
    BY DEF Honest, Sound
  <2> QED
    BY <1>3, <2>1 DEF Honest, VaultOK
<1>5. v.slot \in SlotRec(Len(info), n)
  BY <1>3, <1>4 DEF SlotSet, SlotRec
<1>6. \A t \in Slots : storage[t] \in SlotRec(Len(info), n)
  BY <1>1, <1>3 DEF SlotRec
<1>7. storage' \in [Slots -> SlotRec(Len(info), n)]
  BY <1>1, <1>5, <1>6 DEF Become
<1>8. registry' = v.reg /\ resetPending' = v.pending
  BY DEF Become
<1>9. \A t \in Slots \ {s} : VaultOK(t, storage[t], v.reg, v.pending)
  <2> SUFFICES ASSUME NEW t \in Slots \ {s} PROVE VaultOK(t, storage[t], v.reg, v.pending)
    OBVIOUS
  <2>1. /\ VaultOK(t, storage[t], registry, resetPending)
        /\ storage[t].vault # 0 => storage[t].vault \in Generations
    BY SlotFact
  <2> QED
    BY <2>1 DEF VaultOK, Honest
<1>10. \A t \in Slots : VaultOK(t, storage'[t], registry', resetPending')
  BY <1>2, <1>8, <1>9 DEF Honest
<1>11. GrownMakers
  BY <1>3, <1>8 DEF GrownMakers, Honest
<1> QED
  BY <1>2, <1>3, <1>7, <1>8, <1>10, <1>11 DEF SlotsHonest, Honest

(* A call of the registry for a slot without an open vault.                *)
LEMMA FollowsHonest ==
    ASSUME IInv, NEW s \in Slots, NEW w, NEW v, Follows(w, v, s), w.reg = registry,
           w.pending = resetPending, w.slot.vault = 0, w.slot.session = 0, w.slot.archive = "none"
    PROVE  Honest(v, s)
<1>1. Len(registry.maker) \in Nat
  BY LenFact
<1> QED
  BY <1>1 DEF Honest, Follows, VaultOK

LEMMA DetachTaskStep == ASSUME IInv, DetachTask PROVE IInv'
<1> DEFINE h == Head(queue).id
           s == info[h].slot
           o == [storage[s] EXCEPT !.session = 0, !.vault = 0, !.archive = "none"]
           w == World(o)
<1>1. /\ queue # <<>> /\ queue' = Tail(queue) /\ phase = "wait" /\ Head(queue).kind = "detach"
      /\ UNCHANGED <<uiVars, count, phase, job, result, mailbox, jobs, ghosts>>
      /\ IF storage[s].session # h THEN UNCHANGED <<storage, resetPending, registry>>
         ELSE \E v \in IF Head(queue).out THEN Then(Registry(w), LAMBDA u : Logout(u, h))
                                          ELSE {w} : Become(s, v)
  BY DEF DetachTask, Take
<1>2. UNCHANGED <<info, live, cleared, discarded, entries>> /\ JobsOK' /\ SameJobs
  BY <1>1, KeptJobs DEF uiVars, ghosts, IInv
<1>3. /\ Head(queue) = queue[1] /\ 1 \in 1..Len(queue) /\ h \in Handles
  BY <1>1, TakenFacts, TaskFact
<1>4. s \in Slots /\ h # 0
  BY <1>3, HandleFact
<1>5. /\ o \in SlotSet /\ o.session = 0 /\ o.vault = 0 /\ o.archive = "none"
  <2>1. storage[s] \in SlotSet /\ 0 \in 0..Len(info) /\ 0 \in Nat
    BY <1>4, SlotInSet, LenFact
  <2> QED
    BY <2>1, EndedSlot DEF SlotSet
<1> HIDE DEF o
<1>6. /\ w \in WorldRec /\ Sound(w.reg) /\ w.slot = o /\ w.ok
      /\ w.pending = resetPending /\ w.reg = registry
  BY <1>5, WorldFacts
<1> HIDE DEF w
<1>7. /\ SlotsHonest
      /\ \A t \in Slots : storage'[t] = IF t = s /\ storage[s].session = h THEN o ELSE storage[t]
  <2>1. CASE storage[s].session # h
    BY <1>1, <2>1, LenFact DEF SlotsHonest, IInv, StorageOK, RegistryInv, StoreInv, GrownMakers
  <2>2. CASE storage[s].session = h
    <3>1. PICK v \in IF Head(queue).out THEN Then(Registry(w), LAMBDA u : Logout(u, h))
                                        ELSE {w} : Become(s, v)
      BY <1>1, <2>2
    <3>2. Follows(w, v, s)
      <4>1. CASE Head(queue).out
        BY <1>3, <1>4, <1>6, <3>1, <4>1, LoggedOut
      <4>2. CASE ~Head(queue).out
        BY <1>6, <3>1, <4>2 DEF Follows
      <4> QED
        BY <4>1, <4>2
    <3>3. Honest(v, s)
      BY <1>4, <1>5, <1>6, <3>2, FollowsHonest
    <3>4. v.slot = o
      BY <1>6, <3>2 DEF Follows
    <3> QED
      BY <1>4, <2>2, <3>1, <3>3, <3>4, BecomeHonest
  <2> QED
    BY <2>1, <2>2
<1>8. storage[s].session = h => ~live[h]
  BY <1>1, <1>4, HeadEnds DEF Ends
<1>9. KeepsSessions
  BY <1>1, <1>4, <1>5, <1>7, <1>8, HandleFact DEF KeepsSessions
<1>10. /\ QueueOK' /\ OrderInv' /\ FifoInv' /\ RevisionInv' /\ HoldInv' /\ HomeInv' /\ RevisedInv'
       /\ \A x \in Handles : ClearDue(x) => DueNext(x)
  BY <1>1, <1>2, <1>7, <1>9, TakeQueue, TakeSlots, TakeRevised DEF IsJob, SlotsHonest
<1>11. SessionsOK' /\ GateOK' /\ LiveInv' /\ StorageOK' /\ RegistryInv' /\ StoreInv' /\ MailOK' /\ CaptureInSession'
  BY <1>1, <1>2, <1>7, WorkerKept, MailKept DEF SlotsHonest
<1>12. PhaseInv'
  <2>1. PhaseInv /\ Len(registry.maker) \in Nat /\ Len(registry.maker') \in Nat
        /\ Len(registry.maker) <= Len(registry.maker')
    BY <1>7, LenFact DEF IInv, SlotsHonest, GrownMakers
  <2> QED
    BY <1>1, <1>2, <2>1 DEF PhaseInv
<1>13. CleanInv'
  <2>1. \A t \in Slots : storage[t].session # 0 /\ live[storage[t].session]
            /\ ~DueNext(storage[t].session) => Clean(storage[t].session, storage[t])
    BY <1>10, SlotFact DEF IInv, CleanInv
  <2>2. \A t \in Slots : storage'[t].session # 0 /\ live[storage'[t].session]
            /\ ~DueNext(storage'[t].session) => Clean(storage'[t].session, storage'[t])
    BY <1>5, <1>7, <2>1
  <2> QED
    BY <1>1, <1>2, <2>2, CleanKept
<1>14. HeldInv'
  <2>1. ASSUME NEW i \in 1..Len(mailbox), mailbox[i].gen # 0, IsCurrent(mailbox[i].job)
        PROVE  storage'[info[jobs[mailbox[i].job].handle].slot]
                  = storage[info[jobs[mailbox[i].job].handle].slot]
    <3> DEFINE x == jobs[mailbox[i].job].handle
               y == info[x].slot
    <3>1. y \in Slots /\ live[x] /\ storage[y].session = x
      BY <2>1, CurrentMail
    <3>2. ~(y = s /\ storage[s].session = h)
      BY <1>8, <3>1
    <3> QED
      BY <1>7, <3>1, <3>2, Zenon
  <2>2. MailStays
    BY <2>1, Zenon DEF MailStays
  <2>3. MailHonest'
    BY <1>1, <1>2, <2>2, MailHeld
  <2> QED
    BY <1>1, <2>3, Zenon DEF HeldInv, MailHonest, IInv, PhaseInv
<1>15. CountInv'
  <2>1. \A j \in Jobs : Queued(j)' <=> Queued(j)
    BY <1>1, TakeQueued
  <2>2. \A k \in Kinds : Holding(k)' = Holding(k)
    BY <1>1, <1>2, <2>1 DEF Holding, Jobs
  <2> QED
    BY <1>1, <2>2, HoldingKept
<1> QED
  BY <1>2, <1>10, <1>11, <1>12, <1>13, <1>14, <1>15 DEF IInv

LEMMA ForgetTaskStep == ASSUME IInv, ForgetTask PROVE IInv'
<1>1. /\ queue # <<>> /\ queue' = Tail(queue) /\ phase = "wait" /\ Head(queue).kind = "forget"
      /\ UNCHANGED <<uiVars, count, phase, job, result, mailbox, jobs, ghosts>>
      /\ storage' = [s \in Slots |-> [storage[s] EXCEPT !.session = 0, !.vault = 0,
                                                        !.archive = "none"]]
      /\ \E s \in Slots : \E w \in Forget([World(storage[s]) EXCEPT !.pending = TRUE]) :
            resetPending' = w.pending /\ registry' = w.reg
  BY DEF ForgetTask, Take
<1>2. UNCHANGED <<info, live, cleared, discarded, entries>> /\ JobsOK' /\ SameJobs
  BY <1>1, KeptJobs DEF uiVars, ghosts, IInv
<1>3. /\ Sound(registry') /\ registry'.maker = registry.maker /\ resetPending' \in BOOLEAN
  <2>1. PICK s \in Slots : \E w \in Forget([World(storage[s]) EXCEPT !.pending = TRUE]) :
            resetPending' = w.pending /\ registry' = w.reg
    BY <1>1
  <2> DEFINE x == [World(storage[s]) EXCEPT !.pending = TRUE]
  <2>2. x \in WorldRec /\ x.reg = registry /\ Sound(x.reg)
    <3>1. World(storage[s]) \in WorldRec /\ World(storage[s]).reg = registry /\ Sound(registry)
      BY SlotInSet, WorldFacts
    <3> QED
      BY <3>1 DEF WorldRec
  <2>3. PICK w \in Forget(x) : resetPending' = w.pending /\ registry' = w.reg
    BY <2>1
  <2> HIDE DEF x
  <2>4. w \in WorldRec /\ Sound(w.reg) /\ w.reg.maker = registry.maker
    BY <2>2, <2>3, ForgetFacts
  <2> QED
    BY <2>3, <2>4 DEF WorldRec
<1>4. \A s \in Slots : /\ storage'[s] \in SlotRec(Len(info), Len(registry.maker))
                       /\ storage'[s].session = 0 /\ storage'[s].vault = 0
                       /\ storage'[s].archive = "none"
  <2>1. \A r \in SlotRec(Len(info), Len(registry.maker)) :
           LET o == [r EXCEPT !.session = 0, !.vault = 0, !.archive = "none"] IN
           /\ o \in SlotRec(Len(info), Len(registry.maker))
           /\ o.session = 0 /\ o.vault = 0 /\ o.archive = "none"
    <3>1. 0 \in 0..Len(info) /\ 0 \in 0..Len(registry.maker)
      BY LenFact
    <3> QED
      BY <3>1, EndedSlot DEF SlotRec
  <2>2. \A s \in Slots : storage[s] \in SlotRec(Len(info), Len(registry.maker))
    BY SlotFact
  <2> QED
    BY <1>1, <2>1, <2>2
<1>5. SlotsHonest
  <2>1. storage' \in [Slots -> SlotRec(Len(info), Len(registry.maker))]
    BY <1>1, <1>4
  <2>2. \A s \in Slots : VaultOK(s, storage'[s], registry', resetPending')
    BY <1>4 DEF VaultOK
  <2>3. GrownMakers
    BY <1>3, LenFact DEF GrownMakers
  <2> QED
    BY <1>3, <2>1, <2>2, <2>3 DEF SlotsHonest
<1>6. \A s \in Slots : storage[s].session # 0 => ~live[storage[s].session]
  BY <1>1, HeadEnds DEF Ends
<1>7. KeepsSessions
  BY <1>1, <1>4, <1>6, HandleFact, Zenon DEF KeepsSessions
<1>8. /\ QueueOK' /\ OrderInv' /\ FifoInv' /\ RevisionInv' /\ HoldInv' /\ HomeInv' /\ RevisedInv'
  BY <1>1, <1>2, <1>5, <1>7, TakeQueue, TakeSlots, TakeRevised DEF IsJob, SlotsHonest
<1>9. SessionsOK' /\ GateOK' /\ LiveInv' /\ StorageOK' /\ RegistryInv' /\ StoreInv' /\ MailOK' /\ CaptureInSession'
  BY <1>1, <1>2, <1>5, WorkerKept, MailKept DEF SlotsHonest
<1>10. PhaseInv'
  BY <1>1, <1>2, <1>3 DEF IInv, PhaseInv
<1>11. CleanInv'
  BY <1>1, <1>2, <1>4, CleanKept
<1>12. HeldInv'
  <2>1. MailStays
    BY <1>6, CurrentMail, Zenon DEF MailStays
  <2>2. MailHonest'
    BY <1>1, <1>2, <2>1, MailHeld
  <2> QED
    BY <1>1, <2>2, Zenon DEF HeldInv, MailHonest, IInv, PhaseInv
<1>13. CountInv'
  <2>1. \A j \in Jobs : Queued(j)' <=> Queued(j)
    BY <1>1, TakeQueued
  <2>2. \A k \in Kinds : Holding(k)' = Holding(k)
    BY <1>1, <1>2, <2>1 DEF Holding, Jobs
  <2> QED
    BY <1>1, <2>2, HoldingKept
<1> QED
  BY <1>2, <1>8, <1>9, <1>10, <1>11, <1>12, <1>13 DEF IInv

LEMMA TakeJobStep == ASSUME IInv, TakeJob PROVE IInv'
<1> DEFINE j == Head(queue).id
           runs == IF jobs[j].kind = "request" THEN IsVisible(j) ELSE IsCurrent(j)
<1>1. /\ queue # <<>> /\ queue' = Tail(queue) /\ phase = "wait" /\ Head(queue).kind = "job"
      /\ UNCHANGED <<uiVars, result, storage, resetPending, registry, mailbox, ghosts>>
      /\ IF runs THEN job' = j /\ phase' = "open" /\ UNCHANGED <<jobs, count>>
                 ELSE Settle(j, "dropped") /\ Release(j) /\ UNCHANGED <<job, phase>>
  BY DEF TakeJob, Take
<1>2. /\ Head(queue) = queue[1] /\ 1 \in 1..Len(queue) /\ IsJob(Head(queue))
  BY <1>1, TakenFacts DEF IsJob
<1>3. j \in Jobs /\ jobs[j].kind # "clear"
  BY <1>1, <1>2, TaskFact
<1>4. j # 0 /\ jobs[j].kind \in Kinds /\ jobs[j].handle \in Handles
  BY <1>3, JobFact DEF JobRec
<1>5. runs => live[jobs[j].handle]
  BY DEF IsVisible, IsCurrent, Visible, Current
<1> HIDE DEF runs
<1>6. UNCHANGED <<info, live, cleared, discarded, entries>> /\ JobsOK' /\ SameJobs
  <2>1. UNCHANGED <<info, live, cleared, discarded, entries>>
    BY <1>1 DEF uiVars, ghosts
  <2>2. CASE runs
    BY <1>1, <2>1, <2>2, KeptJobs DEF IInv
  <2>3. CASE ~runs
    BY <1>1, <1>3, <2>1, <2>3, SettleFacts DEF IInv
  <2> QED
    BY <2>1, <2>2, <2>3
<1>7. job = 0 /\ result = 0
  BY <1>1 DEF IInv, PhaseInv
<1>8. KeepsSessions
  BY <1>1 DEF KeepsSessions
<1>9. SlotsHonest
  BY <1>1, LenFact DEF SlotsHonest, IInv, StorageOK, RegistryInv, StoreInv, GrownMakers
<1>10. /\ QueueOK' /\ OrderInv' /\ FifoInv' /\ RevisionInv' /\ HoldInv' /\ HomeInv' /\ RevisedInv'
       /\ \A x \in Handles : ClearDue(x) => DueNext(x)
  <2>1. job' = job \/ (IsJob(Head(queue)) /\ job' = Head(queue).id)
    BY <1>1, <1>2
  <2> QED
    BY <1>1, <1>6, <1>8, <1>9, <2>1, TakeQueue, TakeSlots, TakeRevised DEF SlotsHonest
<1>11. SessionsOK' /\ GateOK' /\ LiveInv' /\ StorageOK' /\ RegistryInv' /\ StoreInv' /\ MailOK' /\ CaptureInSession'
  BY <1>1, <1>6, <1>9, WorkerKept, MailKept DEF SlotsHonest
<1>12. PhaseInv'
  <2>1. PhaseInv /\ Len(jobs') = Len(jobs) /\ Len(jobs) \in Nat /\ j \in 0..Len(jobs)
        /\ jobs'[j].kind = jobs[j].kind
    BY <1>3, <1>6, LenFact DEF IInv, SameJobs, Jobs
  <2>2. CASE runs
    BY <1>1, <1>3, <1>4, <1>7, <2>1, <2>2 DEF PhaseInv
  <2>3. CASE ~runs
    BY <1>1, <1>7, <2>1, <2>3 DEF PhaseInv
  <2> QED
    BY <2>2, <2>3
<1>13. CleanInv'
  <2>1. \A t \in Slots : storage[t].session # 0 /\ live[storage[t].session]
            /\ ~DueNext(storage[t].session) => Clean(storage[t].session, storage[t])
    BY <1>10, SlotFact DEF IInv, CleanInv
  <2> QED
    BY <1>1, <1>6, <2>1, CleanKept
<1>14. HeldInv'
  <2>1. MailHonest'
    BY <1>1, <1>6, MailHeld DEF MailStays
  <2>2. phase' \in {"open", "add", "commit"} => (storage[info[jobs[job].handle].slot].session = jobs[job].handle)'
    <3> SUFFICES ASSUME runs PROVE (storage[info[jobs[job].handle].slot].session = jobs[job].handle)'
      BY <1>1
    <3>1. AttachedIn(storage, queue, jobs[j].handle, 1)
      BY <1>2, <1>5 DEF IInv, HomeInv
    <3>2. storage[info[jobs[j].handle].slot].session = jobs[j].handle
      BY <3>1 DEF AttachedIn
    <3> QED
      BY <1>1, <1>6, <3>2
  <2> QED
    BY <1>1, <1>7, <2>1, <2>2, Zenon DEF HeldInv, MailHonest
<1>15. CountInv'
  <2>1. \A i \in Jobs : Queued(i)' <=> Queued(i) /\ i # j
    BY <1>1, TakeQueued
  <2>2. Queued(j)
    BY <1>1, <1>2 DEF Queued
  <2>3. CASE runs
    <3>1. \A k \in Kinds : Holding(k)' = Holding(k)
      <4>1. \A i \in Jobs : (i = job \/ Queued(i))' <=> (i = job \/ Queued(i))
        BY <1>1, <1>7, <2>1, <2>2, <2>3, JobFact
      <4> QED
        BY <1>1, <1>6, <2>3, <4>1 DEF Holding, SameJobs, Jobs
    <3> QED
      BY <1>1, <2>3, <3>1, HoldingKept
  <2>4. CASE ~runs
    <3>1. \A i \in Jobs : (i = job \/ Queued(i))' <=> (i = job \/ Queued(i)) /\ i # j
      BY <1>1, <1>4, <1>7, <2>1, <2>4, JobFact
    <3> QED
      BY <1>1, <1>3, <1>4, <1>6, <2>2, <2>4, <3>1, HoldingReleased
  <2> QED
    BY <2>3, <2>4
<1> QED
  BY <1>6, <1>10, <1>11, <1>12, <1>13, <1>14, <1>15 DEF IInv

----------------------------------------------------------------------------
(* The worker thread at its job *)

(* The queue is left alone.                                                *)
LEMMA QueueKept ==
    ASSUME IInv, SameJobs, UNCHANGED <<uiVars, cleared, queue>>, GrownMakers, job' \in {job, 0}
    PROVE  /\ QueueOK' /\ OrderInv' /\ RevisionInv' /\ RevisedInv'
           /\ \A h \in Handles : ClearDue(h) => DueNext(h)
<1>1. /\ Handles' = Handles /\ Jobs' = Jobs /\ info' = info /\ live' = live /\ revision' = revision
      /\ cleared' = cleared /\ queue' = queue
  BY DEF uiVars, SameJobs, Handles, Jobs
<1>2. \A i \in 1..Len(queue) : IsJob(queue[i]) => queue[i].id \in Jobs
  BY TaskFact
<1>3. QueueOK'
  BY <1>1 DEF IInv, QueueOK, Meant, SameJobs
<1>4. OrderInv'
  BY <1>1 DEF IInv, OrderInv, Ends
<1>5. RevisionInv'
  BY <1>1 DEF IInv, RevisionInv, SameJobs
<1>6. \A h \in Handles : ClearDue(h) => DueNext(h)
  BY <1>1, <1>2 DEF ClearDue, DueNext, SameJobs, IsJob
<1>7. RevisedInv'
  <2>1. \A j \in Jobs' : (live[jobs[j].handle] /\ Unsettled(j)
                           /\ jobs[j].revision < revision[jobs[j].handle])' => ClearDue(jobs[j].handle)'
    <3> SUFFICES ASSUME NEW j \in Jobs, (live[jobs[j].handle] /\ Unsettled(j)
                           /\ jobs[j].revision < revision[jobs[j].handle])'
                 PROVE  DueNext(jobs'[j].handle)
      BY <1>1 DEF DueNext, ClearDue
    <3>1. jobs[j].handle \in Handles /\ j # 0
      BY JobFact
    <3>2. Unsettled(j)
      BY <1>1, <3>1 DEF Unsettled, IsJob
    <3>3. ClearDue(jobs[j].handle)
      BY <1>1, <3>2 DEF SameJobs, IInv, RevisedInv
    <3> QED
      BY <1>6, <3>1, <3>3 DEF SameJobs
  <2>2. \A k \in 1..Len(queue) : LET h == queue[k].id IN
           queue[k].kind = "attach" /\ live[h] => revision[h] = 0 \/ DueNext(h)
    BY <1>6, TaskFact DEF IInv, RevisedInv
  <2>3. \A k \in 1..Len(queue') : (LET h == queue[k].id IN
           queue[k].kind = "attach" /\ live[h] => revision[h] = 0 \/ ClearDue(h))'
    BY <1>1, <2>2 DEF ClearDue, DueNext
  <2>4. \A h \in Handles : /\ cleared[h] <= Len(registry.maker')
                           /\ revision[h] = 0 => cleared[h] = 0
    <3>1. \A h \in Handles : cleared[h] \in Nat /\ cleared[h] <= Len(registry.maker)
                             /\ (revision[h] = 0 => cleared[h] = 0)
      BY HandleFact DEF IInv, RevisedInv
    <3> QED
      BY <3>1, LenFact DEF GrownMakers
  <2> QED
    BY <1>1, <2>1, <2>3, <2>4 DEF RevisedInv
<1> QED
  BY <1>3, <1>4, <1>5, <1>6, <1>7

LEMMA SessionsKept ==
    ASSUME IInv, SameJobs, UNCHANGED <<uiVars, queue>>,
           \A s \in Slots : storage'[s].session = storage[s].session
    PROVE  HoldInv' /\ HomeInv'
<1>1. Handles' = Handles /\ Jobs' = Jobs /\ info' = info /\ live' = live /\ queue' = queue
  BY DEF uiVars, SameJobs, Handles, Jobs
<1>2. HoldInv'
  BY <1>1 DEF IInv, HoldInv, Ends
<1>3. \A h \in Handles : \A k : AttachedIn(storage, queue, h, k) => AttachedIn(storage', queue', h, k)
  BY <1>1, HandleFact DEF AttachedIn
<1>4. \A k \in 1..Len(queue) : IsJob(queue[k]) => /\ queue[k].id \in Jobs
                                                  /\ jobs[queue[k].id].handle \in Handles
                                                  /\ jobs'[queue[k].id].handle = jobs[queue[k].id].handle
  BY TaskFact, JobFact DEF SameJobs
<1>5. HomeInv
  BY DEF IInv
<1>6. \A h \in Handles : live[h] => AttachedIn(storage', queue', h, Len(queue) + 1)
  BY <1>3, <1>5 DEF HomeInv
<1>7. \A k \in 1..Len(queue) : IsJob(queue[k]) /\ live[jobs[queue[k].id].handle]
                                 => AttachedIn(storage', queue', jobs[queue[k].id].handle, k)
  BY <1>3, <1>4, <1>5 DEF HomeInv
<1>8. HomeInv'
  <2>1. \A h \in Handles' : live'[h] => AttachedIn(storage, queue, h, Len(queue) + 1)'
    BY <1>1, <1>6 DEF AttachedIn
  <2>2. \A k \in 1..Len(queue') : IsJob(queue'[k]) /\ live'[jobs'[queue'[k].id].handle]
           => AttachedIn(storage', queue', jobs'[queue'[k].id].handle, k)
    BY <1>1, <1>4, <1>7
  <2>3. \A k \in 1..Len(queue') : IsJob(queue[k])' /\ live'[jobs'[queue'[k].id].handle]
           => AttachedIn(storage, queue, jobs[queue[k].id].handle, k)'
    BY <1>1, <2>2 DEF AttachedIn, IsJob
  <2> QED
    BY <2>1, <2>3 DEF HomeInv
<1> QED
  BY <1>2, <1>8

(* The worker's fields of the order of jobs are as they were, or cleared.  *)
LEMMA FifoKept ==
    ASSUME IInv, UNCHANGED <<queue, mailbox>>, job' = job
    PROVE  FifoInv'
  BY DEF IInv, FifoInv, IsJob

(* store(handle): the world it starts from, its last clear carried out.    *)
Entered(o) == IF o.clear THEN Emptied(World(o)) ELSE World(o)

LEMMA BoundsHold == ASSUME IInv, NEW h \in Handles PROVE Bounds(h)
<1>1. info[h].slot \in Slots /\ cleared[h] \in Nat /\ Len(registry.maker) \in Nat
  BY HandleFact, LenFact
<1>2. cleared[h] <= Len(registry.maker) /\ (revision[h] = 0 => cleared[h] = 0)
  BY DEF IInv, RevisedInv
<1>3. entries \subseteq [job: Jobs, gen: Generations]
  BY DEF IInv, MailOK
<1>4. \A j \in Jobs : jobs[j].revision \in Nat /\ jobs[j].revision <= revision[jobs[j].handle]
  BY JobFact DEF IInv, RevisionInv
<1> QED
  BY <1>1, <1>2, <1>3, <1>4 DEF Bounds

LEMMA StoreRun ==
    ASSUME IInv, NEW h \in Handles, NEW o \in SlotSet, o.session = h, Good(Entered(o), h),
           NEW v \in StoreOutcomes(h, World(o))
    PROVE  /\ Honest(v, info[h].slot) /\ v.slot.session = h /\ v.slot \in SlotSet
           /\ v.ok => v.slot.vault # 0
           /\ ~o.clear /\ o.vault # 0 => v.slot.vault = o.vault
           /\ o.clear \/ Clean(h, o) => Clean(h, v.slot)
<1> DEFINE w == World(o)
           x == Entered(o)
<1>1. /\ w \in WorldRec /\ Sound(w.reg) /\ w.slot = o /\ w.ok
      /\ w.pending = resetPending /\ w.reg = registry
  BY WorldFacts
<1>2. x = IF w.slot.clear THEN Emptied(w) ELSE w
  BY <1>1 DEF Entered
<1>3. v \in StoreOutcomes(h, w)
  OBVIOUS
<1> HIDE DEF w
<1>4. /\ x.reg = registry /\ x.pending = resetPending
      /\ o.clear => x.slot.clear
      /\ ~o.clear => x.slot = o
  <2>1. /\ Emptied(w).reg = w.reg /\ Emptied(w).pending = w.pending
        /\ Emptied(w).slot.clear = w.slot.clear
    BY <1>1, EmptiedFacts
  <2> QED
    BY <1>1, <1>2, <2>1
<1> HIDE DEF x
<1>5. Good(x, h)
  BY DEF x
<1>6. Ahead(x, v, h) /\ (v.ok => v.slot.vault # 0)
  BY <1>1, <1>2, <1>3, <1>5, BoundsHold, StoreCall
<1>7. Honest(v, info[h].slot)
  BY <1>4, <1>6 DEF Ahead, Good, Honest, Generations
<1>8. v.slot.session = h /\ v.slot \in SlotSet
  BY <1>6 DEF Ahead, Good, WorldRec
<1>9. ~o.clear /\ o.vault # 0 => v.slot.vault = o.vault
  BY <1>4, <1>6 DEF Ahead
<1>10. o.clear \/ Clean(h, o) => Clean(h, v.slot)
  BY <1>4, <1>6 DEF Ahead, Clean
<1> QED
  BY <1>6, <1>7, <1>8, <1>9, <1>10

LEMMA OpenStoreStep == ASSUME IInv, OpenStore PROVE IInv'
<1> DEFINE h == jobs[job].handle
           s == info[h].slot
           capture == jobs[job].kind # "request"
<1>1. PICK w \in StoreOutcomes(h, World(storage[s])) :
         /\ Become(s, IF capture /\ ~w.ok THEN [w EXCEPT !.slot.recovery = TRUE] ELSE w)
         /\ result' \in IF w.ok THEN {w.slot.vault} \cup (IF capture THEN {} ELSE {0}) ELSE {0}
         /\ phase' = IF capture /\ w.ok THEN "add" ELSE "reply"
  BY DEF OpenStore
<1>2. phase = "open" /\ UNCHANGED <<uiVars, count, queue, job, mailbox, jobs, ghosts>>
  BY DEF OpenStore
<1>3. UNCHANGED <<info, live, cleared, discarded, entries>> /\ JobsOK' /\ SameJobs
  BY <1>2, KeptJobs DEF uiVars, ghosts, IInv
<1>4. PhaseInv /\ job # 0 /\ job \in Jobs /\ result = 0 /\ jobs[job].kind # "clear"
  BY <1>2, LenFact DEF IInv, PhaseInv
<1>5. h \in Handles
  BY <1>4, JobFact
<1>6. s \in Slots /\ h # 0
  BY <1>5, HandleFact
<1>7. storage[s].session = h
  BY <1>2 DEF IInv, HeldInv
<1> DEFINE o == storage[s]
<1>8. o \in SlotSet /\ VaultOK(s, o, registry, resetPending)
  BY <1>6, SlotInSet, SlotFact
<1> HIDE DEF h, s, capture
<1>9. Good(Entered(o), h)
  <2>1. /\ World(o) \in WorldRec /\ Sound(World(o).reg) /\ World(o).slot = o
        /\ World(o).pending = resetPending /\ World(o).reg = registry
    BY <1>8, WorldFacts
  <2>2. Good(World(o), h)
    BY <1>7, <1>8, <2>1, LenFact DEF Good, s
  <2>3. o.clear => Good(Emptied(World(o)), h)
    BY <2>1, <2>2, EmptiedGood
  <2> QED
    BY <2>2, <2>3 DEF Entered
<1>10. /\ Honest(w, s) /\ w.slot.session = h /\ w.slot \in SlotSet
       /\ w.ok => w.slot.vault # 0
       /\ ~o.clear /\ o.vault # 0 => w.slot.vault = o.vault
       /\ o.clear \/ Clean(h, o) => Clean(h, w.slot)
  BY <1>1, <1>5, <1>7, <1>8, <1>9, StoreRun DEF s
<1> HIDE DEF o
<1> DEFINE v == IF capture /\ ~w.ok THEN [w EXCEPT !.slot.recovery = TRUE] ELSE w
<1>11. /\ v \in WorldRec /\ v.reg = w.reg /\ v.pending = w.pending
       /\ v.slot.session = w.slot.session /\ v.slot.vault = w.slot.vault
       /\ v.slot.archive = w.slot.archive /\ v.slot.clear = w.slot.clear
       /\ v.slot.fresh = w.slot.fresh /\ (w.slot.recovery => v.slot.recovery)
  BY <1>10 DEF Honest, WorldRec, SlotSet
<1>12. Become(s, v)
  BY <1>1
<1> HIDE DEF v
<1>13. Honest(v, s) /\ (Clean(h, w.slot) => Clean(h, v.slot))
  BY <1>10, <1>11 DEF Honest, VaultOK, Clean
<1>14. /\ SlotsHonest /\ GrownMakers
       /\ \A t \in Slots : storage'[t] = IF t = s THEN v.slot ELSE storage[t]
  BY <1>6, <1>12, <1>13, BecomeHonest DEF SlotsHonest
<1>15. \A t \in Slots : storage'[t].session = storage[t].session
  BY <1>7, <1>10, <1>11, <1>14
<1>16. /\ QueueOK' /\ OrderInv' /\ RevisionInv' /\ RevisedInv' /\ FifoInv' /\ HoldInv' /\ HomeInv'
       /\ \A x \in Handles : ClearDue(x) => DueNext(x)
  BY <1>2, <1>3, <1>14, <1>15, QueueKept, SessionsKept, FifoKept
<1>17. SessionsOK' /\ GateOK' /\ LiveInv' /\ StorageOK' /\ RegistryInv' /\ StoreInv' /\ MailOK' /\ CaptureInSession'
  BY <1>2, <1>3, <1>14, WorkerKept, MailKept
<1>18. PhaseInv'
  <2>1. registry' = v.reg /\ v.slot.vault \in 0..Len(v.reg.maker)
    <3>1. v.slot.vault \in Nat /\ Len(v.reg.maker) \in Nat /\ v.reg.active[s] \in 0..Len(v.reg.maker)
      BY <1>6, <1>11, <1>13, LenProperties DEF Honest, Sound, RegRec, WorldRec, SlotSet
    <3> QED
      BY <1>12, <1>13, <3>1 DEF Become, Honest, VaultOK
  <2>2. w.slot.vault \in 0..Len(registry'.maker) /\ 0 \in 0..Len(registry'.maker)
    BY <1>11, <1>14, <2>1 DEF GrownMakers
  <2>3. result' \in 0..Len(registry'.maker)
    BY <1>1, <2>2
  <2>4. job \in 0..Len(jobs) /\ job' = job /\ jobs' = jobs
    BY <1>2, LenFact
  <2>5. phase' \in {"add", "reply"}
    BY <1>1
  <2>6. phase' = "add" => result' # 0 /\ jobs[job].kind # "request"
    BY <1>1, <1>10 DEF capture
  <2> QED
    BY <1>4, <2>3, <2>4, <2>5, <2>6 DEF PhaseInv
<1>19. CleanInv'
  <2>1. \A t \in Slots : storage[t].session # 0 /\ live[storage[t].session]
            /\ ~DueNext(storage[t].session) => Clean(storage[t].session, storage[t])
    BY <1>16, SlotFact DEF IInv, CleanInv
  <2>2. live[h] /\ ~DueNext(h) => Clean(h, v.slot)
    BY <1>6, <1>7, <1>10, <1>13, <2>1 DEF o
  <2>3. \A t \in Slots : storage'[t].session # 0 /\ live[storage'[t].session]
            /\ ~DueNext(storage'[t].session) => Clean(storage'[t].session, storage'[t])
    BY <1>10, <1>11, <1>14, <2>1, <2>2
  <2> QED
    BY <1>2, <1>3, <2>3, CleanKept
<1>20. HeldInv'
  <2>1. ASSUME NEW i \in 1..Len(mailbox), mailbox[i].gen # 0, IsCurrent(mailbox[i].job)
        PROVE  LET t == info[jobs[mailbox[i].job].handle].slot IN
               storage'[t].session = storage[t].session /\ storage'[t].vault = storage[t].vault
    <3> DEFINE t == info[jobs[mailbox[i].job].handle].slot
    <3>1. t \in Slots /\ storage[t].vault # 0
      BY <2>1, CurrentMail
    <3>2. t = s => v.slot.vault = o.vault
      BY <1>8, <1>10, <1>11, <3>1 DEF VaultOK, o
    <3> QED
      BY <1>14, <1>15, <3>1, <3>2 DEF o
  <2>2. MailStays
    BY <2>1, Zenon DEF MailStays
  <2>3. MailHonest'
    BY <1>2, <1>3, <2>2, MailHeld
  <2>4. storage'[s].session = h /\ storage'[s].vault = w.slot.vault
    BY <1>6, <1>10, <1>11, <1>14
  <2>5. result' # 0 => result' = w.slot.vault
    BY <1>1
  <2>6. /\ (storage[info[jobs[job].handle].slot].session = jobs[job].handle)'
        /\ (result # 0 => Held(job, result))'
    BY <1>2, <1>3, <2>4, <2>5 DEF Held, h, s
  <2> QED
    BY <2>3, <2>6, Zenon DEF HeldInv, MailHonest
<1>21. CountInv'
  BY <1>2, HoldingKept DEF Holding, Jobs, Queued
<1> QED
  BY <1>3, <1>16, <1>17, <1>18, <1>19, <1>20, <1>21 DEF IInv

LEMMA ReadMediaStep == ASSUME IInv, ReadMedia PROVE IInv'
<1>1. /\ phase = "add" /\ phase' = "commit"
      /\ UNCHANGED <<uiVars, count, queue, job, result, storage, resetPending, registry,
                     mailbox, jobs, ghosts>>
  BY Zenon DEF ReadMedia
<1>2. /\ UNCHANGED <<info, live, revision, cleared, discarded, entries>>
      /\ JobsOK' /\ SameJobs /\ GrownMakers
  BY <1>1, KeptJobs, LenFact DEF uiVars, ghosts, IInv, GrownMakers
<1>3. PhaseInv /\ job \in Jobs
  BY <1>1, LenFact DEF IInv, PhaseInv
<1>4. /\ QueueOK' /\ OrderInv' /\ RevisionInv' /\ RevisedInv' /\ FifoInv' /\ HoldInv' /\ HomeInv'
      /\ \A x \in Handles : ClearDue(x) => DueNext(x)
  BY <1>1, <1>2, QueueKept, SessionsKept, FifoKept
<1>5. SlotsHonest
  BY <1>1, <1>2, SlotFact DEF SlotsHonest, IInv, StorageOK, RegistryInv
<1>6. SessionsOK' /\ GateOK' /\ LiveInv' /\ StorageOK' /\ RegistryInv' /\ StoreInv' /\ MailOK' /\ CaptureInSession'
  BY <1>1, <1>2, <1>5, WorkerKept, MailKept
<1>7. PhaseInv'
  BY <1>1, <1>3 DEF PhaseInv
<1>8. CleanInv'
  <2>1. \A t \in Slots : storage[t].session # 0 /\ live[storage[t].session]
            /\ ~DueNext(storage[t].session) => Clean(storage[t].session, storage[t])
    BY <1>4, SlotFact DEF IInv, CleanInv
  <2> QED
    BY <1>1, <1>2, <2>1, CleanKept
<1>9. HeldInv'
  <2>1. MailHonest'
    BY <1>1, <1>2, MailHeld DEF MailStays
  <2>2. storage[info[jobs[job].handle].slot].session = jobs[job].handle /\ (result # 0 => Held(job, result))
    BY <1>1 DEF IInv, HeldInv
  <2> QED
    BY <1>1, <1>2, <2>1, <2>2, Zenon DEF HeldInv, MailHonest, Held
<1>10. CountInv'
  BY <1>1, HoldingKept DEF Holding, Jobs, Queued
<1> QED
  BY <1>2, <1>4, <1>6, <1>7, <1>8, <1>9, <1>10 DEF IInv

LEMMA AddEntryStep == ASSUME IInv, AddEntry PROVE IInv'
<1> DEFINE h == jobs[job].handle
           s == info[h].slot
           e == [job |-> job, gen |-> result]
<1>1. PICK a \in {"clean", "dirty"}, r \in BOOLEAN :
         /\ a = "dirty" => r
         /\ storage' = [storage EXCEPT ![s].archive = a, ![s].recovery = r]
         /\ \/ entries' = entries \cup {e} /\ result' = result
            \/ entries' = entries /\ result' = 0
  BY Zenon DEF AddEntry
<1>2. /\ phase \in {"add", "commit"} /\ phase' = "reply"
      /\ UNCHANGED <<uiVars, count, queue, job, resetPending, registry, mailbox, jobs, cleared, discarded>>
  BY Zenon DEF AddEntry, Adding
<1>3. UNCHANGED <<info, live, revision>> /\ JobsOK' /\ SameJobs /\ GrownMakers
  BY <1>2, KeptJobs, LenFact DEF uiVars, IInv, GrownMakers
<1>4. PhaseInv /\ job # 0 /\ job \in Jobs /\ result \in Generations
  BY <1>2, LenFact DEF IInv, PhaseInv, Generations
<1>5. h \in Handles
  BY <1>4, JobFact
<1>6. s \in Slots /\ h # 0
  BY <1>5, HandleFact, Zenon
<1>7. storage[s].session = h /\ storage[s].vault = result /\ result # 0
  BY <1>2, Zenon DEF IInv, HeldInv, Held, PhaseInv
<1> HIDE DEF h, s, e
<1> DEFINE o == [storage[s] EXCEPT !.archive = a, !.recovery = r]
<1>8. \A t \in Slots : storage'[t] = IF t = s THEN o ELSE storage[t]
  BY <1>1, <1>6 DEF IInv, StorageOK
<1>9. /\ o \in SlotRec(Len(info), Len(registry.maker)) /\ o.archive = a /\ o.recovery = r
      /\ o.session = storage[s].session /\ o.vault = storage[s].vault
      /\ o.clear = storage[s].clear /\ o.fresh = storage[s].fresh
  BY <1>1, <1>6, SlotFact DEF SlotRec
<1> HIDE DEF o
<1>10. SlotsHonest
  <2>1. \A t \in Slots : /\ VaultOK(t, storage[t], registry, resetPending)
                         /\ storage[t] \in SlotRec(Len(info), Len(registry.maker))
    BY SlotFact
  <2>2. VaultOK(s, o, registry, resetPending)
    BY <1>1, <1>6, <1>9, <2>1 DEF VaultOK
  <2>3. \A t \in Slots : VaultOK(t, storage'[t], registry, resetPending)
    BY <1>8, <2>1, <2>2
  <2>4. storage' \in [Slots -> SlotRec(Len(info), Len(registry.maker))]
    BY <1>1, <1>8, <1>9, <2>1 DEF IInv, StorageOK
  <2> QED
    BY <1>2, <1>3, <2>3, <2>4 DEF SlotsHonest, IInv, StorageOK, RegistryInv
<1>11. \A t \in Slots : storage'[t].session = storage[t].session /\ storage'[t].vault = storage[t].vault
  BY <1>8, <1>9
<1>12. /\ QueueOK' /\ OrderInv' /\ RevisionInv' /\ RevisedInv' /\ FifoInv' /\ HoldInv' /\ HomeInv'
       /\ \A x \in Handles : ClearDue(x) => DueNext(x)
  BY <1>2, <1>3, <1>11, QueueKept, SessionsKept, FifoKept
<1>13. SessionsOK' /\ GateOK' /\ LiveInv' /\ StorageOK' /\ RegistryInv' /\ StoreInv'
  BY <1>2, <1>10, WorkerKept
<1>14. PhaseInv'
  BY <1>1, <1>2, <1>4, LenFact DEF PhaseInv
<1>15. MailOK' /\ CaptureInSession'
  <2>1. e \in [job: Jobs, gen: Generations] /\ e.job = job /\ e.gen = result
    BY <1>4 DEF e
  <2>2. MailOK'
    BY <1>1, <1>2, <1>3, <2>1 DEF IInv, MailOK, Jobs, Generations
  <2>3. LoginOf(result) = info[h].login /\ info[registry.maker[result]].slot = s
    <3>1. VaultOK(s, storage[s], registry, resetPending) /\ Sound(registry)
      BY <1>6, SlotFact DEF IInv, RegistryInv
    <3>2. registry.active[s] = result /\ info[registry.maker[result]].login = info[h].login
      BY <1>7, <3>1, SMTT(30) DEF VaultOK
    <3> QED
      BY <1>6, <1>7, <3>1, <3>2 DEF Sound, LoginOf
  <2>4. \A x \in entries' : /\ LoginOf(x.gen) = info[jobs[x.job].handle].login
                            /\ info[registry.maker[x.gen]].slot = info[jobs[x.job].handle].slot
    BY <1>1, <2>1, <2>3 DEF IInv, CaptureInSession, h, s
  <2>5. CaptureInSession'
    BY <1>2, <1>3, <2>4 DEF CaptureInSession, LoginOf
  <2> QED
    BY <2>2, <2>5
<1>16. CleanInv'
  <2> SUFFICES ASSUME NEW t \in Slots, storage'[t].session # 0, live[storage'[t].session],
                      ~DueNext(storage'[t].session)
               PROVE  Clean(storage[t].session, storage[t])'
    BY <1>3 DEF CleanInv, ClearDue, DueNext
  <2> DEFINE x == storage[t].session
             g == storage[t].vault
  <2>1. x \in Handles /\ x # 0 /\ storage'[t].session = x /\ storage'[t].vault = g /\ live[x]
        /\ revision[x] \in Nat
    BY <1>11, SlotFact, HandleFact
  <2>2. ~ClearDue(x)
    BY <1>12, <2>1
  <2>3. Clean(x, storage[t])
    BY <2>1, <2>2 DEF IInv, CleanInv
  <2>4. h = x => jobs[job].revision = revision[x]
    <3>1. ~(jobs[job].revision < revision[x] /\ h = x)
      BY <1>4, <2>1, <2>2 DEF IInv, RevisedInv, Unsettled, h
    <3>2. jobs[job].revision \in Nat /\ (h = x => jobs[job].revision <= revision[x])
      BY <1>4, JobFact DEF IInv, RevisionInv, h
    <3> QED
      BY <2>1, <3>1, <3>2
  <2>5. Uncleared(x, g) => /\ g > cleared[x]
                           /\ \A y \in entries' : y.gen = g /\ jobs[y.job].handle = x
                                                    => jobs[y.job].revision = revision[x]
    BY <1>1, <2>4 DEF Uncleared, e, h
  <2>6. storage'[t].clear = storage[t].clear /\ storage'[t].fresh = storage[t].fresh
    BY <1>8, <1>9
  <2> HIDE DEF x, g
  <2>7. Uncleared(x, g) => Uncleared(storage[t].session, storage[t].vault)'
    BY <1>2, <1>3, <2>1, <2>5 DEF Uncleared
  <2>8. storage[t].session = x /\ storage[t].vault = g
    BY DEF x, g
  <2> QED
    BY <1>3, <2>1, <2>3, <2>6, <2>7, <2>8 DEF Clean
<1>17. HeldInv'
  <2>1. \A i \in 1..Len(mailbox) : mailbox[i].gen # 0 /\ IsCurrent(mailbox[i].job)
           => info[jobs[mailbox[i].job].handle].slot \in Slots
    BY CurrentMail
  <2>2. MailStays
    BY <1>11, <2>1, Zenon DEF MailStays
  <2>3. MailHonest'
    BY <1>2, <1>3, <2>2, MailHeld, Zenon
  <2>4. (result # 0 => Held(job, result))'
    BY <1>1, <1>2, <1>3, <1>6, <1>7, <1>11, Zenon DEF Held, h, s
  <2> QED
    BY <1>2, <2>3, <2>4 DEF HeldInv, MailHonest
<1>18. CountInv'
  BY <1>2, HoldingKept DEF Holding, Jobs, Queued
<1> QED
  BY <1>3, <1>12, <1>13, <1>14, <1>15, <1>16, <1>17, <1>18, Zenon DEF IInv

LEMMA StopStep == ASSUME IInv, Stop PROVE IInv'
<1>1. /\ phase = "wait" /\ queue = <<>> /\ ~gate.alive /\ phase' = "stopped"
      /\ storage' = [s \in Slots |-> Closed]
      /\ UNCHANGED <<uiVars, count, queue, job, result, resetPending, registry, mailbox, jobs, ghosts>>
  BY DEF Stop
<1>2. UNCHANGED <<info, live, cleared, discarded, entries>> /\ JobsOK' /\ SameJobs /\ GrownMakers
  BY <1>1, KeptJobs, LenFact DEF uiVars, ghosts, IInv, GrownMakers
<1>3. \A h \in Handles : ~live[h]
  BY <1>1 DEF IInv, LiveInv
<1>4. /\ Closed \in SlotRec(Len(info), Len(registry.maker))
      /\ Closed.session = 0 /\ Closed.vault = 0 /\ Closed.archive = "none"
  BY LenFact DEF Closed, SlotRec
<1> DEFINE c == Closed
<1> HIDE DEF c
<1>5. storage' = [s \in Slots |-> c] /\ c \in SlotRec(Len(info), Len(registry.maker))
      /\ c.session = 0 /\ c.vault = 0 /\ c.archive = "none"
  BY <1>1, <1>4 DEF c
<1>6. SlotsHonest
  BY <1>1, <1>2, <1>5 DEF SlotsHonest, IInv, StorageOK, RegistryInv, VaultOK
<1>7. /\ QueueOK' /\ OrderInv' /\ RevisionInv' /\ RevisedInv' /\ FifoInv'
  BY <1>1, <1>2, QueueKept, FifoKept
<1>8. HoldInv' /\ HomeInv'
  <2>1. Handles' = Handles /\ live' = live /\ Len(queue') = 0
    BY <1>1, <1>2, EmptySeq DEF Handles
  <2>2. \A s \in Slots : storage'[s].session = 0
    BY <1>5
  <2> QED
    BY <1>3, <2>1, <2>2 DEF HoldInv, HomeInv
<1>9. SessionsOK' /\ GateOK' /\ LiveInv' /\ StorageOK' /\ RegistryInv' /\ StoreInv' /\ MailOK' /\ CaptureInSession'
  BY <1>1, <1>2, <1>6, WorkerKept, MailKept
<1>10. PhaseInv'
  BY <1>1, <1>2 DEF IInv, PhaseInv
<1>11. CleanInv'
  BY <1>1, <1>2, <1>5, CleanKept
<1>12. HeldInv'
  <2>1. MailStays
    BY <1>3, CurrentMail, Zenon DEF MailStays
  <2>2. MailHonest'
    BY <1>1, <1>2, <2>1, MailHeld
  <2> QED
    BY <1>1, <2>2, Zenon DEF HeldInv, MailHonest, IInv, PhaseInv
<1>13. CountInv'
  BY <1>1, HoldingKept DEF Holding, Jobs, Queued
<1> QED
  BY <1>2, <1>7, <1>8, <1>9, <1>10, <1>11, <1>12, <1>13 DEF IInv

(* A reply is appended to the mailbox, or its job is settled.              *)
LEMMA PostReplyStep == ASSUME IInv, PostReply PROVE IInv'
<1> DEFINE m == [job |-> job, gen |-> result]
<1>1. /\ phase = "reply" /\ phase' = "wait" /\ job' = 0 /\ result' = 0
      /\ IF IsVisible(job) THEN mailbox' = Append(mailbox, m) /\ UNCHANGED jobs
                           ELSE Settle(job, "dropped") /\ UNCHANGED mailbox
      /\ IF jobs[job].kind = "clear" THEN UNCHANGED count ELSE Release(job)
      /\ UNCHANGED <<uiVars, queue, storage, resetPending, registry, ghosts>>
  BY Zenon DEF PostReply
<1>2. PhaseInv /\ job # 0 /\ job \in Jobs /\ result \in 0..Len(registry.maker)
  BY <1>1, LenFact DEF IInv, PhaseInv
<1>3. UNCHANGED <<info, live, revision, gate, cleared, discarded, entries>>
  BY <1>1 DEF uiVars, ghosts
<1>4. JobsOK' /\ SameJobs
  <2>1. CASE IsVisible(job)
    BY <1>1, <1>3, <2>1, KeptJobs DEF IInv
  <2>2. CASE ~IsVisible(job)
    BY <1>1, <1>2, <1>3, <2>2, SettleFacts DEF IInv
  <2> QED
    BY <2>1, <2>2
<1>5. GrownMakers
  BY <1>1, LenFact DEF GrownMakers
<1>6. SlotsHonest
  BY <1>1, <1>5, SlotFact DEF SlotsHonest, IInv, StorageOK, RegistryInv
<1>7. /\ QueueOK' /\ OrderInv' /\ RevisionInv' /\ RevisedInv' /\ HoldInv' /\ HomeInv'
      /\ \A x \in Handles : ClearDue(x) => DueNext(x)
  BY <1>1, <1>3, <1>4, <1>5, QueueKept, SessionsKept
<1>8. SessionsOK' /\ GateOK' /\ LiveInv' /\ StorageOK' /\ RegistryInv' /\ StoreInv'
  BY <1>1, <1>3, <1>6, WorkerKept
<1>9. PhaseInv'
  BY <1>1, <1>4, LenFact DEF PhaseInv, SameJobs
<1>10. m \in [job: Jobs, gen: 0..Len(registry.maker)] /\ m.job = job /\ m.gen = result
  BY <1>2
<1> HIDE DEF m
<1>11. /\ Len(mailbox') \in Nat /\ mailbox' \in Seq([job: Jobs, gen: 0..Len(registry.maker)])
       /\ \A i \in 1..Len(mailbox') :
            (i \in 1..Len(mailbox) /\ mailbox'[i] = mailbox[i]) \/ mailbox'[i] = m
  <2> DEFINE R == [job: Jobs, gen: 0..Len(registry.maker)]
  <2>1. mailbox \in Seq(R) /\ Len(mailbox) \in Nat
    BY LenFact DEF IInv, MailOK
  <2>2. m \in R
    BY <1>10
  <2> HIDE DEF R
  <2>3. CASE IsVisible(job)
    <3>1. mailbox' = Append(mailbox, m)
      BY <1>1, <2>3
    <3>2. /\ mailbox' \in Seq(R) /\ Len(mailbox') = Len(mailbox) + 1
          /\ \A i \in 1..Len(mailbox) : mailbox'[i] = mailbox[i]
          /\ mailbox'[Len(mailbox) + 1] = m
      BY <2>1, <2>2, <3>1, AppendProperties
    <3>3. \A i \in 1..(Len(mailbox) + 1) : i \in 1..Len(mailbox) \/ i = Len(mailbox) + 1
      BY <2>1
    <3> QED
      BY <2>1, <3>2, <3>3 DEF R
  <2>4. CASE ~IsVisible(job)
    BY <1>1, <2>1, <2>4 DEF R
  <2> QED
    BY <2>3, <2>4
<1>12. MailOK' /\ CaptureInSession'
  <2>1. Jobs' = Jobs
    BY <1>4 DEF SameJobs, Jobs
  <2> QED
    BY <1>1, <1>3, <1>4, <1>5, <1>11, <2>1, EntriesKept DEF MailOK
<1>13. FifoInv'
  <2>1. FifoInv /\ \A k \in 1..Len(queue) : IsJob(queue[k]) => job < queue[k].id
    BY DEF IInv, FifoInv
  <2>2. \A k \in 1..Len(queue) : queue[k].id \in Nat
    BY TaskFact
  <2>3. \A k \in 1..Len(queue) : IsJob(queue[k]) =>
           /\ 0 < queue[k].id
           /\ \A i \in 1..Len(mailbox') : mailbox'[i].job < queue[k].id
    <3> SUFFICES ASSUME NEW k \in 1..Len(queue), IsJob(queue[k])
                 PROVE  0 < queue[k].id /\ \A i \in 1..Len(mailbox') : mailbox'[i].job < queue[k].id
      OBVIOUS
    <3>1. job < queue[k].id /\ \A i \in 1..Len(mailbox) : mailbox[i].job < queue[k].id
      BY DEF IInv, FifoInv
    <3>2. job \in Nat \ {0}
      BY <1>2, JobFact
    <3>3. \A i \in 1..Len(mailbox') : mailbox'[i].job < queue[k].id
      BY <1>10, <1>11, <3>1
    <3>4. queue[k].id \in Nat
      BY <2>2
    <3> QED
      BY <3>1, <3>2, <3>3, <3>4
  <2> QED
    BY <1>1, <2>1, <2>3 DEF FifoInv, IsJob
<1>14. CleanInv'
  <2>1. \A t \in Slots : storage[t].session # 0 /\ live[storage[t].session]
            /\ ~DueNext(storage[t].session) => Clean(storage[t].session, storage[t])
    BY <1>7, SlotFact DEF IInv, CleanInv
  <2> QED
    BY <1>1, <1>3, <1>4, <2>1, CleanKept
<1>15. HeldInv'
  <2>1. ASSUME NEW i \in 1..Len(mailbox'), mailbox'[i].gen # 0, IsCurrent(mailbox[i].job)'
        PROVE  Held(mailbox[i].job, mailbox[i].gen)'
    <3> DEFINE j == mailbox'[i].job
    <3>1. j \in Jobs
      BY <1>2, <1>10, <1>11, MailFact
    <3>2. IsCurrent(j)
      BY <1>3, <1>4, <2>1, <3>1 DEF IsCurrent, Current, SameJobs
    <3>3. Held(j, mailbox'[i].gen)
      BY <1>2, <1>10, <1>11, <2>1, <3>2 DEF IInv, HeldInv
    <3> QED
      BY <1>1, <1>3, <1>4, <3>1, <3>3, Zenon DEF Held, SameJobs
  <2> QED
    BY <1>1, <2>1 DEF HeldInv
<1>16. CountInv'
  <2>1. \A i \in Jobs : Queued(i)' <=> Queued(i)
    BY <1>1 DEF Queued
  <2>2. \A i \in Jobs : (i = job \/ Queued(i))' <=> (i = job \/ Queued(i)) /\ i # job
    <3>1. ~Queued(job)
      BY <1>2, JobFact DEF Queued, IInv, FifoInv, IsJob
    <3> QED
      BY <1>1, <2>1, <3>1, JobFact
  <2>3. CASE jobs[job].kind = "clear"
    <3>1. \A k \in Kinds : Holding(k)' = Holding(k)
      BY <1>4, <2>2, <2>3 DEF Holding, SameJobs, Jobs, Kinds
    <3> QED
      BY <1>1, <2>3, <3>1, HoldingKept
  <2>4. CASE jobs[job].kind # "clear"
    <3>1. jobs[job].kind \in Kinds
      BY <1>2, <2>4, JobFact DEF JobRec
    <3> QED
      BY <1>1, <1>2, <1>4, <2>2, <2>4, <3>1, HoldingReleased
  <2> QED
    BY <2>3, <2>4
<1> QED
  BY <1>4, <1>7, <1>8, <1>9, <1>12, <1>13, <1>14, <1>15, <1>16, Zenon DEF IInv

LEMMA DeliverStep == ASSUME IInv, Deliver PROVE IInv'
<1> DEFINE j == Head(mailbox).job
<1>1. /\ mailbox # <<>> /\ mailbox' = Tail(mailbox)
      /\ Settle(j, IF IsVisible(j) THEN "shown" ELSE "dropped")
      /\ UNCHANGED <<uiVars, count, queue, workerVars, ghosts>>
  BY Zenon DEF Deliver
<1>2. UNCHANGED <<info, live, revision, gate, cleared, discarded, entries, phase, job, result,
                  storage, resetPending, registry>>
  BY <1>1 DEF uiVars, ghosts, workerVars
<1>3. mailbox \in Seq([job: Jobs, gen: 0..Len(registry.maker)]) /\ Len(mailbox) \in Nat
  BY LenFact DEF IInv, MailOK
<1>4. /\ Head(mailbox) = mailbox[1] /\ 1 \in 1..Len(mailbox)
      /\ mailbox' \in Seq([job: Jobs, gen: 0..Len(registry.maker)])
      /\ Len(mailbox') = Len(mailbox) - 1 /\ Len(mailbox') \in Nat
      /\ \A i \in 1..Len(mailbox') : i + 1 \in 1..Len(mailbox) /\ mailbox'[i] = mailbox[i + 1]
  <2>1. /\ Head(mailbox) = mailbox[1] /\ mailbox' \in Seq([job: Jobs, gen: 0..Len(registry.maker)])
        /\ Len(mailbox') = Len(mailbox) - 1
        /\ \A i \in 1..Len(mailbox') : mailbox'[i] = mailbox[i + 1]
    BY <1>1, <1>3, HeadTailProperties
  <2>2. Len(mailbox) # 0
    BY <1>1, <1>3, EmptySeq
  <2> QED
    BY <1>3, <2>1, <2>2
<1>5. JobsOK' /\ SameJobs
  <2>1. j \in Jobs
    BY <1>4, MailFact
  <2>2. CASE IsVisible(j)
    BY <1>1, <1>2, <2>1, <2>2, SettleFacts DEF IInv
  <2>3. CASE ~IsVisible(j)
    BY <1>1, <1>2, <2>1, <2>3, SettleFacts DEF IInv
  <2> QED
    BY <2>2, <2>3
<1> HIDE DEF j
<1>6. GrownMakers
  BY <1>2, LenFact DEF GrownMakers
<1>7. SlotsHonest
  BY <1>2, <1>6, SlotFact DEF SlotsHonest, IInv, StorageOK, RegistryInv
<1>8. /\ QueueOK' /\ OrderInv' /\ RevisionInv' /\ RevisedInv' /\ HoldInv' /\ HomeInv'
      /\ \A x \in Handles : ClearDue(x) => DueNext(x)
  BY <1>1, <1>2, <1>5, <1>6, QueueKept, SessionsKept
<1>9. SessionsOK' /\ GateOK' /\ LiveInv' /\ StorageOK' /\ RegistryInv' /\ StoreInv'
  BY <1>1, <1>2, <1>7, WorkerKept
<1>10. PhaseInv'
  BY <1>2, <1>5, LenFact DEF IInv, PhaseInv, SameJobs, Jobs
<1>11. MailOK' /\ CaptureInSession'
  <2>1. Jobs' = Jobs
    BY <1>5 DEF SameJobs, Jobs
  <2> QED
    BY <1>2, <1>4, <1>5, <1>6, <2>1, EntriesKept DEF MailOK
<1>12. FifoInv'
  <2>1. FifoInv /\ queue' = queue
    BY <1>1 DEF IInv
  <2>2. \A k \in 1..Len(queue) : IsJob(queue[k]) =>
           \A i \in 1..Len(mailbox') : mailbox'[i].job < queue[k].id
    BY <1>4, <2>1 DEF FifoInv
  <2>3. \A i \in 1..Len(mailbox') : job # 0 => mailbox'[i].job < job
    BY <1>4, <2>1 DEF FifoInv
  <2> QED
    BY <1>2, <2>1, <2>2, <2>3 DEF FifoInv, IsJob
<1>13. CleanInv'
  <2>1. \A t \in Slots : storage[t].session # 0 /\ live[storage[t].session]
            /\ ~DueNext(storage[t].session) => Clean(storage[t].session, storage[t])
    BY <1>8, SlotFact DEF IInv, CleanInv
  <2> QED
    BY <1>1, <1>2, <1>5, <2>1, CleanKept
<1>14. HeldInv'
  <2>1. ASSUME NEW i \in 1..Len(mailbox'), mailbox'[i].gen # 0, IsCurrent(mailbox[i].job)'
        PROVE  Held(mailbox[i].job, mailbox[i].gen)'
    <3> DEFINE x == mailbox'[i].job
    <3>1. x \in Jobs /\ i + 1 \in 1..Len(mailbox) /\ mailbox'[i] = mailbox[i + 1]
      BY <1>4, MailFact
    <3>2. IsCurrent(x)
      BY <1>2, <1>5, <2>1, <3>1 DEF IsCurrent, Current, SameJobs
    <3>3. Held(x, mailbox'[i].gen)
      BY <2>1, <3>1, <3>2 DEF IInv, HeldInv
    <3> QED
      BY <1>2, <1>5, <3>1, <3>3, Zenon DEF Held, SameJobs
  <2>2. /\ phase' \in {"open", "add", "commit"} => (storage[info[jobs[job].handle].slot].session = jobs[job].handle)'
        /\ (result # 0 => Held(job, result))'
    <3>1. job \in Jobs => jobs'[job].handle = jobs[job].handle
      BY <1>5 DEF SameJobs
    <3>2. phase \in {"open", "add", "commit"} \/ result # 0 => job \in Jobs
      BY LenFact DEF IInv, PhaseInv
    <3> QED
      BY <1>2, <3>1, <3>2, Zenon DEF IInv, HeldInv, Held
  <2> QED
    BY <2>1, <2>2, Zenon DEF HeldInv
<1>15. CountInv'
  BY <1>1, <1>2, <1>5, HoldingKept DEF Holding, SameJobs, Jobs, Queued
<1> QED
  BY <1>5, <1>8, <1>9, <1>10, <1>11, <1>12, <1>13, <1>14, <1>15, Zenon DEF IInv

(* A clear that is current is the last of its session's jobs.              *)
LEMMA ClearTaskStep == ASSUME IInv, ClearTask PROVE IInv'
<1> DEFINE j == Head(queue).id
           h == jobs[j].handle
           s == info[h].slot
           o == [storage[s] EXCEPT !.clear = TRUE]
<1>1. /\ queue # <<>> /\ queue' = Tail(queue) /\ phase = "wait" /\ Head(queue).kind = "clear"
      /\ UNCHANGED <<uiVars, count, mailbox, ghosts>>
  BY Zenon DEF ClearTask, Take
<1> DEFINE Stale == Settle(j, "dropped")
                    /\ UNCHANGED <<phase, job, result, storage, resetPending, registry>>
           Runs == /\ job' = j /\ phase' = "reply" /\ UNCHANGED jobs
                   /\ \E w \in StoreOutcomes(h, World(o)) :
                         Become(s, w) /\ result' = IF w.ok THEN w.slot.vault ELSE 0
<1>0. IF ~IsCurrent(j) THEN Stale ELSE Runs
  BY ZenonT(30) DEF ClearTask, Take
<1>16. (Stale => Settle(j, "dropped") /\ job' = job) /\ (Runs => job' = j /\ UNCHANGED jobs)
  BY Zenon
<1> HIDE DEF Stale, Runs
<1>2. /\ Head(queue) = queue[1] /\ 1 \in 1..Len(queue) /\ IsJob(Head(queue))
  BY <1>1, TakenFacts DEF IsJob
<1>3. j \in Jobs /\ jobs[j].kind = "clear"
  BY <1>1, <1>2, TaskFact
<1>4. j # 0 /\ h \in Handles
  BY <1>3, JobFact
<1>5. s \in Slots /\ h # 0
  BY <1>4, HandleFact
<1>6. UNCHANGED <<info, live, revision, gate, cleared, discarded, entries>>
  BY <1>1 DEF uiVars, ghosts
<1>7. job = 0 /\ result = 0
  BY <1>1 DEF IInv, PhaseInv
<1>8. IsCurrent(j) => live[h] /\ jobs[j].revision = revision[h]
  BY DEF IsCurrent, Current
<1>9. JobsOK' /\ SameJobs
  <2>1. CASE IsCurrent(j)
    BY <1>0, <1>16, <1>6, <2>1, KeptJobs DEF IInv
  <2>2. CASE ~IsCurrent(j)
    BY <1>0, <1>16, <1>3, <1>6, <2>2, SettleFacts DEF IInv
  <2> QED
    BY <2>1, <2>2
<1>10. ASSUME IsCurrent(j) PROVE storage[s].session = h
  <2>1. AttachedIn(storage, queue, h, 1)
    BY <1>2, <1>8, <1>10 DEF IInv, HomeInv
  <2> QED
    BY <2>1 DEF AttachedIn
<1>11. job' = job \/ (IsJob(Head(queue)) /\ job' = Head(queue).id)
  BY <1>0, <1>16, <1>2
<1>12. CountInv'
  <2>1. \A i \in Jobs : Queued(i)' <=> Queued(i)
    BY <1>1, TakeQueued
  <2>2. \A i \in Jobs : jobs[i].kind # "clear" => ((i = job \/ Queued(i))' <=> (i = job \/ Queued(i)))
    BY <1>3, <1>7, <1>11, <2>1, JobFact
  <2>3. \A k \in Kinds : Holding(k)' = Holding(k)
    BY <1>9, <2>2 DEF Holding, SameJobs, Jobs, Kinds
  <2> QED
    BY <1>1, <2>3, HoldingKept
<1>13. CASE ~IsCurrent(j)
  <2>1. Settle(j, "dropped") /\ UNCHANGED <<phase, job, result, storage, resetPending, registry>>
    BY <1>0, <1>13, Zenon DEF Stale
  <2>2. SlotsHonest /\ GrownMakers
    BY <1>6, <2>1, LenFact, SlotFact DEF SlotsHonest, IInv, StorageOK, RegistryInv, GrownMakers
  <2>3. KeepsSessions
    BY <1>1, <2>1 DEF KeepsSessions
  <2>4. /\ QueueOK' /\ OrderInv' /\ FifoInv' /\ RevisionInv' /\ HoldInv' /\ HomeInv' /\ RevisedInv'
        /\ \A x \in Handles : ClearDue(x) => DueNext(x) \/ (h = x /\ jobs[j].revision = revision[x])
    BY <1>1, <1>6, <1>9, <1>11, <2>2, <2>3, TakeQueue, TakeSlots, TakeRevised
  <2>5. SessionsOK' /\ GateOK' /\ LiveInv' /\ StorageOK' /\ RegistryInv' /\ StoreInv' /\ MailOK' /\ CaptureInSession'
    BY <1>1, <1>6, <1>9, <2>2, WorkerKept, MailKept
  <2>6. PhaseInv'
    BY <1>9, <2>1 DEF IInv, PhaseInv, SameJobs, Jobs
  <2>7. CleanInv'
    <3>1. ASSUME NEW t \in Slots, storage[t].session # 0, live[storage[t].session],
                 ~DueNext(storage[t].session)
          PROVE  Clean(storage[t].session, storage[t])
      <4>1. ~(h = storage[t].session /\ jobs[j].revision = revision[h])
        <5> SUFFICES ASSUME h = storage[t].session, jobs[j].revision = revision[h] PROVE FALSE
          OBVIOUS
        <5>1. live[h] /\ gate.alive
          BY <1>4, <3>1 DEF IInv, LiveInv
        <5> QED
          BY <1>13, <5>1 DEF IsCurrent, Current
      <4>2. storage[t].session \in Handles
        BY <3>1, SlotFact
      <4>3. ~ClearDue(storage[t].session)
        BY <2>4, <3>1, <4>1, <4>2
      <4> QED
        BY <3>1, <4>3 DEF IInv, CleanInv
    <3> QED
      BY <1>1, <1>6, <1>9, <2>1, <3>1, CleanKept
  <2>8. HeldInv'
    <3>1. MailHonest'
      BY <1>1, <1>9, <2>1, MailHeld DEF MailStays
    <3> QED
      BY <1>7, <1>1, <2>1, <3>1, Zenon DEF HeldInv, MailHonest
  <2> QED
    BY <1>9, <1>12, <2>4, <2>5, <2>6, <2>7, <2>8, Zenon DEF IInv
<1>14. CASE IsCurrent(j)
  <2>1. PICK w \in StoreOutcomes(h, World(o)) :
           Become(s, w) /\ result' = IF w.ok THEN w.slot.vault ELSE 0
    BY <1>0, <1>14, Zenon DEF Runs
  <2>2. job' = j /\ phase' = "reply" /\ UNCHANGED jobs
    BY <1>0, <1>14, Zenon DEF Runs
  <2>3. /\ o \in SlotSet /\ o.session = h /\ o.clear /\ o.recovery = storage[s].recovery
        /\ VaultOK(s, storage[s], registry, resetPending)
    BY <1>5, <1>10, <1>14, SlotInSet, SlotFact DEF SlotSet
  <2> HIDE DEF o
  <2>4. Good(Entered(o), h)
    <3>1. /\ World(o) \in WorldRec /\ Sound(World(o).reg) /\ World(o).slot = o
          /\ World(o).pending = resetPending /\ World(o).reg = registry
      BY <2>3, WorldFacts
    <3> DEFINE x == Emptied(World(o))
    <3>2. /\ x \in WorldRec /\ x.reg = registry /\ x.slot.vault = 0 /\ x.slot.archive = "none"
          /\ x.slot.session = h
      BY <2>3, <3>1, EmptiedFacts
    <3> HIDE DEF x
    <3>3. Good(x, h)
      BY <1>5, <3>1, <3>2, LenFact DEF Good, VaultOK
    <3> QED
      BY <2>3, <3>3 DEF Entered, x
  <2> HIDE DEF h, s, j
  <2>5. /\ Honest(w, s) /\ w.slot.session = h /\ w.slot \in SlotSet
        /\ Clean(h, w.slot)
    BY <1>4, <2>1, <2>3, <2>4, StoreRun DEF s
  <2>6. /\ SlotsHonest /\ GrownMakers
        /\ \A t \in Slots : storage'[t] = IF t = s THEN w.slot ELSE storage[t]
    BY <1>5, <2>1, <2>5, BecomeHonest DEF SlotsHonest
  <2>7. KeepsSessions
    <3>1. \A t \in Slots : storage'[t].session = storage[t].session
      BY <1>10, <1>14, <2>5, <2>6
    <3> QED
      BY <1>1, <3>1, HandleFact DEF KeepsSessions
  <2>8. /\ QueueOK' /\ OrderInv' /\ FifoInv' /\ RevisionInv' /\ HoldInv' /\ HomeInv' /\ RevisedInv'
        /\ \A x \in Handles : ClearDue(x) => DueNext(x) \/ h = x
    BY <1>1, <1>6, <1>9, <1>11, <2>6, <2>7, TakeQueue, TakeSlots, TakeRevised DEF h, j
  <2>9. SessionsOK' /\ GateOK' /\ LiveInv' /\ StorageOK' /\ RegistryInv' /\ StoreInv' /\ MailOK' /\ CaptureInSession'
    BY <1>1, <1>6, <1>9, <2>6, WorkerKept, MailKept
  <2>10. PhaseInv'
    <3>1. registry' = w.reg /\ w.slot.vault \in 0..Len(w.reg.maker) /\ 0 \in 0..Len(w.reg.maker)
      <4>1. w.slot.vault \in Nat /\ Len(w.reg.maker) \in Nat /\ w.reg.active[s] \in 0..Len(w.reg.maker)
        BY <1>5, <2>5, LenProperties DEF Honest, Sound, RegRec, WorldRec, SlotSet
      <4> QED
        BY <2>1, <2>5, <4>1 DEF Become, Honest, VaultOK
    <3>2. result' \in 0..Len(registry'.maker)
      BY <2>1, <3>1
    <3>3. j \in 0..Len(jobs)
      BY <1>3, LenFact DEF Jobs
    <3> QED
      BY <1>4, <2>2, <3>2, <3>3 DEF PhaseInv
  <2>11. CleanInv'
    <3>1. \A t \in Slots : storage'[t].session # 0 /\ live[storage'[t].session]
              /\ ~DueNext(storage'[t].session) => Clean(storage'[t].session, storage'[t])
      <4>1. ASSUME NEW t \in Slots, t # s, storage[t].session # 0, live[storage[t].session],
                   ~DueNext(storage[t].session)
            PROVE  Clean(storage[t].session, storage[t])
        <5>1. storage[t].session # h
          BY <1>5, <4>1, SlotFact DEF VaultOK, s
        <5>2. storage[t].session \in Handles
          BY <4>1, SlotFact
        <5>3. ~ClearDue(storage[t].session)
          BY <2>8, <4>1, <5>1, <5>2
        <5> QED
          BY <4>1, <5>3 DEF IInv, CleanInv
      <4> QED
        BY <2>5, <2>6, <4>1
    <3> QED
      BY <1>1, <1>6, <1>9, <3>1, CleanKept
  <2>12. HeldInv'
    <3>1. ASSUME NEW i \in 1..Len(mailbox), mailbox[i].gen # 0, IsCurrent(mailbox[i].job)
          PROVE  LET t == info[jobs[mailbox[i].job].handle].slot IN
                 storage'[t].session = storage[t].session /\ storage'[t].vault = storage[t].vault
      <4> DEFINE k == mailbox[i].job
                 t == info[jobs[k].handle].slot
      <4>1. k \in Jobs /\ t \in Slots /\ storage[t].session = jobs[k].handle
        BY <3>1, CurrentMail
      <4>2. k < j
        BY <1>2 DEF IInv, FifoInv, j
      <4>3. jobs[k].handle = h => jobs[k].revision < jobs[j].revision
        BY <1>3, <4>1, <4>2 DEF IInv, RevisionInv, h
      <4>4. jobs[k].revision = revision[jobs[k].handle] /\ jobs[k].revision \in Nat
        BY <3>1, <4>1, JobFact DEF IsCurrent, Current
      <4>5. jobs[k].handle # h
        BY <1>8, <1>14, <4>3, <4>4 DEF h
      <4>6. t # s
        BY <1>10, <1>14, <4>1, <4>5
      <4> QED
        BY <2>6, <4>1, <4>6
    <3>2. MailStays
      BY <3>1, Zenon DEF MailStays
    <3>3. MailHonest'
      BY <1>1, <1>9, <3>2, MailHeld
    <3>4. storage'[s].session = h /\ storage'[s].vault = w.slot.vault
      BY <1>5, <2>5, <2>6
    <3>5. result' # 0 => result' = w.slot.vault
      BY <2>1
    <3>6. (result # 0 => Held(job, result))'
      BY <1>6, <2>2, <3>4, <3>5 DEF Held, h, s
    <3> QED
      BY <2>2, <3>3, <3>6, Zenon DEF HeldInv, MailHonest
  <2> QED
    BY <1>9, <1>12, <2>8, <2>9, <2>10, <2>11, <2>12, Zenon DEF IInv
<1> QED
  BY <1>13, <1>14

----------------------------------------------------------------------------
(* The UI thread *)

(* A step of the UI thread that admits no job: sessions may be made and    *)
(* end, and tasks for them are queued.                                     *)
SessionStep ==
    /\ UNCHANGED <<count, phase, job, result, storage, resetPending, registry, mailbox, jobs,
                   entries, discarded>>
    /\ info' \in Seq(Info) /\ Len(info') \in Nat /\ Len(info) <= Len(info')
    /\ \A h \in Handles :
         /\ info'[h] = info[h] /\ cleared'[h] = cleared[h]
         /\ live'[h] => live[h] /\ revision'[h] = revision[h]
         /\ revision'[h] \in Nat /\ revision[h] <= revision'[h]
    /\ gate'.alive => gate.alive

(* The tasks there were stay where they are, ahead of the new ones.        *)
QueueGrows ==
    /\ queue' \in Seq(TaskRec) /\ Len(queue') \in Nat /\ Len(queue) <= Len(queue')
    /\ \A i \in 1..Len(queue) : queue'[i] = queue[i]

NoNewJobs == \A i \in 1..Len(queue') : IsJob(queue'[i]) => i \in 1..Len(queue)

LEMMA SessionTypes ==
    ASSUME IInv, SessionStep
    PROVE  /\ JobsOK' /\ StorageOK' /\ RegistryInv' /\ MailOK' /\ PhaseInv' /\ StoreInv'
           /\ Handles \subseteq Handles' /\ Handles = 1..Len(info)
<1>1. /\ Handles \subseteq Handles' /\ Handles = 1..Len(info) /\ Len(info) \in Nat
      /\ Len(info') \in Nat /\ Len(info) <= Len(info')
      /\ UNCHANGED <<phase, job, result, storage, resetPending, registry, mailbox, jobs, entries, discarded>>
      /\ \A h \in Handles : info'[h] = info[h]
  BY LenFact DEF SessionStep, Handles
<1>2. JobsOK'
  <2>1. JobRec \subseteq JobRec'
    BY <1>1 DEF JobRec
  <2>2. jobs \in Seq(JobRec)
    BY DEF IInv, JobsOK
  <2>3. jobs \in Seq(JobRec')
    BY <2>1, <2>2, SeqMonotonic
  <2> QED
    BY <1>1, <2>3 DEF JobsOK
<1>3. StorageOK'
  <2>1. \A s \in Slots : storage[s] \in SlotRec(Len(info'), Len(registry.maker))
    BY <1>1, SlotFact, LenFact DEF SlotRec
  <2>2. storage = [s \in Slots |-> storage[s]]
    BY DEF IInv, StorageOK
  <2>3. storage \in [Slots -> SlotRec(Len(info'), Len(registry.maker))]
    BY <2>1, <2>2
  <2> QED
    BY <1>1, <2>3 DEF IInv, StorageOK, SlotRec
<1>4. Sound(registry) /\ registry \in RegRec /\ Len(registry.maker) \in Nat
  BY LenFact DEF IInv, RegistryInv, Sound
<1>5. \A g \in 1..Len(registry.maker) : registry.maker[g] \in Handles
  BY <1>4, ElementOfSeq DEF RegRec
<1>6. RegistryInv'
  <2>1. registry.maker \in Seq(Handles) /\ registry.maker \in Seq(Handles')
    BY <1>1, <1>4, SeqMonotonic DEF RegRec
  <2>2. registry \in RegRec'
    BY <1>4, <2>1 DEF RegRec
  <2>3. \A s \in Slots : registry.active[s] # 0 => registry.active[s] \in 1..Len(registry.maker)
    BY <1>4 DEF Sound
  <2>4. \A s \in Slots : registry.active[s] # 0 => info'[registry.maker[registry.active[s]]].slot = s
    BY <1>1, <1>4, <1>5, <2>3 DEF Sound
  <2> QED
    BY <1>1, <1>4, <2>2, <2>4 DEF RegistryInv, Sound
<1>7. MailOK'
  BY <1>1 DEF IInv, MailOK, Jobs, Generations
<1>8. PhaseInv'
  BY <1>1 DEF IInv, PhaseInv
<1>9. StoreInv'
  <2> SUFFICES ASSUME NEW s \in Slots PROVE VaultOK(s, storage[s], registry, resetPending)'
    BY DEF StoreInv
  <2>1. /\ VaultOK(s, storage[s], registry, resetPending)
        /\ storage[s].session # 0 => storage[s].session \in Handles
        /\ storage[s].vault # 0 => storage[s].vault \in Generations
    BY SlotFact
  <2>2. storage[s].vault # 0 => registry.maker[storage[s].vault] \in Handles
    BY <1>5, <2>1 DEF Generations
  <2> QED
    BY <1>1, <2>1, <2>2 DEF VaultOK
<1> QED
  BY <1>1, <1>2, <1>3, <1>6, <1>7, <1>8, <1>9

LEMMA SessionJobs ==
    ASSUME IInv, SessionStep, QueueGrows, NoNewJobs
    PROVE  /\ FifoInv' /\ RevisionInv' /\ HeldInv' /\ CaptureInSession' /\ CountInv' /\ CleanInv'
           /\ \A h \in Handles : live'[h] /\ ClearDue(h) => DueNext(h)
<1>1. /\ Handles \subseteq Handles' /\ Len(queue') \in Nat /\ Len(queue) \in Nat
      /\ Len(queue) <= Len(queue') /\ (\A i \in 1..Len(queue) : queue'[i] = queue[i])
      /\ UNCHANGED <<count, phase, job, result, storage, resetPending, registry, mailbox, jobs,
                     entries, discarded>>
  BY SessionTypes, LenFact, Zenon DEF SessionStep, QueueGrows
<1>2. \A i \in 1..Len(queue') : IsJob(queue'[i]) => i \in 1..Len(queue) /\ queue'[i] = queue[i]
                                                    /\ IsJob(queue[i])
  BY <1>1 DEF NoNewJobs
<1>3. FifoInv'
  <2>1. FifoInv
    BY DEF IInv
  <2>2. \A i, k \in 1..Len(queue') :
           i < k /\ IsJob(queue'[i]) /\ IsJob(queue'[k]) => queue'[i].id < queue'[k].id
    BY <1>2, <2>1 DEF FifoInv
  <2>3. \A k \in 1..Len(queue') : IsJob(queue'[k]) =>
           job < queue'[k].id /\ \A i \in 1..Len(mailbox) : mailbox[i].job < queue'[k].id
    BY <1>2, <2>1 DEF FifoInv
  <2> QED
    BY <1>1, <2>1, <2>2, <2>3 DEF FifoInv, IsJob
<1>4. RevisionInv'
  <2>1. \A j \in Jobs : jobs[j].revision <= revision'[jobs[j].handle]
    <3> SUFFICES ASSUME NEW j \in Jobs PROVE jobs[j].revision <= revision'[jobs[j].handle]
      OBVIOUS
    <3>1. jobs[j].handle \in Handles /\ jobs[j].revision \in Nat
      BY JobFact
    <3>2. jobs[j].revision <= revision[jobs[j].handle]
      BY DEF IInv, RevisionInv
    <3>3. revision[jobs[j].handle] \in Nat
      BY <3>1, HandleFact
    <3> QED
      BY <3>1, <3>2, <3>3 DEF SessionStep
  <2> QED
    BY <1>1, <2>1 DEF IInv, RevisionInv, Jobs
<1>5. \A j \in Jobs : jobs[j].handle \in Handles /\ (IsCurrent(j)' => IsCurrent(j))
  <2> SUFFICES ASSUME NEW j \in Jobs PROVE jobs[j].handle \in Handles /\ (IsCurrent(j)' => IsCurrent(j))
    OBVIOUS
  <2>1. jobs[j].handle \in Handles
    BY JobFact
  <2> QED
    BY <1>1, <2>1 DEF SessionStep, IsCurrent, Current
<1>6. \A j \in Jobs : \A g : Held(j, g) => Held(j, g)'
  BY <1>1, <1>5, SMTT(30) DEF Held, SessionStep
<1>7. HeldInv'
  <2>1. \A i \in 1..Len(mailbox) : (mailbox[i].gen # 0 /\ IsCurrent(mailbox[i].job)
                                      => Held(mailbox[i].job, mailbox[i].gen))'
    <3> SUFFICES ASSUME NEW i \in 1..Len(mailbox), (mailbox[i].gen # 0 /\ IsCurrent(mailbox[i].job))'
                 PROVE  Held(mailbox[i].job, mailbox[i].gen)'
      BY Zenon
    <3>1. mailbox[i].job \in Jobs /\ mailbox' = mailbox
      BY <1>1, MailFact
    <3>2. IsCurrent(mailbox[i].job)
      BY <1>5, <3>1 DEF IsCurrent
    <3>3. Held(mailbox[i].job, mailbox[i].gen)
      BY <3>1, <3>2 DEF IInv, HeldInv
    <3> QED
      BY <1>6, <3>1, <3>3, Zenon DEF Held
  <2>2. result # 0 \/ phase \in {"open", "add", "commit"} => job \in Jobs
    BY LenFact DEF IInv, PhaseInv
  <2>3. /\ phase' \in {"open", "add", "commit"} => (storage[info[jobs[job].handle].slot].session = jobs[job].handle)'
        /\ (result # 0 => Held(job, result))'
    BY <1>1, <1>5, <2>2 DEF IInv, HeldInv, Held, SessionStep
  <2> QED
    BY <1>1, <2>1, <2>3, Zenon DEF HeldInv
<1>8. CaptureInSession'
  <2>1. \A e \in entries : e.job \in Jobs /\ e.gen \in Generations
    BY DEF IInv, MailOK
  <2>2. \A g \in Generations : registry.maker[g] \in Handles
    BY Facts, ElementOfSeq DEF Generations
  <2> QED
    BY <1>1, <1>5, <2>1, <2>2 DEF IInv, CaptureInSession, LoginOf, SessionStep
<1>9. CountInv'
  <2>1. \A j : Queued(j)' <=> Queued(j)
    <3>1. \A i \in 1..Len(queue') : queue'[i].kind = "job" => i \in 1..Len(queue) /\ queue'[i] = queue[i]
      BY <1>2 DEF IsJob
    <3>2. \A i \in 1..Len(queue) : i \in 1..Len(queue')
      BY <1>1
    <3> QED
      BY <1>1, <3>1, <3>2 DEF Queued
  <2> QED
    BY <1>1, <2>1, HoldingKept DEF Holding, Jobs
<1>10. \A h \in Handles : live'[h] /\ ClearDue(h) => DueNext(h)
  <2>1. \A i \in 1..Len(queue) : i \in 1..Len(queue')
    BY <1>1
  <2> QED
    BY <1>1, <2>1 DEF ClearDue, DueNext, SessionStep
<1>11. CleanInv'
  <2>1. ASSUME NEW s \in Slots, storage[s].session # 0, live'[storage[s].session],
               ~DueNext(storage[s].session)
        PROVE  Clean(storage[s].session, storage[s])'
    <3> DEFINE h == storage[s].session
    <3>1. h \in Handles
      BY <2>1, SlotFact
    <3>2. live[h] /\ revision'[h] = revision[h] /\ cleared'[h] = cleared[h]
      BY <2>1, <3>1 DEF SessionStep
    <3>3. ~ClearDue(h)
      BY <1>10, <2>1, <3>1
    <3>4. Clean(h, storage[s])
      BY <2>1, <3>2, <3>3 DEF IInv, CleanInv
    <3>5. UNCHANGED <<jobs, entries, storage>>
      BY <1>1
    <3> QED
      BY <3>2, <3>4, <3>5 DEF Clean, Uncleared
  <2> QED
    BY <1>1, <2>1 DEF CleanInv, ClearDue, DueNext
<1> QED
  BY <1>3, <1>4, <1>7, <1>8, <1>9, <1>10, <1>11

(* Ends, in the next state.                                                *)
EndsNext(t, h) ==
    \/ t.kind = "forget"
    \/ t.kind = "detach" /\ t.id = h
    \/ t.kind = "attach" /\ info'[t.id].slot = info'[h].slot

(* The new tasks end no session that is live, but the one they replace.    *)
NewTasks ==
    /\ \A i \in 1..Len(queue') : i \notin 1..Len(queue) =>
         /\ queue'[i].kind \in {"attach", "detach"} => queue'[i].id \in Handles'
         /\ \A h \in Handles : live'[h] => ~EndsNext(queue'[i], h)
         /\ queue'[i].kind = "attach" => i = Len(queue') /\ queue'[i].id \in Handles' \ Handles
    /\ \A h \in Handles' \ Handles :
         /\ revision'[h] = 0 /\ cleared'[h] = 0
         /\ Len(queue') \in 1..Len(queue')
         /\ queue'[Len(queue')].kind = "attach" /\ queue'[Len(queue')].id = h

LEMMA SessionQueue ==
    ASSUME IInv, SessionStep, QueueGrows, NoNewJobs, NewTasks
    PROVE  QueueOK' /\ HoldInv' /\ OrderInv' /\ HomeInv' /\ RevisedInv'
<1>1. /\ Handles \subseteq Handles' /\ Len(queue') \in Nat /\ Len(queue) \in Nat
      /\ Len(queue) <= Len(queue') /\ (\A i \in 1..Len(queue) : queue'[i] = queue[i])
      /\ UNCHANGED <<job, storage, registry, mailbox, jobs, entries, discarded>>
      /\ queue' \in Seq(TaskRec)
      /\ \A h \in Handles : info'[h] = info[h] /\ (live'[h] => live[h])
  BY SessionTypes, LenFact, Zenon DEF SessionStep, QueueGrows
<1>2. \A i \in 1..Len(queue') : IsJob(queue'[i]) => i \in 1..Len(queue) /\ queue'[i] = queue[i]
                                                    /\ IsJob(queue[i])
  BY <1>1 DEF NoNewJobs
<1>3. \A i \in 1..Len(queue) : i \in 1..Len(queue')
  BY <1>1
<1>4. QueueOK'
  <2>1. ASSUME NEW i \in 1..Len(queue')
        PROVE  /\ queue'[i].kind \in {"attach", "detach"} => queue'[i].id \in Handles'
               /\ queue'[i].kind \in {"clear", "job"} =>
                    queue'[i].id \in Jobs /\ (queue'[i].kind = "clear" <=> jobs[queue'[i].id].kind = "clear")
    <3>1. CASE i \in 1..Len(queue)
      <4>1. queue'[i] = queue[i]
        BY <1>1, <3>1
      <4>2. /\ queue[i].kind \in {"attach", "detach"} => queue[i].id \in Handles
            /\ IsJob(queue[i]) => queue[i].id \in Jobs
            /\ IsJob(queue[i]) => (queue[i].kind = "clear" <=> jobs[queue[i].id].kind = "clear")
        BY <3>1, TaskFact
      <4> QED
        BY <1>1, <4>1, <4>2 DEF IsJob
    <3>2. CASE i \notin 1..Len(queue)
      BY <1>2, <3>2 DEF NewTasks, IsJob
    <3> QED
      BY <3>1, <3>2
  <2> QED
    BY <1>1, <2>1 DEF QueueOK, Meant, Jobs
<1>5. \A i \in 1..Len(queue) : \A h \in Handles : Ends(queue[i], h) <=> EndsNext(queue'[i], h)
  <2> SUFFICES ASSUME NEW i \in 1..Len(queue), NEW h \in Handles
               PROVE  Ends(queue[i], h) <=> EndsNext(queue'[i], h)
    OBVIOUS
  <2>1. queue'[i] = queue[i] /\ (queue[i].kind = "attach" => queue[i].id \in Handles)
    BY <1>1, TaskFact
  <2> QED
    BY <1>1, <2>1 DEF Ends, EndsNext
<1>6. HoldInv'
  <2>1. ASSUME NEW s \in Slots, storage[s].session # 0, live'[storage[s].session],
               NEW i \in 1..Len(queue')
        PROVE  ~EndsNext(queue'[i], storage[s].session)
    <3>1. storage[s].session \in Handles
      BY <2>1, SlotFact
    <3>2. CASE i \in 1..Len(queue)
      BY <1>1, <1>5, <2>1, <3>1, <3>2 DEF IInv, HoldInv
    <3>3. CASE i \notin 1..Len(queue)
      BY <2>1, <3>1, <3>3 DEF NewTasks
    <3> QED
      BY <3>2, <3>3
  <2> QED
    BY <1>1, <2>1 DEF HoldInv, Ends, EndsNext
<1>7. OrderInv'
  <2>1. ASSUME NEW i \in 1..Len(queue'), NEW k \in 1..Len(queue'), i < k,
               queue'[i].kind = "attach", live'[queue'[i].id]
        PROVE  ~EndsNext(queue'[k], queue'[i].id)
    <3>1. i \in 1..Len(queue)
      BY <1>1, <2>1 DEF NewTasks
    <3>2. queue'[i] = queue[i] /\ queue'[i].id \in Handles
      BY <1>1, <2>1, <3>1, TaskFact
    <3>3. CASE k \in 1..Len(queue)
      BY <1>1, <1>5, <2>1, <3>1, <3>2, <3>3 DEF IInv, OrderInv
    <3>4. CASE k \notin 1..Len(queue)
      BY <2>1, <3>2, <3>4 DEF NewTasks
    <3> QED
      BY <3>3, <3>4
  <2> QED
    BY <2>1 DEF OrderInv, Ends, EndsNext
<1>8. \A h \in Handles : \A k : AttachedIn(storage, queue, h, k) => AttachedIn(storage, queue, h, k)'
  BY <1>1, <1>3 DEF AttachedIn
<1>9. HomeInv'
  <2>1. ASSUME NEW h \in Handles', live'[h] PROVE AttachedIn(storage, queue, h, Len(queue) + 1)'
    <3>1. CASE h \in Handles
      <4>1. AttachedIn(storage, queue, h, Len(queue) + 1)
        BY <1>1, <2>1, <3>1 DEF IInv, HomeInv
      <4>2. \A i \in 1..Len(queue) : i \in 1..Len(queue') /\ i < Len(queue') + 1
        BY <1>1
      <4> QED
        BY <1>1, <3>1, <4>1, <4>2 DEF AttachedIn
    <3>2. CASE h \notin Handles
      <4>1. /\ Len(queue') \in 1..Len(queue') /\ Len(queue') < Len(queue') + 1
            /\ queue'[Len(queue')].kind = "attach" /\ queue'[Len(queue')].id = h
        BY <1>1, <2>1, <3>2 DEF NewTasks
      <4> QED
        BY <4>1 DEF AttachedIn
    <3> QED
      BY <3>1, <3>2
  <2>2. ASSUME NEW k \in 1..Len(queue'), IsJob(queue'[k]), live'[jobs[queue'[k].id].handle]
        PROVE  AttachedIn(storage', queue', jobs[queue'[k].id].handle, k)
    <3>1. k \in 1..Len(queue) /\ queue'[k] = queue[k] /\ IsJob(queue[k])
      BY <1>2, <2>2
    <3>2. queue[k].id \in Jobs /\ jobs[queue[k].id].handle \in Handles
      BY <3>1, TaskFact, JobFact
    <3>3. AttachedIn(storage, queue, jobs[queue[k].id].handle, k)
      BY <1>1, <2>2, <3>1, <3>2 DEF IInv, HomeInv
    <3> QED
      BY <1>1, <1>3, <3>1, <3>2, <3>3 DEF AttachedIn
  <2>3. \A k \in 1..Len(queue') : IsJob(queue[k])' /\ live'[jobs'[queue'[k].id].handle]
           => AttachedIn(storage, queue, jobs[queue[k].id].handle, k)'
    <3> SUFFICES ASSUME NEW k \in 1..Len(queue'), IsJob(queue[k])', live'[jobs'[queue'[k].id].handle]
                 PROVE  AttachedIn(storage, queue, jobs[queue[k].id].handle, k)'
      BY Zenon
    <3>1. IsJob(queue'[k]) /\ jobs' = jobs
      BY <1>1 DEF IsJob
    <3>2. queue[k].id \in Jobs /\ jobs[queue[k].id].handle \in Handles /\ queue'[k] = queue[k]
      BY <1>2, <3>1, TaskFact, JobFact
    <3>3. AttachedIn(storage', queue', jobs[queue'[k].id].handle, k)
      BY <2>2, <3>1
    <3> QED
      BY <1>1, <3>2, <3>3 DEF AttachedIn
  <2> QED
    BY <2>1, <2>3, Zenon DEF HomeInv
<1>10. RevisedInv'
  <2>1. \A h \in Handles : live'[h] /\ ClearDue(h) => DueNext(h)
    BY SessionJobs
  <2>2. ASSUME NEW j \in Jobs, live'[jobs[j].handle], Unsettled(j)',
               jobs[j].revision < revision'[jobs[j].handle]
        PROVE  DueNext(jobs[j].handle)
    <3>1. jobs[j].handle \in Handles
      BY JobFact
    <3>2. Unsettled(j)
      BY <1>1, <1>2, <2>2 DEF Unsettled, IsJob
    <3>3. revision'[jobs[j].handle] = revision[jobs[j].handle] /\ live[jobs[j].handle]
      BY <2>2, <3>1 DEF SessionStep
    <3>4. ClearDue(jobs[j].handle)
      BY <2>2, <3>2, <3>3 DEF IInv, RevisedInv
    <3> QED
      BY <2>1, <2>2, <3>1, <3>4
  <2>3. ASSUME NEW h \in Handles'
        PROVE  cleared'[h] <= Len(registry.maker) /\ (revision'[h] = 0 => cleared'[h] = 0)
    <3>1. CASE h \in Handles
      <4>1. revision[h] \in Nat /\ cleared[h] \in Nat /\ cleared[h] <= Len(registry.maker)
            /\ (revision[h] = 0 => cleared[h] = 0)
        BY <3>1, HandleFact DEF IInv, RevisedInv
      <4>2. cleared'[h] = cleared[h] /\ revision'[h] \in Nat /\ revision[h] <= revision'[h]
        BY <3>1 DEF SessionStep
      <4> QED
        BY <4>1, <4>2
    <3>2. CASE h \notin Handles
      BY <3>2, LenFact DEF NewTasks
    <3> QED
      BY <3>1, <3>2
  <2>4. ASSUME NEW k \in 1..Len(queue'), queue'[k].kind = "attach", live'[queue'[k].id]
        PROVE  revision'[queue'[k].id] = 0 \/ DueNext(queue'[k].id)
    <3>1. CASE k \in 1..Len(queue)
      <4> DEFINE h == queue[k].id
      <4>1. queue'[k] = queue[k] /\ h \in Handles
        BY <1>1, <2>4, <3>1, TaskFact
      <4>2. live[h] /\ revision'[h] = revision[h]
        BY <2>4, <4>1 DEF SessionStep
      <4>3. revision[h] = 0 \/ ClearDue(h)
        BY <2>4, <3>1, <4>1, <4>2 DEF IInv, RevisedInv
      <4> QED
        BY <2>1, <2>4, <4>1, <4>2, <4>3
    <3>2. CASE k \notin 1..Len(queue)
      BY <2>4, <3>2 DEF NewTasks
    <3> QED
      BY <3>1, <3>2
  <2>5. \A j \in Jobs' : (live[jobs[j].handle] /\ Unsettled(j)
                           /\ jobs[j].revision < revision[jobs[j].handle])' => ClearDue(jobs[j].handle)'
    BY <1>1, <2>2 DEF ClearDue, DueNext, Jobs
  <2>6. \A k \in 1..Len(queue') : (queue[k].kind = "attach" /\ live[queue[k].id])'
           => (revision[queue[k].id] = 0 \/ ClearDue(queue[k].id))'
    BY <2>4 DEF ClearDue, DueNext
  <2> QED
    BY <1>1, <2>3, <2>5, <2>6 DEF RevisedInv
<1> QED
  BY <1>4, <1>6, <1>7, <1>9, <1>10

LEMMA SessionDone ==
    ASSUME IInv, SessionStep, QueueGrows, NoNewJobs, NewTasks, SessionsOK', GateOK', LiveInv'
    PROVE  IInv'
  BY SessionTypes, SessionJobs, SessionQueue, Zenon DEF IInv

(* No session is made, and no task queued.                                 *)
LEMMA SameSessions ==
    ASSUME IInv, UNCHANGED <<info, queue>>
    PROVE  QueueGrows /\ NoNewJobs /\ NewTasks
<1>1. Len(queue) \in Nat /\ queue \in Seq(TaskRec) /\ Handles' = Handles
  BY LenFact DEF IInv, QueueOK, Handles
<1> QED
  BY <1>1 DEF QueueGrows, NoNewJobs, NewTasks

(* One task is queued, that is not an attach and not a job.                *)
LEMMA OneTask ==
    ASSUME IInv, UNCHANGED info, NEW t \in TaskRec, queue' = Append(queue, t),
           ~IsJob(t), t.kind # "attach", t.kind = "detach" => t.id \in Handles,
           \A h \in Handles : live'[h] => t.kind # "forget" /\ ~(t.kind = "detach" /\ t.id = h)
    PROVE  QueueGrows /\ NoNewJobs /\ NewTasks
<1>1. Len(queue) \in Nat /\ queue \in Seq(TaskRec) /\ Handles' = Handles
  BY LenFact DEF IInv, QueueOK, Handles
<1>2. /\ queue' \in Seq(TaskRec) /\ Len(queue') = Len(queue) + 1
      /\ \A i \in 1..Len(queue) : queue'[i] = queue[i]
      /\ queue'[Len(queue) + 1] = t
  BY <1>1, AppendProperties
<1>3. \A i \in 1..Len(queue') : i \in 1..Len(queue) \/ queue'[i] = t
  BY <1>1, <1>2
<1>4. QueueGrows
  BY <1>1, <1>2 DEF QueueGrows
<1>5. NoNewJobs
  BY <1>3 DEF NoNewJobs
<1>6. NewTasks
  BY <1>1, <1>3 DEF NewTasks, EndsNext
<1> QED
  BY <1>4, <1>5, <1>6

LEMMA DetachStep == ASSUME IInv, NEW h \in Handles, NEW out \in BOOLEAN, Detach(h, out) PROVE IInv'
<1> DEFINE t == Task("detach", h, out)
<1>1. /\ gate.alive /\ sessions[info[h].slot] = h
      /\ live' = [live EXCEPT ![h] = FALSE] /\ revision' = [revision EXCEPT ![h] = @ + 1]
      /\ sessions' = [sessions EXCEPT ![info[h].slot] = 0]
      /\ queue' = Append(queue, t)
      /\ UNCHANGED <<info, enabled, gate, switching, count, workerVars, mailbox, jobs, ghosts>>
  BY DEF Detach, OnUi
<1>2. SessionsOK /\ GateOK /\ LiveInv /\ Len(info) \in Nat /\ Handles' = Handles
  BY <1>1, LenFact DEF IInv, Handles
<1>3. \A x \in Handles : live'[x] => live[x] /\ x # h
  BY <1>1, <1>2 DEF SessionsOK
<1>4. \A x \in Handles : /\ revision'[x] \in Nat /\ revision[x] <= revision'[x]
                         /\ x # h => revision'[x] = revision[x]
  BY <1>1, <1>2 DEF SessionsOK
<1>5. SessionStep
  BY <1>1, <1>2, <1>3, <1>4 DEF SessionStep, SessionsOK, workerVars, ghosts
<1>6. QueueGrows /\ NoNewJobs /\ NewTasks
  <2>1. h \in Nat
    BY <1>2 DEF Handles
  <2>2. t \in TaskRec /\ ~IsJob(t) /\ t.kind = "detach" /\ t.id = h
    BY <2>1 DEF Task, TaskRec, IsJob
  <2> HIDE DEF t
  <2> QED
    BY <1>1, <1>3, <2>2, OneTask
<1>7. SessionsOK'
  <2>1. info[h].slot \in Slots /\ 0 \in 0..Len(info)
    BY <1>2, HandleFact
  <2> QED
    BY <1>1, <1>2, <2>1 DEF SessionsOK, ghosts
<1>8. GateOK'
  BY <1>1, <1>2 DEF GateOK
<1>9. LiveInv'
  BY <1>1, <1>2, <1>3, HandleFact DEF LiveInv, SessionsOK
<1> QED
  BY <1>5, <1>6, <1>7, <1>8, <1>9, SessionDone

LEMMA ForgetAllStep == ASSUME IInv, ForgetAll PROVE IInv'
<1> DEFINE t == Task("forget", 0, FALSE)
<1>1. /\ gate.alive /\ gate' = [gate EXCEPT !.epoch = @ + 1]
      /\ live' = [h \in Handles |-> live[h] /\ \A s \in Slots : sessions[s] # h]
      /\ sessions' = [s \in Slots |-> 0]
      /\ queue' = Append(queue, t)
      /\ UNCHANGED <<info, enabled, revision, switching, count, workerVars, mailbox, jobs, ghosts>>
  BY DEF ForgetAll, OnUi
<1>2. SessionsOK /\ GateOK /\ LiveInv /\ Len(info) \in Nat /\ Handles' = Handles
  BY <1>1, LenFact DEF IInv, Handles
<1>3. \A h \in Handles : ~live'[h]
  <2> SUFFICES ASSUME NEW h \in Handles, live'[h] PROVE FALSE
    OBVIOUS
  <2>1. live[h] /\ \A s \in Slots : sessions[s] # h
    BY <1>1
  <2> QED
    BY <1>2, <2>1, HandleFact DEF LiveInv
<1>4. SessionStep
  <2>1. gate'.alive = gate.alive
    BY <1>1, <1>2 DEF GateOK
  <2>2. \A h \in Handles : revision'[h] = revision[h] /\ revision[h] \in Nat /\ revision[h] <= revision[h]
    BY <1>1, <1>2 DEF SessionsOK
  <2> QED
    BY <1>1, <1>2, <1>3, <2>1, <2>2 DEF SessionStep, SessionsOK, workerVars, ghosts
<1>5. QueueGrows /\ NoNewJobs /\ NewTasks
  <2>1. t \in TaskRec /\ ~IsJob(t) /\ t.kind = "forget"
    BY DEF Task, TaskRec, IsJob
  <2> HIDE DEF t
  <2> QED
    BY <1>1, <1>3, <2>1, OneTask
<1>6. SessionsOK'
  <2>1. live' \in [Handles -> BOOLEAN]
    BY <1>1
  <2>2. sessions' \in [Slots -> 0..Len(info)]
    BY <1>1, <1>2
  <2> QED
    BY <1>1, <1>2, <2>1, <2>2 DEF SessionsOK, ghosts
<1>7. GateOK'
  BY <1>1, <1>2 DEF GateOK
<1>8. LiveInv'
  BY <1>2, <1>3 DEF LiveInv
<1> QED
  BY <1>4, <1>5, <1>6, <1>7, <1>8, SessionDone

LEMMA DestroyStep == ASSUME IInv, Destroy PROVE IInv'
<1>1. /\ gate.alive /\ gate' = [gate EXCEPT !.alive = FALSE]
      /\ live' = [h \in Handles |-> live[h] /\ \A s \in Slots : sessions[s] # h]
      /\ UNCHANGED <<info, sessions, enabled, revision, switching, count, queue, workerVars,
                     mailbox, jobs, ghosts>>
  BY DEF Destroy, OnUi
<1>2. SessionsOK /\ GateOK /\ LiveInv /\ Len(info) \in Nat /\ Handles' = Handles
  BY <1>1, LenFact DEF IInv, Handles
<1>3. \A h \in Handles : ~live'[h]
  <2> SUFFICES ASSUME NEW h \in Handles, live'[h] PROVE FALSE
    OBVIOUS
  <2>1. live[h] /\ \A s \in Slots : sessions[s] # h
    BY <1>1
  <2> QED
    BY <1>2, <2>1, HandleFact DEF LiveInv
<1>4. SessionStep
  <2>1. \A h \in Handles : revision'[h] = revision[h] /\ revision[h] \in Nat /\ revision[h] <= revision[h]
    BY <1>1, <1>2 DEF SessionsOK
  <2> QED
    BY <1>1, <1>2, <1>3, <2>1 DEF SessionStep, SessionsOK, workerVars, ghosts
<1>5. QueueGrows /\ NoNewJobs /\ NewTasks
  BY <1>1, SameSessions
<1>6. SessionsOK'
  <2>1. live' \in [Handles -> BOOLEAN]
    BY <1>1
  <2> QED
    BY <1>1, <1>2, <2>1 DEF SessionsOK, ghosts
<1>7. GateOK'
  BY <1>1, <1>2 DEF GateOK
<1>8. LiveInv'
  BY <1>2, <1>3 DEF LiveInv
<1> QED
  BY <1>4, <1>5, <1>6, <1>7, <1>8, SessionDone

(* Locking, and the switch to record.                                      *)
LEMMA SwitchStep ==
    ASSUME IInv, (\E locked \in BOOLEAN : SetLocked(locked)) \/ BumpEpoch
                 \/ (\E h \in Handles, value \in BOOLEAN : SetEnabled(h, value))
    PROVE  IInv'
<1>1. SessionsOK /\ GateOK /\ LiveInv /\ Len(info) \in Nat
  BY LenFact DEF IInv
<1>2. UNCHANGED <<info, sessions, live, revision, count, queue, workerVars, mailbox, jobs, ghosts>>
  BY DEF SetLocked, BumpEpoch, SetEnabled
<1>3. GateOK' /\ gate'.alive = gate.alive
  <2>1. ASSUME NEW locked \in BOOLEAN, SetLocked(locked)
        PROVE  GateOK' /\ gate'.alive = gate.alive
    <3>1. gate' = [gate EXCEPT !.locked = locked] /\ switching' = TRUE
      BY <2>1 DEF SetLocked
    <3> QED
      BY <1>1, <3>1 DEF GateOK
  <2>2. CASE BumpEpoch
    <3>1. gate' = [gate EXCEPT !.epoch = @ + 1] /\ switching' = FALSE
      BY <2>2 DEF BumpEpoch
    <3>2. gate.epoch \in Nat /\ gate.epoch + 1 \in Nat
      BY <1>1 DEF GateOK
    <3> DEFINE n == gate.epoch + 1
    <3>3. gate' = [gate EXCEPT !.epoch = n] /\ n \in Nat
      BY <3>1, <3>2
    <3> HIDE DEF n
    <3> QED
      BY <1>1, <3>1, <3>3 DEF GateOK
  <2>3. ASSUME NEW h \in Handles, NEW value \in BOOLEAN, SetEnabled(h, value)
        PROVE  GateOK' /\ gate'.alive = gate.alive
    BY <1>1, <2>3 DEF SetEnabled, GateOK
  <2> QED
    BY <2>1, <2>2, <2>3
<1>4. enabled' \in [Handles -> BOOLEAN]
  BY <1>1 DEF SetLocked, BumpEpoch, SetEnabled, SessionsOK
<1>5. SessionStep
  <2>1. \A h \in Handles : revision[h] \in Nat /\ revision[h] <= revision[h]
    BY <1>1 DEF SessionsOK
  <2> QED
    BY <1>1, <1>2, <1>3, <2>1 DEF SessionStep, SessionsOK, workerVars, ghosts
<1>6. QueueGrows /\ NoNewJobs /\ NewTasks
  BY <1>2, SameSessions
<1>7. SessionsOK'
  BY <1>1, <1>2, <1>4 DEF SessionsOK, ghosts, Handles
<1>8. LiveInv'
  BY <1>1, <1>2, <1>3 DEF LiveInv, Handles
<1> QED
  BY <1>3, <1>5, <1>6, <1>7, <1>8, SessionDone

(* A function on the handles is a sequence, so that one can be appended.   *)
LEMMA HandleMap ==
    ASSUME IInv, NEW S, NEW f \in [Handles -> S], NEW v \in S
    PROVE  /\ Append(f, v) \in [1..Len(info) + 1 -> S]
           /\ Append(f, v)[Len(info) + 1] = v
           /\ \A h \in Handles : Append(f, v)[h] = f[h]
<1>1. Len(info) \in Nat /\ Handles = 1..Len(info)
  BY LenFact DEF Handles
<1>2. f \in Seq(S)
  BY <1>1, SeqDef
<1>3. Len(f) = Len(info)
  BY <1>1, <1>2, LenProperties
<1>4. Append(f, v) \in Seq(S) /\ Len(Append(f, v)) = Len(info) + 1
  BY <1>2, <1>3, AppendProperties
<1>5. Append(f, v) \in [1..Len(Append(f, v)) -> S]
  BY <1>4, LenProperties
<1>6. /\ \A h \in 1..Len(f) : Append(f, v)[h] = f[h]
      /\ Append(f, v)[Len(f) + 1] = v
  BY <1>2, AppendProperties
<1> QED
  BY <1>1, <1>3, <1>4, <1>5, <1>6

LEMMA AttachStep ==
    ASSUME IInv, NEW s \in Slots, NEW login \in Logins, NEW fresh \in BOOLEAN,
           Attach(s, login, fresh)
    PROVE  IInv'
<1> DEFINE old == sessions[s]
           h   == Len(info) + 1
           new == [slot |-> s, login |-> login, fresh |-> fresh]
           t   == Task("attach", h, FALSE)
           u   == Task("detach", old, FALSE)
           q   == IF old = 0 THEN queue ELSE Append(queue, u)
<1>1. /\ gate.alive /\ info' = Append(info, new)
      /\ live' = [i \in 1..h |-> IF i = h THEN TRUE ELSE live[i] /\ i # old]
      /\ revision' = [i \in 1..h |-> IF i = h THEN 0
                                     ELSE IF i = old THEN revision[i] + 1 ELSE revision[i]]
      /\ enabled' = Append(enabled, FALSE) /\ cleared' = Append(cleared, 0)
      /\ sessions' = [sessions EXCEPT ![s] = h]
      /\ queue' = q \o <<t>>
      /\ UNCHANGED <<gate, switching, count, phase, job, result, storage, resetPending, registry,
                     mailbox, jobs, entries, discarded>>
  BY DEF Attach, OnUi, workerVars
<1>2. /\ SessionsOK /\ GateOK /\ LiveInv /\ Len(info) \in Nat /\ Handles = 1..Len(info)
      /\ Len(queue) \in Nat /\ queue \in Seq(TaskRec) /\ info \in Seq(Info)
      /\ old \in 0..Len(info)
  BY LenFact DEF IInv, Handles, SessionsOK, QueueOK
<1>3. new \in Info /\ new.slot = s
  BY DEF Info
<1>4. t \in TaskRec /\ t.kind = "attach" /\ t.id = h
  BY <1>2 DEF Task, TaskRec
<1>5. u \in TaskRec /\ u.kind = "detach" /\ u.id = old
  BY <1>2 DEF Task, TaskRec
<1>6. h \in Nat /\ h \notin Handles /\ h # old
      /\ \A i \in 1..h : i \in Handles \/ i = h
  BY <1>2
<1>7. \A i \in Handles : i \in 1..h /\ i # h
  BY <1>2
<1> HIDE DEF new, t, u
<1>8. /\ info' \in Seq(Info) /\ Len(info') = h /\ info'[h] = new
      /\ \A i \in Handles : info'[i] = info[i]
  BY <1>1, <1>2, <1>3, AppendProperties
<1>9. Handles' = 1..h
  BY <1>8 DEF Handles
<1>10. /\ \A i \in Handles : live'[i] <=> live[i] /\ i # old
       /\ live'[h]
  <2>1. h \in 1..h
    BY <1>2
  <2> QED
    BY <1>1, <1>7, <2>1, Zenon
<1>11. /\ revision'[h] = 0
       /\ \A i \in Handles : /\ revision'[i] \in Nat /\ revision[i] <= revision'[i]
                             /\ i # old => revision'[i] = revision[i]
  BY <1>1, <1>2, <1>6, <1>7, HandleFact
<1>12. /\ cleared' \in [1..h -> Nat] /\ cleared'[h] = 0
       /\ \A i \in Handles : cleared'[i] = cleared[i]
  <2> DEFINE N == Nat
             z == 0
  <2>1. cleared \in [Handles -> N] /\ z \in N
    BY <1>2 DEF SessionsOK
  <2> HIDE DEF N, z
  <2>2. Append(cleared, z) \in [1..h -> N]
    BY <2>1, HandleMap
  <2>3. Append(cleared, z)[h] = z
    <3>1. cleared \in Seq(N)
      BY <1>2, <2>1, SeqDef
    <3>2. Len(cleared) = Len(info)
      BY <1>2, <2>1, <3>1, LenProperties
    <3> QED
      BY <2>1, <3>1, <3>2, AppendProperties
  <2>4. \A i \in Handles : Append(cleared, z)[i] = cleared[i]
    BY <2>1, HandleMap
  <2> QED
    BY <1>1, <2>2, <2>3, <2>4 DEF N, z
<1>13. enabled' \in [1..h -> BOOLEAN]
  <2>1. enabled \in [Handles -> BOOLEAN] /\ FALSE \in BOOLEAN
    BY <1>2 DEF SessionsOK
  <2> QED
    BY <1>1, <2>1, HandleMap
<1>14. live' \in [1..h -> BOOLEAN]
  <2>1. \A i \in 1..h : (IF i = h THEN TRUE ELSE live[i] /\ i # old) \in BOOLEAN
    OBVIOUS
  <2> QED
    BY <1>1, <2>1, Zenon
<1>15. revision' \in [1..h -> Nat]
  <2>1. \A i \in 1..h : (IF i = h THEN 0 ELSE IF i = old THEN revision[i] + 1 ELSE revision[i]) \in Nat
    BY <1>6, HandleFact
  <2> QED
    BY <1>1, <2>1, Zenon
<1>16. sessions' \in [Slots -> 0..h] /\ sessions'[s] = h
       /\ \A r \in Slots : r # s => sessions'[r] = sessions[r]
  BY <1>1, <1>2, <1>6 DEF SessionsOK
<1>17. SessionsOK'
  BY <1>8, <1>9, <1>12, <1>13, <1>14, <1>15, <1>16 DEF SessionsOK, Info
<1>18. GateOK'
  BY <1>1, <1>2 DEF GateOK
<1>19. SessionStep
  <2>1. Len(info') \in Nat /\ Len(info) <= Len(info')
    BY <1>2, <1>8
  <2> QED
    BY <1>1, <1>2, <1>8, <1>10, <1>11, <1>12, <2>1 DEF SessionStep
<1>20. LiveInv'
  <2>1. ASSUME NEW i \in 1..h, live'[i] PROVE gate.alive /\ sessions'[info'[i].slot] = i
    <3>1. CASE i = h
      BY <1>1, <1>3, <1>8, <1>16, <3>1
    <3>2. CASE i \in Handles
      <4>1. live[i] /\ i # old /\ sessions[info[i].slot] = i /\ info[i].slot \in Slots
        BY <1>2, <1>10, <2>1, <3>2, HandleFact DEF LiveInv
      <4>2. info[i].slot # s
        BY <4>1
      <4> QED
        BY <1>1, <1>8, <1>16, <3>2, <4>1, <4>2
    <3> QED
      BY <1>6, <2>1, <3>1, <3>2
  <2> QED
    BY <1>1, <1>9, <2>1 DEF LiveInv
<1>21. /\ q \in Seq(TaskRec) /\ Len(q) \in Nat /\ Len(queue) <= Len(q)
       /\ \A i \in 1..Len(queue) : q[i] = queue[i] /\ i \in 1..Len(q)
       /\ \A i \in 1..Len(q) : i \in 1..Len(queue) \/ (q[i] = u /\ old # 0)
  <2>1. CASE old = 0
    BY <1>2, <2>1
  <2>2. CASE old # 0
    <3>1. /\ q \in Seq(TaskRec) /\ Len(q) = Len(queue) + 1
          /\ \A i \in 1..Len(queue) : q[i] = queue[i]
          /\ q[Len(queue) + 1] = u
      BY <1>2, <1>5, <2>2, AppendProperties
    <3>2. \A i \in 1..(Len(queue) + 1) : i \in 1..Len(queue) \/ i = Len(queue) + 1
      BY <1>2
    <3> QED
      BY <1>2, <2>2, <3>1, <3>2
  <2> QED
    BY <2>1, <2>2
<1> HIDE DEF q
<1>22. /\ queue' \in Seq(TaskRec) /\ Len(queue') = Len(q) + 1
       /\ \A i \in 1..Len(q) : queue'[i] = q[i]
       /\ queue'[Len(q) + 1] = t
  <2>1. <<t>> \in Seq(TaskRec) /\ Len(<<t>>) = 1 /\ <<t>>[1] = t
    BY <1>4
  <2> QED
    BY <1>1, <1>21, <2>1, ConcatProperties
<1>23. QueueGrows
  BY <1>2, <1>21, <1>22 DEF QueueGrows
<1>24. \A i \in 1..Len(queue') : \/ i \in 1..Len(queue)
                                 \/ queue'[i] = u /\ old # 0
                                 \/ i = Len(queue') /\ queue'[i] = t
  <2>1. \A i \in 1..(Len(q) + 1) : i \in 1..Len(q) \/ i = Len(q) + 1
    BY <1>21
  <2> QED
    BY <1>21, <1>22, <2>1
<1>25. NoNewJobs
  BY <1>4, <1>5, <1>24 DEF NoNewJobs, IsJob
<1>26. NewTasks
  <2>1. ASSUME NEW i \in 1..Len(queue'), i \notin 1..Len(queue)
        PROVE  /\ queue'[i].kind \in {"attach", "detach"} => queue'[i].id \in Handles'
               /\ queue'[i].kind = "attach" => i = Len(queue') /\ queue'[i].id \in Handles' \ Handles
    BY <1>2, <1>4, <1>5, <1>6, <1>9, <1>24, <2>1
  <2>2. ASSUME NEW i \in 1..Len(queue'), i \notin 1..Len(queue), NEW x \in Handles, live'[x]
        PROVE  ~EndsNext(queue'[i], x)
    <3>1. live[x] /\ x # old /\ sessions[info[x].slot] = x
      BY <1>2, <1>10, <2>2 DEF LiveInv
    <3>2. info[x].slot # s
      BY <3>1
    <3>3. CASE queue'[i] = u
      BY <1>5, <3>1, <3>3 DEF EndsNext
    <3>4. CASE queue'[i] = t
      BY <1>3, <1>4, <1>8, <3>2, <3>4 DEF EndsNext
    <3> QED
      BY <1>24, <2>2, <3>3, <3>4
  <2>3. \A x \in Handles' \ Handles : x = h
    BY <1>6, <1>9
  <2>4. /\ Len(queue') \in 1..Len(queue')
        /\ queue'[Len(queue')] = t
    BY <1>21, <1>22
  <2> QED
    BY <1>4, <1>11, <1>12, <2>1, <2>2, <2>3, <2>4 DEF NewTasks
<1> QED
  BY <1>17, <1>18, <1>19, <1>20, <1>23, <1>25, <1>26, SessionDone

----------------------------------------------------------------------------
(* A job is admitted: Admit and Clear                                      *)

NextJob == Len(jobs) + 1

Place == Len(queue) + 1

(* A job of kind is admitted in session h; a clear revises the session.    *)
Admits(kind, h, rev) ==
    /\ kind \in Kinds \cup {"clear"} /\ rev \in Nat /\ revision[h] <= rev
    /\ IF kind = "clear" THEN revision[h] < rev ELSE rev = revision[h]
    /\ live[h]
    /\ UNCHANGED <<info, sessions, live, enabled, gate, switching, phase, job, result, storage,
                   resetPending, registry, mailbox, entries>>
    /\ revision' = [revision EXCEPT ![h] = rev]
    /\ cleared' \in [Handles -> Nat]
    /\ \A x \in Handles : /\ cleared'[x] <= Len(registry.maker)
                          /\ kind # "clear" \/ x # h => cleared'[x] = cleared[x]
    /\ discarded' \in [Slots -> 0..Len(registry.maker)]
    /\ IF kind = "clear" THEN UNCHANGED count ELSE count' = [count EXCEPT ![kind] = @ + 1]

(* It is the last job, and its task the last one.                          *)
Added(kind, h, rev) ==
    /\ jobs' \in Seq(JobRec) /\ Len(jobs') = NextJob
    /\ \A j \in Jobs : jobs'[j] = jobs[j]
    /\ jobs'[NextJob].kind = kind /\ jobs'[NextJob].handle = h /\ jobs'[NextJob].revision = rev
    /\ queue' \in Seq(TaskRec) /\ Len(queue') = Place
    /\ \A i \in 1..Len(queue) : queue'[i] = queue[i]
    /\ queue'[Place].id = NextJob
    /\ queue'[Place].kind = IF kind = "clear" THEN "clear" ELSE "job"

LEMMA NewJobAdded ==
    ASSUME IInv, NEW kind \in Kinds \cup {"clear"}, NEW h \in Handles, NEW rev \in Nat,
           NewJob(kind, h, rev)
    PROVE  Added(kind, h, rev)
<1> DEFINE r == [kind |-> kind, handle |-> h, revision |-> rev, epoch |-> gate.epoch, state |-> "open"]
           k == IF kind = "clear" THEN "clear" ELSE "job"
           t == Task(k, NextJob, FALSE)
<1>1. jobs' = Append(jobs, r) /\ queue' = Append(queue, t)
  BY DEF NewJob, NextJob
<1>2. /\ jobs \in Seq(JobRec) /\ queue \in Seq(TaskRec) /\ Len(jobs) \in Nat /\ Len(queue) \in Nat
      /\ gate.epoch \in Nat /\ NextJob \in Nat
  BY LenFact DEF IInv, JobsOK, QueueOK, GateOK, NextJob
<1>3. r \in JobRec /\ r.kind = kind /\ r.handle = h /\ r.revision = rev
  BY <1>2 DEF JobRec
<1>4. t \in TaskRec /\ t.id = NextJob /\ t.kind = k
  BY <1>2 DEF Task, TaskRec
<1> HIDE DEF r, t, k
<1>5. /\ jobs' \in Seq(JobRec) /\ Len(jobs') = NextJob
      /\ \A j \in Jobs : jobs'[j] = jobs[j]
      /\ jobs'[NextJob] = r
  BY <1>1, <1>2, <1>3, AppendProperties DEF NextJob, Jobs
<1>6. /\ queue' \in Seq(TaskRec) /\ Len(queue') = Place
      /\ \A i \in 1..Len(queue) : queue'[i] = queue[i]
      /\ queue'[Place] = t
  BY <1>1, <1>2, <1>4, AppendProperties DEF Place
<1> QED
  BY <1>3, <1>4, <1>5, <1>6 DEF Added, k

LEMMA AddedFacts ==
    ASSUME IInv, NEW kind \in Kinds \cup {"clear"}, NEW h \in Handles, NEW rev \in Nat,
           Added(kind, h, rev)
    PROVE  /\ NextJob \in Nat \ {0} /\ NextJob \notin Jobs /\ Jobs' = Jobs \cup {NextJob}
           /\ \A j \in Jobs : j < NextJob /\ j # NextJob /\ j # 0
           /\ Place \in Nat /\ Place \in 1..Len(queue')
           /\ \A i \in 1..Len(queue) : i \in Nat /\ i < Place /\ i # Place /\ i \in 1..Len(queue')
           /\ \A i \in 1..Len(queue') : i \in 1..Len(queue) \/ i = Place
           /\ \A i \in 1..Len(queue') : i < Place => i \in 1..Len(queue)
           /\ IsJob(queue'[Place]) /\ job < NextJob /\ job # NextJob
           /\ (queue'[Place].kind = "clear" <=> kind = "clear")
           /\ queue'[Place].kind \in {"clear", "job"}
<1>1. Len(jobs) \in Nat /\ Len(queue) \in Nat /\ job \in 0..Len(jobs)
  BY LenFact
<1>2. queue'[Place].kind = (IF kind = "clear" THEN "clear" ELSE "job") /\ Len(jobs') = NextJob
      /\ Len(queue') = Place
  BY DEF Added
<1>3. /\ queue'[Place].kind = "clear" <=> kind = "clear"
      /\ queue'[Place].kind \in {"clear", "job"} /\ IsJob(queue'[Place])
  BY <1>2 DEF IsJob
<1> QED
  BY <1>1, <1>2, <1>3 DEF NextJob, Place, Jobs

LEMMA AdmitsTypes ==
    ASSUME IInv, NEW kind, NEW h \in Handles, NEW rev, Admits(kind, h, rev), Added(kind, h, rev)
    PROVE  /\ SessionsOK' /\ GateOK' /\ QueueOK' /\ JobsOK' /\ MailOK' /\ StorageOK' /\ RegistryInv'
           /\ PhaseInv' /\ LiveInv' /\ StoreInv' /\ CaptureInSession' /\ Handles' = Handles
<1>1. kind \in Kinds \cup {"clear"} /\ rev \in Nat
  BY DEF Admits
<1>2. /\ UNCHANGED <<info, sessions, live, enabled, gate, switching, phase, job, result, storage,
                     resetPending, registry, mailbox, entries>>
      /\ revision' = [revision EXCEPT ![h] = rev]
      /\ cleared' \in [Handles -> Nat] /\ discarded' \in [Slots -> 0..Len(registry.maker)]
  BY DEF Admits
<1>3. Handles' = Handles
  BY <1>2 DEF Handles
<1>4. /\ jobs' \in Seq(JobRec) /\ Len(jobs') = NextJob /\ (\A j \in Jobs : jobs'[j] = jobs[j])
      /\ queue' \in Seq(TaskRec) /\ Len(queue') = Place
      /\ \A i \in 1..Len(queue) : queue'[i] = queue[i]
  BY DEF Added
<1>5. /\ Jobs' = Jobs \cup {NextJob} /\ NextJob \in Jobs'
      /\ \A i \in 1..Len(queue') : i \in 1..Len(queue) \/ i = Place
      /\ queue'[Place].kind = "clear" <=> kind = "clear"
      /\ queue'[Place].kind \in {"clear", "job"}
  BY <1>1, AddedFacts
<1>6. SessionsOK'
  BY <1>1, <1>2, <1>3 DEF IInv, SessionsOK
<1>7. GateOK' /\ StorageOK'
  BY <1>2 DEF IInv, GateOK, StorageOK
<1>8. JobsOK'
  BY <1>3, <1>4 DEF JobsOK, JobRec
<1>9. QueueOK'
  <2>1. ASSUME NEW i \in 1..Len(queue')
        PROVE  /\ queue'[i].kind \in {"attach", "detach"} => queue'[i].id \in Handles
               /\ queue'[i].kind \in {"clear", "job"} =>
                    queue'[i].id \in Jobs' /\ (queue'[i].kind = "clear" <=> jobs'[queue'[i].id].kind = "clear")
    <3>1. CASE i \in 1..Len(queue)
      <4>1. queue'[i] = queue[i]
        BY <1>4, <3>1
      <4>2. /\ queue[i].kind \in {"attach", "detach"} => queue[i].id \in Handles
            /\ IsJob(queue[i]) => queue[i].id \in Jobs
            /\ IsJob(queue[i]) => (queue[i].kind = "clear" <=> jobs[queue[i].id].kind = "clear")
        BY <3>1, TaskFact
      <4> QED
        BY <1>4, <1>5, <4>1, <4>2 DEF IsJob
    <3>2. CASE i = Place
      <4>1. queue'[Place].id = NextJob /\ jobs'[NextJob].kind = kind
        BY DEF Added
      <4> QED
        BY <1>5, <3>2, <4>1
    <3> QED
      BY <1>5, <3>1, <3>2
  <2> QED
    BY <1>3, <1>4, <2>1 DEF QueueOK, Meant
<1>10. MailOK'
  <2>1. Jobs \subseteq Jobs'
    BY <1>5
  <2>2. mailbox \in Seq([job: Jobs', gen: 0..Len(registry.maker)])
    <3> DEFINE A == [job: Jobs, gen: 0..Len(registry.maker)]
               B == [job: Jobs', gen: 0..Len(registry.maker)]
    <3>1. A \subseteq B
      BY <2>1
    <3>2. mailbox \in Seq(A)
      BY DEF IInv, MailOK
    <3> HIDE DEF A, B
    <3>3. mailbox \in Seq(B)
      BY <3>1, <3>2, SeqMonotonic
    <3> QED
      BY <3>3 DEF B
  <2>3. entries \subseteq [job: Jobs', gen: Generations]
    BY <2>1 DEF IInv, MailOK
  <2> QED
    BY <1>2, <2>2, <2>3 DEF MailOK, Generations
<1>11. RegistryInv'
  BY <1>2, <1>3 DEF IInv, RegistryInv, Sound, RegRec
<1>12. PhaseInv'
  <2>1. job \in 0..Len(jobs) /\ (job # 0 => job \in Jobs) /\ Len(jobs) \in Nat
    BY LenFact
  <2>2. job \in 0..Len(jobs') /\ (job # 0 => jobs'[job] = jobs[job])
    BY <1>4, <2>1 DEF NextJob
  <2> QED
    BY <1>2, <2>2 DEF IInv, PhaseInv
<1>13. LiveInv'
  BY <1>2, <1>3 DEF IInv, LiveInv
<1>14. StoreInv'
  BY <1>2 DEF IInv, StoreInv, VaultOK
<1>15. CaptureInSession'
  <2>1. \A e \in entries : e.job \in Jobs
    BY DEF IInv, MailOK
  <2> QED
    BY <1>2, <1>4, <2>1 DEF IInv, CaptureInSession, LoginOf
<1> QED
  BY <1>3, <1>6, <1>7, <1>8, <1>9, <1>10, <1>11, <1>12, <1>13, <1>14, <1>15

LEMMA AdmitsQueue ==
    ASSUME IInv, NEW kind, NEW h \in Handles, NEW rev, Admits(kind, h, rev), Added(kind, h, rev)
    PROVE  HoldInv' /\ OrderInv' /\ HomeInv' /\ FifoInv'
<1>1. kind \in Kinds \cup {"clear"} /\ rev \in Nat /\ live[h]
  BY DEF Admits
<1>2. UNCHANGED <<info, live, job, storage, mailbox>> /\ Handles' = Handles
  BY DEF Admits, Handles
<1>3. /\ \A j \in Jobs : jobs'[j] = jobs[j]
      /\ Len(queue') = Place /\ \A i \in 1..Len(queue) : queue'[i] = queue[i]
      /\ queue'[Place].id = NextJob /\ jobs'[NextJob].handle = h
  BY DEF Added
<1>4. /\ Place \in Nat /\ \A i \in 1..Len(queue) : i \in Nat /\ i < Place /\ i \in 1..Len(queue')
      /\ \A i \in 1..Len(queue') : i \in 1..Len(queue) \/ i = Place
      /\ \A i \in 1..Len(queue') : i < Place => i \in 1..Len(queue)
      /\ queue'[Place].kind \in {"clear", "job"} /\ job < NextJob
      /\ \A j \in Jobs : j < NextJob
  BY <1>1, AddedFacts
<1>5. HoldInv'
  BY <1>2, <1>3, <1>4 DEF IInv, HoldInv, Ends
<1>6. OrderInv'
  BY <1>2, <1>3, <1>4 DEF IInv, OrderInv, Ends
<1>7. HomeInv'
  <2>1. ASSUME NEW x, NEW k, AttachedIn(storage, queue, x, k)
        PROVE  AttachedIn(storage', queue', x, k)
    BY <1>2, <1>3, <1>4, <2>1 DEF AttachedIn
  <2>2. ASSUME NEW x, AttachedIn(storage, queue, x, Place)
        PROVE  AttachedIn(storage', queue', x, Place) /\ AttachedIn(storage', queue', x, Place + 1)
    <3>1. \A i \in 1..Len(queue) : i < Place + 1
      BY <1>4
    <3> QED
      BY <1>2, <1>3, <1>4, <2>2, <3>1 DEF AttachedIn
  <2>3. \A x \in Handles : live[x] => AttachedIn(storage, queue, x, Place)
    BY DEF IInv, HomeInv, Place
  <2>4. \A x \in Handles : live[x] => AttachedIn(storage', queue', x, Len(queue') + 1)
    BY <1>3, <2>2, <2>3, Zenon
  <2>5. ASSUME NEW k \in 1..Len(queue'), IsJob(queue'[k]), live[jobs'[queue'[k].id].handle]
        PROVE  AttachedIn(storage', queue', jobs'[queue'[k].id].handle, k)
    <3>1. CASE k \in 1..Len(queue)
      <4>1. queue'[k] = queue[k] /\ queue[k].id \in Jobs
        BY <1>3, <2>5, <3>1, TaskFact
      <4>2. AttachedIn(storage, queue, jobs[queue[k].id].handle, k)
        BY <1>3, <2>5, <3>1, <4>1 DEF IInv, HomeInv
      <4> QED
        BY <1>3, <2>1, <4>1, <4>2
    <3>2. CASE k = Place
      BY <1>1, <1>3, <2>2, <2>3, <3>2
    <3> QED
      BY <1>4, <3>1, <3>2
  <2> QED
    BY <1>2, <2>4, <2>5 DEF HomeInv, AttachedIn, IsJob
<1>8. FifoInv'
  <2>1. FifoInv
    BY DEF IInv
  <2>2. ASSUME NEW i \in 1..Len(queue'), NEW k \in 1..Len(queue'), i < k, IsJob(queue'[i]),
               IsJob(queue'[k])
        PROVE  queue'[i].id < queue'[k].id
    <3>1. CASE k \in 1..Len(queue)
      <4>1. i \in 1..Len(queue)
        BY <1>4, <2>2, <3>1
      <4> QED
        BY <1>3, <2>1, <2>2, <3>1, <4>1 DEF FifoInv
    <3>2. CASE k = Place
      <4>1. i \in 1..Len(queue)
        BY <1>4, <2>2, <3>2
      <4>2. queue[i].id \in Jobs
        BY <1>3, <2>2, <4>1, TaskFact
      <4> QED
        BY <1>3, <1>4, <3>2, <4>1, <4>2
    <3> QED
      BY <1>4, <3>1, <3>2
  <2>3. ASSUME NEW k \in 1..Len(queue'), IsJob(queue'[k])
        PROVE  job < queue'[k].id /\ \A i \in 1..Len(mailbox) : mailbox[i].job < queue'[k].id
    <3>1. CASE k \in 1..Len(queue)
      BY <1>3, <2>1, <2>3, <3>1 DEF FifoInv
    <3>2. CASE k = Place
      BY <1>3, <1>4, <3>2, MailFact
    <3> QED
      BY <1>4, <3>1, <3>2
  <2> QED
    BY <1>2, <2>1, <2>2, <2>3 DEF FifoInv, IsJob
<1> QED
  BY <1>5, <1>6, <1>7, <1>8

LEMMA AdmitsRevised ==
    ASSUME IInv, NEW kind, NEW h \in Handles, NEW rev, Admits(kind, h, rev), Added(kind, h, rev)
    PROVE  /\ RevisionInv' /\ RevisedInv'
           /\ \A x \in Handles : ClearDue(x) /\ ~(kind = "clear" /\ x = h) => DueNext(x)
           /\ kind = "clear" => DueNext(h)
<1>1. kind \in Kinds \cup {"clear"} /\ rev \in Nat /\ live[h] /\ revision[h] <= rev
      /\ revision[h] \in Nat
  BY HandleFact DEF Admits
<1>2. UNCHANGED <<info, live, job, registry>> /\ Handles' = Handles
  BY DEF Admits, Handles
<1>3. /\ \A j \in Jobs : jobs'[j] = jobs[j]
      /\ jobs'[NextJob].kind = kind /\ jobs'[NextJob].handle = h /\ jobs'[NextJob].revision = rev
      /\ Len(queue') = Place /\ \A i \in 1..Len(queue) : queue'[i] = queue[i]
      /\ queue'[Place].id = NextJob
  BY DEF Added
<1>4. /\ Jobs' = Jobs \cup {NextJob} /\ NextJob \notin Jobs /\ NextJob \in Nat
      /\ \A j \in Jobs : j < NextJob /\ j # NextJob /\ j \in Nat
      /\ Place \in 1..Len(queue') /\ \A i \in 1..Len(queue) : i \in 1..Len(queue')
      /\ \A i \in 1..Len(queue') : i \in 1..Len(queue) \/ i = Place
      /\ queue'[Place].kind \in {"clear", "job"} /\ (queue'[Place].kind = "clear" <=> kind = "clear")
      /\ job # NextJob
  BY <1>1, AddedFacts, JobFact
<1>5. /\ revision'[h] = rev
      /\ \A x \in Handles : x # h \/ kind # "clear" => revision'[x] = revision[x]
      /\ \A x \in Handles : revision'[x] \in Nat /\ revision[x] \in Nat /\ revision[x] <= revision'[x]
  <2>1. revision \in [Handles -> Nat] /\ revision' = [revision EXCEPT ![h] = rev]
        /\ (kind # "clear" => rev = revision[h])
    BY DEF Admits, IInv, SessionsOK
  <2> QED
    BY <1>1, <2>1
<1>6. \A j \in Jobs : /\ jobs[j].handle \in Handles /\ jobs[j].revision \in Nat
                      /\ jobs[j].revision <= revision[jobs[j].handle]
  BY JobFact DEF IInv, RevisionInv
<1>7. RevisionInv'
  <2>1. \A j \in Jobs' : jobs'[j].revision <= revision'[jobs'[j].handle]
    <3> SUFFICES ASSUME NEW j \in Jobs' PROVE jobs'[j].revision <= revision'[jobs'[j].handle]
      OBVIOUS
    <3>1. CASE j \in Jobs
      BY <1>3, <1>5, <1>6, <3>1
    <3>2. CASE j = NextJob
      BY <1>1, <1>3, <1>5, <3>2
    <3> QED
      BY <1>4, <3>1, <3>2
  <2>2. ASSUME NEW i \in Jobs', NEW j \in Jobs', i < j, jobs'[i].handle = jobs'[j].handle
        PROVE  /\ jobs'[i].revision <= jobs'[j].revision
               /\ jobs'[j].kind = "clear" => jobs'[i].revision < jobs'[j].revision
    <3>1. CASE j \in Jobs
      <4>1. i \in Jobs
        BY <1>4, <2>2, <3>1
      <4> QED
        BY <1>3, <2>2, <3>1, <4>1 DEF IInv, RevisionInv
    <3>2. CASE j = NextJob
      <4>1. i \in Jobs
        BY <1>4, <2>2, <3>2
      <4>2. jobs[i].handle = h /\ jobs[i].revision <= revision[h] /\ jobs[i].revision \in Nat
        BY <1>3, <1>6, <2>2, <3>2, <4>1
      <4>3. kind = "clear" => revision[h] < rev
        BY DEF Admits
      <4> QED
        BY <1>1, <1>3, <3>2, <4>1, <4>2, <4>3
    <3> QED
      BY <1>4, <3>1, <3>2
  <2> QED
    BY <2>1, <2>2 DEF RevisionInv
<1>8. \A x \in Handles : ClearDue(x) /\ ~(kind = "clear" /\ x = h) => DueNext(x)
  <2> SUFFICES ASSUME NEW x \in Handles, ClearDue(x), ~(kind = "clear" /\ x = h) PROVE DueNext(x)
    OBVIOUS
  <2>1. PICK k \in 1..Len(queue) : /\ queue[k].kind = "clear" /\ jobs[queue[k].id].handle = x
                                   /\ jobs[queue[k].id].revision = revision[x]
    BY DEF ClearDue
  <2>2. queue[k].id \in Jobs
    BY <2>1, TaskFact DEF IsJob
  <2> QED
    BY <1>3, <1>4, <1>5, <2>1, <2>2 DEF DueNext
<1>9. kind = "clear" => DueNext(h)
  BY <1>3, <1>4, <1>5 DEF DueNext
<1>10. RevisedInv'
  <2>1. ASSUME NEW j \in Jobs', live[jobs'[j].handle], Unsettled(j)',
               jobs'[j].revision < revision'[jobs'[j].handle]
        PROVE  DueNext(jobs'[j].handle)
    <3>1. j \in Jobs
      BY <1>1, <1>3, <1>4, <1>5, <2>1
    <3>2. jobs[j].handle \in Handles /\ jobs'[j] = jobs[j]
      BY <1>3, <1>6, <3>1
    <3>3. Unsettled(j)
      BY <1>2, <1>3, <1>4, <2>1, <3>1 DEF Unsettled, IsJob
    <3>4. CASE kind = "clear" /\ jobs[j].handle = h
      BY <1>9, <3>2, <3>4
    <3>5. CASE ~(kind = "clear" /\ jobs[j].handle = h)
      <4>1. ClearDue(jobs[j].handle)
        BY <1>5, <2>1, <3>1, <3>2, <3>3, <3>5 DEF IInv, RevisedInv
      <4> QED
        BY <1>8, <3>2, <3>5, <4>1
    <3> QED
      BY <3>4, <3>5
  <2>2. ASSUME NEW x \in Handles
        PROVE  cleared'[x] <= Len(registry.maker) /\ (revision'[x] = 0 => cleared'[x] = 0)
    <3>1. /\ cleared'[x] <= Len(registry.maker)
          /\ kind # "clear" \/ x # h => cleared'[x] = cleared[x]
          /\ kind = "clear" => revision[h] < rev
      BY <2>2 DEF Admits
    <3>2. revision[x] = 0 => cleared[x] = 0
      BY <2>2 DEF IInv, RevisedInv
    <3> QED
      BY <1>1, <1>5, <3>1, <3>2
  <2>3. ASSUME NEW k \in 1..Len(queue'), queue'[k].kind = "attach", live[queue'[k].id]
        PROVE  revision'[queue'[k].id] = 0 \/ DueNext(queue'[k].id)
    <3>1. k \in 1..Len(queue) /\ queue'[k] = queue[k]
      BY <1>3, <1>4, <2>3
    <3>2. queue[k].id \in Handles
      BY <2>3, <3>1, TaskFact
    <3>3. revision[queue[k].id] = 0 \/ ClearDue(queue[k].id)
      BY <2>3, <3>1 DEF IInv, RevisedInv
    <3> QED
      BY <1>5, <1>8, <1>9, <3>1, <3>2, <3>3
  <2>4. \A x : DueNext(x) => ClearDue(x)'
    BY DEF DueNext, ClearDue
  <2> QED
    BY <1>2, <2>1, <2>2, <2>3, <2>4 DEF RevisedInv
<1> QED
  BY <1>7, <1>8, <1>9, <1>10

LEMMA AdmitsHeld ==
    ASSUME IInv, NEW kind, NEW h \in Handles, NEW rev, Admits(kind, h, rev), Added(kind, h, rev)
    PROVE  CleanInv' /\ HeldInv' /\ CountInv'
<1>1. kind \in Kinds \cup {"clear"} /\ rev \in Nat /\ live[h] /\ revision[h] <= rev
      /\ revision[h] \in Nat
  BY HandleFact DEF Admits
<1>2. UNCHANGED <<info, live, gate, job, phase, result, storage, registry, mailbox, entries>>
      /\ Handles' = Handles
  BY DEF Admits, Handles
<1>3. /\ \A j \in Jobs : jobs'[j] = jobs[j]
      /\ jobs'[NextJob].kind = kind
      /\ Len(queue') = Place /\ \A i \in 1..Len(queue) : queue'[i] = queue[i]
      /\ queue'[Place].id = NextJob
  BY DEF Added
<1>4. /\ Jobs' = Jobs \cup {NextJob} /\ NextJob \notin Jobs
      /\ Place \in 1..Len(queue') /\ \A i \in 1..Len(queue) : i \in 1..Len(queue')
      /\ \A i \in 1..Len(queue') : i \in 1..Len(queue) \/ i = Place
      /\ queue'[Place].kind \in {"clear", "job"} /\ (queue'[Place].kind = "clear" <=> kind = "clear")
      /\ job # NextJob
  BY <1>1, AddedFacts
<1>5. /\ revision'[h] = rev
      /\ \A x \in Handles : x # h \/ kind # "clear" => revision'[x] = revision[x]
      /\ \A x \in Handles : x # h \/ kind # "clear" => cleared'[x] = cleared[x]
      /\ kind = "clear" => revision[h] < rev
  <2>1. revision \in [Handles -> Nat] /\ revision' = [revision EXCEPT ![h] = rev]
        /\ (kind # "clear" => rev = revision[h])
    BY DEF Admits, IInv, SessionsOK
  <2>2. \A x \in Handles : x # h \/ kind # "clear" => cleared'[x] = cleared[x]
    BY DEF Admits
  <2>3. kind = "clear" => revision[h] < rev
    BY DEF Admits
  <2> QED
    BY <1>1, <2>1, <2>2, <2>3
<1>6. \A j \in Jobs : jobs[j].handle \in Handles /\ jobs[j].revision \in Nat
                      /\ jobs[j].revision <= revision[jobs[j].handle]
  BY JobFact DEF IInv, RevisionInv
<1>7. CleanInv'
  <2>1. ASSUME NEW s \in Slots, storage[s].session # 0, live[storage[s].session],
               ~DueNext(storage[s].session)
        PROVE  Clean(storage[s].session, storage[s])'
    <3> DEFINE x == storage[s].session
    <3>1. x \in Handles
      BY <2>1, SlotFact
    <3>2. ~(kind = "clear" /\ x = h) /\ ~ClearDue(x)
      BY <2>1, <3>1, AdmitsRevised
    <3>3. Clean(x, storage[s])
      BY <2>1, <3>2 DEF IInv, CleanInv
    <3>4. revision'[x] = revision[x] /\ cleared'[x] = cleared[x]
      BY <1>5, <3>1, <3>2
    <3>5. \A e \in entries : e.job \in Jobs /\ jobs'[e.job] = jobs[e.job]
      BY <1>3 DEF IInv, MailOK
    <3> QED
      BY <1>2, <3>3, <3>4, <3>5 DEF Clean, Uncleared
  <2> QED
    BY <1>2, <2>1 DEF CleanInv, ClearDue, DueNext
<1>8. \A j \in Jobs : /\ IsCurrent(j)' => IsCurrent(j)
                      /\ \A g : Held(j, g) => Held(j, g)'
  <2> SUFFICES ASSUME NEW j \in Jobs
               PROVE  (IsCurrent(j)' => IsCurrent(j)) /\ \A g : Held(j, g) => Held(j, g)'
    BY Zenon
  <2>1. jobs'[j] = jobs[j] /\ jobs[j].handle \in Handles
    BY <1>3, <1>6
  <2>2. \A g : Held(j, g) => Held(j, g)'
    BY <1>2, <2>1 DEF Held
  <2>3. ASSUME IsCurrent(j)' PROVE IsCurrent(j)
    <3>1. live[jobs[j].handle] /\ gate.alive /\ revision'[jobs[j].handle] = jobs[j].revision
      BY <1>2, <2>1, <2>3 DEF IsCurrent, Current
    <3>2. revision[jobs[j].handle] = jobs[j].revision
      BY <1>1, <1>5, <1>6, <2>1, <3>1
    <3> QED
      BY <3>1, <3>2 DEF IsCurrent, Current
  <2> QED
    BY <2>2, <2>3, Zenon
<1>9. HeldInv'
  <2>1. \A i \in 1..Len(mailbox) : (mailbox[i].gen # 0 /\ IsCurrent(mailbox[i].job)
                                      => Held(mailbox[i].job, mailbox[i].gen))'
    <3> SUFFICES ASSUME NEW i \in 1..Len(mailbox), (mailbox[i].gen # 0 /\ IsCurrent(mailbox[i].job))'
                 PROVE  Held(mailbox[i].job, mailbox[i].gen)'
      BY Zenon
    <3>1. mailbox[i].job \in Jobs /\ mailbox' = mailbox
      BY <1>2, MailFact
    <3>2. IsCurrent(mailbox[i].job)
      BY <1>8, <3>1 DEF IsCurrent
    <3>3. Held(mailbox[i].job, mailbox[i].gen)
      BY <3>1, <3>2 DEF IInv, HeldInv
    <3> QED
      BY <1>8, <3>1, <3>3, Zenon DEF Held
  <2>2. result # 0 \/ phase \in {"open", "add", "commit"} => job \in Jobs
    BY LenFact DEF IInv, PhaseInv
  <2>3. /\ phase' \in {"open", "add", "commit"} => (storage[info[jobs[job].handle].slot].session = jobs[job].handle)'
        /\ (result # 0 => Held(job, result))'
    BY <1>2, <1>3, <2>2 DEF IInv, HeldInv, Held
  <2> QED
    BY <1>2, <2>1, <2>3, Zenon DEF HeldInv
<1>10. CountInv'
  <2>1. \A j \in Jobs : Queued(j)' <=> Queued(j)
    BY <1>3, <1>4 DEF Queued
  <2>2. \A j : j = NextJob => (Queued(j)' <=> kind # "clear")
    <3> SUFFICES ASSUME NEW j, j = NextJob PROVE Queued(j)' <=> kind # "clear"
      BY Zenon
    <3>1. \A i \in 1..Len(queue) : ~(queue'[i].kind = "job" /\ queue'[i].id = j)
      BY <1>3, <1>4, TaskFact DEF IsJob
    <3>2. CASE kind = "clear"
      BY <1>4, <3>1, <3>2 DEF Queued
    <3>3. CASE kind # "clear"
      BY <1>3, <1>4, <3>3 DEF Queued
    <3> QED
      BY <3>2, <3>3
  <2>3. "clear" \notin Kinds
    BY DEF Kinds
  <2>4. ASSUME NEW k \in Kinds
        PROVE  Holding(k)' = IF k = kind THEN Holding(k) \cup {NextJob} ELSE Holding(k)
    <3>1. \A j \in Jobs : j \in Holding(k)' <=> j \in Holding(k)
      BY <1>2, <1>3, <1>4, <2>1 DEF Holding
    <3>2. NextJob \in Holding(k)' <=> k = kind
      <4> DEFINE j == NextJob
      <4>1. j \in Jobs' /\ jobs'[j].kind = kind /\ job' # j
        BY <1>2, <1>3, <1>4
      <4>2. \A i : i = j => (Queued(i)' <=> kind # "clear")
        BY <2>2
      <4> HIDE DEF j
      <4>3. j \in Holding(k)' <=> k = kind
        BY <2>3, <4>1, <4>2 DEF Holding
      <4> QED
        BY <4>3 DEF j
    <3>3. Holding(k) \subseteq Jobs /\ Holding(k)' \subseteq Jobs \cup {NextJob}
      BY <1>4 DEF Holding
    <3>4. \A j : j \in Holding(k)' <=> j \in IF k = kind THEN Holding(k) \cup {NextJob} ELSE Holding(k)
      BY <1>4, <3>1, <3>2, <3>3
    <3> QED
      BY <3>4
  <2>5. CASE kind = "clear"
    <3>1. count' = count
      BY <2>5 DEF Admits
    <3>2. \A k \in Kinds : Holding(k)' = Holding(k)
      BY <2>3, <2>4, <2>5
    <3> QED
      BY <3>1, <3>2, HoldingKept
  <2>6. CASE kind # "clear"
    <3>1. count' = [count EXCEPT ![kind] = @ + 1] /\ kind \in Kinds
      BY <1>1, <2>6 DEF Admits
    <3>2. /\ count \in [Kinds -> Nat] /\ \A k \in Kinds : count[k] = Cardinality(Holding(k))
      BY DEF IInv, CountInv
    <3>3. IsFiniteSet(Holding(kind)) /\ NextJob \notin Holding(kind)
      BY <1>4, HoldingFinite DEF Holding
    <3>4. Cardinality(Holding(kind) \cup {NextJob}) = Cardinality(Holding(kind)) + 1
      BY <3>3, FS_AddElement
    <3>5. \A k \in Kinds : count'[k] = Cardinality(Holding(k)') /\ count'[k] \in Nat
      BY <2>4, <3>1, <3>2, <3>4
    <3>6. count' \in [Kinds -> Nat]
      BY <3>1, <3>2
    <3> QED
      BY <3>5, <3>6 DEF CountInv
  <2> QED
    BY <2>5, <2>6
<1> QED
  BY <1>7, <1>9, <1>10

LEMMA AdmitsStep ==
    ASSUME IInv, NEW kind, NEW h \in Handles, NEW rev, Admits(kind, h, rev), NewJob(kind, h, rev)
    PROVE  IInv'
<1>1. kind \in Kinds \cup {"clear"} /\ rev \in Nat
  BY DEF Admits
<1>2. Added(kind, h, rev)
  BY <1>1, NewJobAdded
<1> QED
  BY <1>2, AdmitsTypes, AdmitsQueue, AdmitsRevised, AdmitsHeld, Zenon DEF IInv

LEMMA AdmitStep ==
    ASSUME IInv, NEW kind \in Kinds, NEW h \in Handles, Admit(kind, h)
    PROVE  IInv'
<1>1. /\ live[h] /\ count' = [count EXCEPT ![kind] = @ + 1] /\ NewJob(kind, h, revision[h])
      /\ UNCHANGED <<uiVars, workerVars, mailbox, ghosts>>
  BY DEF Admit, Visible, Current
<1>2. UNCHANGED <<info, sessions, live, enabled, revision, gate, switching, phase, job, result,
                  storage, resetPending, registry, mailbox, entries, cleared, discarded>>
  BY <1>1 DEF uiVars, workerVars, ghosts
<1>3. kind # "clear" /\ revision[h] \in Nat
  BY HandleFact DEF Kinds
<1>4. /\ revision = [revision EXCEPT ![h] = revision[h]]
      /\ cleared \in [Handles -> Nat] /\ discarded \in [Slots -> 0..Len(registry.maker)]
      /\ \A x \in Handles : cleared[x] <= Len(registry.maker)
  BY DEF IInv, SessionsOK, MailOK, RevisedInv
<1>5. Admits(kind, h, revision[h])
  BY <1>1, <1>2, <1>3, <1>4 DEF Admits
<1> QED
  BY <1>1, <1>5, AdmitsStep

LEMMA ClearStep == ASSUME IInv, NEW h \in Handles, Clear(h) PROVE IInv'
<1> DEFINE rev == revision[h] + 1
           n   == Len(registry.maker)
<1>1. /\ live[h] /\ revision' = [revision EXCEPT ![h] = rev] /\ NewJob("clear", h, rev)
      /\ cleared' = [cleared EXCEPT ![h] = n]
      /\ discarded' = [discarded EXCEPT ![info[h].slot] = n]
      /\ UNCHANGED <<info, sessions, live, enabled, gate, switching, count, workerVars, mailbox,
                     entries>>
  BY DEF Clear, Visible, Current
<1>2. revision[h] \in Nat /\ rev \in Nat /\ revision[h] < rev /\ revision[h] <= rev
  BY HandleFact
<1>3. /\ cleared \in [Handles -> Nat] /\ discarded \in [Slots -> 0..n] /\ n \in Nat
      /\ \A x \in Handles : cleared[x] <= n
  BY LenFact DEF IInv, SessionsOK, MailOK, RevisedInv
<1> HIDE DEF rev, n
<1>4. /\ cleared' \in [Handles -> Nat]
      /\ \A x \in Handles : cleared'[x] <= n /\ (x # h => cleared'[x] = cleared[x])
  BY <1>1, <1>3
<1>5. discarded' \in [Slots -> 0..n]
  BY <1>1, <1>3, HandleFact
<1>6. Admits("clear", h, rev)
  BY <1>1, <1>2, <1>4, <1>5 DEF Admits, workerVars, n
<1> QED
  BY <1>1, <1>6, AdmitsStep

----------------------------------------------------------------------------
(* The invariant, and the properties that follow from it                   *)

LEMMA InitHolds == ASSUME Init PROVE IInv
<1>1. /\ info = <<>> /\ live = <<>> /\ enabled = <<>> /\ revision = <<>> /\ cleared = <<>>
      /\ queue = <<>> /\ mailbox = <<>> /\ jobs = <<>> /\ entries = {}
      /\ sessions = [s \in Slots |-> 0]
      /\ gate = [alive |-> TRUE, locked |-> FALSE, epoch |-> 0] /\ switching = FALSE
      /\ count = [k \in Kinds |-> 0] /\ phase = "wait" /\ job = 0 /\ result = 0
      /\ storage = [s \in Slots |-> Closed] /\ resetPending = FALSE
      /\ registry = [active |-> [s \in Slots |-> 0], retired |-> {}, maker |-> <<>>]
      /\ discarded = [s \in Slots |-> 0]
  BY DEF Init
<1>2. /\ Len(info) = 0 /\ Len(queue) = 0 /\ Len(mailbox) = 0 /\ Len(jobs) = 0
      /\ registry.active = [s \in Slots |-> 0] /\ registry.retired = {} /\ registry.maker = <<>>
      /\ Len(registry.maker) = 0 /\ 1..0 = {}
  BY <1>1
<1>3. Handles = {} /\ Jobs = {} /\ Generations = {}
  BY <1>2 DEF Handles, Jobs, Generations
<1>4. \A S : <<>> \in Seq(S)
  OBVIOUS
<1>5. \A S : <<>> \in [{} -> S]
  OBVIOUS
<1>6. SessionsOK
  BY <1>1, <1>2, <1>3, <1>4, <1>5 DEF SessionsOK
<1>7. GateOK
  BY <1>1 DEF GateOK
<1>8. QueueOK /\ JobsOK
  BY <1>1, <1>2, <1>4 DEF QueueOK, JobsOK
<1>9. MailOK
  BY <1>1, <1>2, <1>4 DEF MailOK
<1>10. /\ \A s \in Slots : storage[s] = Closed
       /\ Closed.session = 0 /\ Closed.vault = 0 /\ Closed.archive = "none"
       /\ Closed \in SlotRec(0, 0)
  BY <1>1 DEF Closed, SlotRec
<1>11. StorageOK
  BY <1>1, <1>2, <1>10 DEF StorageOK
<1>12. RegistryInv
  <2>1. registry \in RegRec
    BY <1>1, <1>4 DEF RegRec
  <2> QED
    BY <1>2, <2>1 DEF RegistryInv, Sound
<1>13. PhaseInv
  BY <1>1, <1>2 DEF PhaseInv
<1>14. LiveInv
  BY <1>3 DEF LiveInv
<1>15. HoldInv /\ OrderInv /\ HomeInv /\ FifoInv
  BY <1>1, <1>2, <1>3 DEF HoldInv, OrderInv, HomeInv, FifoInv
<1>16. RevisionInv /\ RevisedInv
  BY <1>2, <1>3 DEF RevisionInv, RevisedInv
<1>17. StoreInv
  BY <1>10 DEF StoreInv, VaultOK
<1>18. CleanInv
  BY <1>10 DEF CleanInv
<1>19. HeldInv
  BY <1>1, <1>2 DEF HeldInv
<1>20. CaptureInSession
  BY <1>1 DEF CaptureInSession
<1>21. CountInv
  <2>1. \A k : Holding(k) = {}
    BY <1>3 DEF Holding
  <2> QED
    BY <1>1, <2>1, FS_EmptySet DEF CountInv
<1> QED
  BY <1>6, <1>7, <1>8, <1>9, <1>11, <1>12, <1>13, <1>14, <1>15, <1>16, <1>17, <1>18, <1>19,
     <1>20, <1>21, Zenon DEF IInv

LEMMA UiStep == ASSUME IInv, Ui PROVE IInv'
  BY AttachStep, DetachStep, SwitchStep, AdmitStep, ClearStep, ForgetAllStep, DestroyStep, Zenon
  DEF Ui

LEMMA WorkerSteps == ASSUME IInv, WorkerStep PROVE IInv'
  BY AttachTaskStep, DetachTaskStep, ForgetTaskStep, ClearTaskStep, TakeJobStep, OpenStoreStep,
     ReadMediaStep, AddEntryStep, PostReplyStep, StopStep, Zenon DEF WorkerStep

LEMMA StutterStep == ASSUME IInv, UNCHANGED vars PROVE IInv'
<1>1. UNCHANGED <<info, sessions, live, enabled, revision, gate, switching, count, queue, phase,
                  job, result, storage, resetPending, registry, mailbox, jobs, entries, cleared,
                  discarded>>
  BY DEF vars, uiVars, workerVars, ghosts
<1>2. SessionStep
  <2>1. SessionsOK /\ Len(info) \in Nat
    BY LenFact DEF IInv
  <2>2. \A h \in Handles : revision[h] \in Nat /\ revision[h] <= revision[h]
    BY <2>1 DEF SessionsOK
  <2> QED
    BY <1>1, <2>1, <2>2 DEF SessionStep, SessionsOK
<1>3. SessionsOK' /\ GateOK' /\ LiveInv'
  BY <1>1 DEF IInv, SessionsOK, GateOK, LiveInv, Handles
<1> QED
  BY <1>1, <1>2, <1>3, SameSessions, SessionDone

(* Every step of the UI thread, of the worker thread and of the mailbox    *)
(* keeps the invariant.                                                    *)
THEOREM Invariance == Spec => []IInv
<1>1. Init => IInv
  BY InitHolds
<1>2. IInv /\ [Next]_vars => IInv'
  <2> SUFFICES ASSUME IInv, [Next]_vars PROVE IInv'
    OBVIOUS
  <2>1. CASE Ui
    BY <2>1, UiStep
  <2>2. CASE BumpEpoch
    BY <2>2, SwitchStep
  <2>3. CASE WorkerStep
    BY <2>3, WorkerSteps
  <2>4. CASE Deliver
    BY <2>4, DeliverStep
  <2>5. UNCHANGED vars => IInv'
    BY StutterStep
  <2> QED
    BY <2>1, <2>2, <2>3, <2>4, <2>5, Zenon DEF Next
<1> QED
  BY <1>1, <1>2, PTL DEF Spec

(* What a live session holds, with no clear to wait for.                   *)
LEMMA HeldShown ==
    ASSUME IInv, NEW h \in Handles, NEW s \in Slots, NEW g, g # 0, live[h], ~ClearDue(h),
           storage[s].session = h, storage[s].vault = g
    PROVE  /\ registry.active[s] = g /\ g \notin registry.retired
           /\ LoginOf(g) = info[h].login /\ Uncleared(h, g)
<1>1. VaultOK(s, storage[s], registry, resetPending) /\ h # 0
  BY SlotFact, HandleFact
<1>2. registry.active[s] = g /\ LoginOf(g) = info[h].login /\ ~storage[s].clear
  BY <1>1 DEF VaultOK, LoginOf
<1>3. g \notin registry.retired
  BY <1>2 DEF IInv, RegistryInv, Sound
<1>4. Clean(h, storage[s])
  BY <1>1 DEF IInv, CleanInv
<1> QED
  BY <1>2, <1>3, <1>4 DEF Clean

(* A clear that is queued comes after every job that was answered, and     *)
(* revokes those of its session.                                           *)
LEMMA NotDue ==
    ASSUME IInv, NEW j \in Jobs, NEW i \in 1..Len(mailbox), mailbox[i].job = j, IsCurrent(j)
    PROVE  ~ClearDue(jobs[j].handle)
<1> DEFINE h == jobs[j].handle
<1> SUFFICES ASSUME ClearDue(h) PROVE FALSE
  OBVIOUS
<1>1. h \in Handles /\ revision[h] \in Nat /\ jobs[j].revision = revision[h]
  BY JobFact, HandleFact DEF IsCurrent, Current
<1>2. PICK k \in 1..Len(queue) : /\ queue[k].kind = "clear" /\ jobs[queue[k].id].handle = h
                                 /\ jobs[queue[k].id].revision = revision[h]
  BY DEF ClearDue
<1>3. IsJob(queue[k]) /\ queue[k].id \in Jobs /\ jobs[queue[k].id].kind = "clear"
  BY <1>2, TaskFact DEF IsJob
<1>4. j < queue[k].id
  BY <1>3 DEF IInv, FifoInv
<1>5. jobs[j].revision < jobs[queue[k].id].revision
  BY <1>2, <1>3, <1>4, SMTT(30) DEF IInv, RevisionInv
<1> QED
  BY <1>1, <1>2, <1>5

LEMMA ShownHolds == ASSUME IInv PROVE ShownInForce
<1>1. ASSUME NEW i \in 1..Len(mailbox), IsVisible(mailbox[i].job), mailbox[i].gen # 0
      PROVE  LET h == jobs[mailbox[i].job].handle
                 g == mailbox[i].gen IN
             /\ registry.active[info[h].slot] = g /\ g \notin registry.retired
             /\ LoginOf(g) = info[h].login
             /\ Uncleared(h, g)
  <2>1. IsCurrent(mailbox[i].job)
    BY <1>1, Zenon DEF IsVisible, Visible, IsCurrent
  <2> QED
    <3> DEFINE j == mailbox[i].job
               h == jobs[j].handle
    <3>1. /\ j \in Jobs /\ h \in Handles /\ info[h].slot \in Slots /\ live[h]
          /\ storage[info[h].slot].session = h /\ storage[info[h].slot].vault = mailbox[i].gen
      BY <1>1, <2>1, CurrentMail, Zenon
    <3>2. ~ClearDue(h)
      BY <2>1, <3>1, NotDue, Zenon
    <3> QED
      BY <1>1, <3>1, <3>2, HeldShown, Zenon
<1> QED
  BY <1>1, Zenon DEF ShownInForce, Shown, Uncleared

(* Whatever is in the mailbox, when it is shown it comes from the archive  *)
(* in force, of the login that asked, and holds nothing that its session   *)
(* has cleared: Worker::Visible is enough, although a clear, a logout or   *)
(* another session may have run between the job and its delivery.          *)
THEOREM ShownAlwaysInForce == Spec => []ShownInForce
  BY Invariance, ShownHolds, PTL

(* Captures are committed to archives of their own login only, and a job   *)
(* that runs finds its own session in the slot it writes without a check:  *)
(* an attach or detach that would replace it waits behind it in the queue. *)
THEOREM JobsAlwaysStayHome == Spec => []JobsStayHome
<1>1. IInv => JobsStayHome
  BY DEF IInv, HeldInv, JobsStayHome, RunsInOwnSlot
<1> QED
  BY <1>1, Invariance, PTL

LEMMA BooksHold == ASSUME IInv PROVE BooksBalance
<1>1. TypeOK
  <2>1. /\ SessionsOK /\ GateOK /\ QueueOK /\ JobsOK /\ MailOK /\ StorageOK /\ RegistryInv
        /\ PhaseInv /\ CountInv
    BY DEF IInv
  <2>2. info \in Seq([slot: Slots, login: Logins, fresh: BOOLEAN])
    BY <2>1 DEF SessionsOK, Info
  <2>3. \A i \in 1..Len(queue) : queue[i].kind \in {"attach", "detach", "forget", "clear", "job"}
    BY TaskFact DEF TaskRec
  <2>4. storage \in [Slots -> Slot]
    <3>1. Len(info) \in Nat /\ Len(registry.maker) \in Nat
      BY LenFact
    <3>2. SlotRec(Len(info), Len(registry.maker)) \subseteq Slot
      BY <3>1 DEF SlotRec, Slot
    <3> QED
      BY <2>1, <3>2 DEF StorageOK
  <2>5. /\ registry.active \in [Slots -> 0..Len(registry.maker)]
        /\ registry.retired \subseteq Generations
    BY <2>1 DEF RegistryInv, Sound, Generations
  <2>6. jobs \in Seq([kind: Kinds \cup {"clear"}, handle: Handles, revision: Nat,
                      epoch: Nat, state: {"open", "shown", "dropped"}])
    BY <2>1 DEF JobsOK, JobRec
  <2> QED
    BY <2>1, <2>2, <2>3, <2>4, <2>5, <2>6 DEF TypeOK, SessionsOK, GateOK, MailOK, StorageOK, PhaseInv,
       CountInv
<1>2. RecoveryRemembered
  BY SlotFact DEF RecoveryRemembered, VaultOK
<1>3. LimitsReturned
  BY DEF IInv, CountInv, LimitsReturned, Holding, Queued
<1> QED
  BY <1>1, <1>2, <1>3 DEF BooksBalance

(* Every unit of the limits is held by one job that is queued or running,  *)
(* and cleanup that the archive store still has to do is remembered,       *)
(* whatever the store, the registry and the sessions did.                  *)
THEOREM BooksAlwaysBalance == Spec => []BooksBalance
  BY Invariance, BooksHold, PTL
=============================================================================
