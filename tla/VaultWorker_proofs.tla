------------------------- MODULE VaultWorker_proofs -------------------------
(***************************************************************************)
(* Theorems about VaultWorker: for any slots and logins and any number of  *)
(* sessions, requests, generations, locks and resets, what is shown is of  *)
(* the session in force, what was revoked stays revoked, and no request is *)
(* lost.                                                                   *)
(*                                                                         *)
(* The argument: a session that is live is the one its slot has on the UI  *)
(* thread, and whatever would end it is in the queue only once it is not   *)
(* live any more (HoldInv, OrderInv).  So a store that was opened for a    *)
(* live session is open still, and is what its slot's binding names        *)
(* (StoreInv); a reply that is current came from that store (ReplyInv).    *)
(*                                                                         *)
(* The second part is about DesktopFolders, which MCVaultWorker takes as   *)
(* Chats: where the client's copy of the folders, or the one a load has    *)
(* read, differs from the server, an answer is awaited that starts a load  *)
(* later (ChatsCopyInv).  The latest order is such a request, since orders *)
(* are handled as they were sent (ChatsOrderInv); so is an accepted        *)
(* removal, which is alone with its folder (ChatsRemovalInv).              *)
(*                                                                         *)
(* The third is about DesktopReads, taken as Reading: a permit never       *)
(* outlives the call that gives it, a session that exists has told the     *)
(* instance its setting (ReadingPolicyInv), and the box waits for an       *)
(* explicit read of its own session (ReadingBoxInv).                       *)
(***************************************************************************)
EXTENDS MCVaultWorker, TLAPS, FiniteSetTheorems, FunctionTheorems, SequenceTheorems

----------------------------------------------------------------------------
(* The inductive invariant *)

TaskRec == [kind: {"attach", "detach", "forget", "request"}, id: Nat, out: BOOLEAN]

TaskTypes == \A i \in 1..Len(queue) :
    /\ queue[i].kind \in {"attach", "detach"} => queue[i].id \in Handles
    /\ queue[i].kind = "request" => queue[i].id \in Requests

LiveInv == \A h \in Handles : live[h] => gate.alive /\ sessions[info[h].slot] = h

(* Task t, once it runs, ends what the worker holds for handle h.          *)
Ends(t, h) ==
    \/ t.kind = "forget"
    \/ t.kind = "detach" /\ t.id = h
    \/ t.kind = "attach" /\ info[t.id].slot = info[h].slot

HoldInv == \A s \in Slots : storage[s].session # 0 /\ live[storage[s].session] =>
    \A i \in 1..Len(queue) : ~Ends(queue[i], storage[s].session)

OrderInv == \A i, k \in 1..Len(queue) :
    i < k /\ queue[i].kind = "attach" /\ live[queue[i].id] => ~Ends(queue[k], queue[i].id)

NoForget == \A i \in 1..Len(queue) : queue[i].kind # "forget"

RegistryInv ==
    /\ \A s \in Slots : active[s] # 0 => active[s] \notin retired
    /\ \A s, t \in Slots : active[s] # 0 /\ active[s] = active[t] => s = t
    /\ NoForget /\ ~resetPending => \A s \in Slots : active[s] # 0 => active[s] > forgotten

(* An open store, and the intent a fresh login leaves until it has one.    *)
OpenStore(s, o) == o.store # 0 =>
    /\ o.session # 0 /\ active[s] = o.store /\ ~resetPending
    /\ LoginOf(o.store) = info[o.session].login
    /\ info[o.session].fresh => maker[o.store] = o.session
    /\ live[o.session] => o.store > forgotten

Intent(s, o) == o.session # 0 =>
    info[o.session].slot = s /\ (o.store = 0 /\ info[o.session].fresh => o.fresh)

StoreInv == \A s \in Slots : OpenStore(s, storage[s]) /\ Intent(s, storage[s])

Held(r, g) == LET h == asked[r].handle IN
    storage[info[h].slot].session = h /\ storage[info[h].slot].store = g

ReplyInv ==
    /\ \A i \in 1..Len(mailbox) :
         mailbox[i].gen # 0 /\ IsCurrent(mailbox[i].request) => Held(mailbox[i].request, mailbox[i].gen)
    /\ phase = "reply" /\ result # 0 => Held(request, result)

StageInv == phase \in {"run", "reply"} <=> request # 0

(* A request is of an epoch in which the vault was not locked; the epoch   *)
(* of a sealed one is over, or about to be.                                *)
EpochInv ==
    /\ \A r \in Requests : asked[r].epoch <= gate.epoch
    /\ gate.locked # switching => \A r \in Requests : asked[r].epoch < gate.epoch
    /\ \A r \in sealed : asked[r].epoch < gate.epoch \/ switching \/ ~gate.alive

SettledInv ==
    /\ \A r \in sealed : asked[r].state # "shown"
    /\ \A r \in Requests : asked[r].state = "dropped" => ~IsCurrent(r)

IInv == /\ TypeOK /\ TaskTypes /\ LiveInv /\ HoldInv /\ OrderInv /\ RegistryInv /\ StoreInv
        /\ ReplyInv /\ StageInv /\ EpochInv /\ SettledInv /\ RequestsAccounted

----------------------------------------------------------------------------
(* Types, element by element *)

Info == [slot: Slots, login: Logins, fresh: BOOLEAN]

SlotRec(n, g) == [session: 0..n, store: 0..g, fresh: BOOLEAN]

Asked == [handle: Handles, epoch: Nat, state: {"open", "shown", "dropped"}]

LEMMA TypeFacts ==
    ASSUME TypeOK
    PROVE  /\ Len(info) \in Nat /\ Len(maker) \in Nat /\ Len(asked) \in Nat
           /\ Len(queue) \in Nat /\ Len(mailbox) \in Nat
           /\ info \in Seq(Info) /\ maker \in Seq(Handles) /\ asked \in Seq(Asked)
           /\ queue \in Seq(TaskRec) /\ mailbox \in Seq([request: Requests, gen: 0..Len(maker)])
           /\ \A h \in Handles : info[h] \in Info
           /\ \A g \in Generations : maker[g] \in Handles
           /\ \A r \in Requests : asked[r] \in Asked
           /\ \A i \in 1..Len(queue) : queue[i] \in TaskRec
           /\ \A i \in 1..Len(mailbox) : mailbox[i] \in [request: Requests, gen: 0..Len(maker)]
<1>1. /\ info \in Seq(Info) /\ maker \in Seq(Handles) /\ asked \in Seq(Asked)
      /\ queue \in Seq(TaskRec) /\ mailbox \in Seq([request: Requests, gen: 0..Len(maker)])
  BY DEF TypeOK, Info, Asked, TaskRec
<1>2. /\ Len(info) \in Nat /\ Len(maker) \in Nat /\ Len(asked) \in Nat
      /\ Len(queue) \in Nat /\ Len(mailbox) \in Nat
  BY <1>1, LenProperties
<1>3. \A h \in Handles : info[h] \in Info
  BY <1>1, ElementOfSeq DEF Handles
<1>4. \A g \in Generations : maker[g] \in Handles
  BY <1>1, ElementOfSeq DEF Generations
<1>5. \A r \in Requests : asked[r] \in Asked
  BY <1>1, ElementOfSeq DEF Requests
<1>6. \A i \in 1..Len(queue) : queue[i] \in TaskRec
  BY <1>1, ElementOfSeq
<1>7. \A i \in 1..Len(mailbox) : mailbox[i] \in [request: Requests, gen: 0..Len(maker)]
  BY <1>1, ElementOfSeq
<1> QED
  BY <1>1, <1>2, <1>3, <1>4, <1>5, <1>6, <1>7

(* A live handle, and a current request, can only be lost.                 *)
LEMMA SlotFacts ==
    ASSUME TypeOK
    PROVE  /\ storage \in [Slots -> SlotRec(Len(info), Len(maker))]
           /\ \A s \in Slots : /\ storage[s].session # 0 => storage[s].session \in Handles
                               /\ storage[s].store # 0 => storage[s].store \in Generations
                               /\ sessions[s] # 0 => sessions[s] \in Handles
                               /\ active[s] # 0 => active[s] \in Generations
<1>1. storage \in [Slots -> SlotRec(Len(info), Len(maker))]
  BY DEF TypeOK, SlotRec
<1>2. \A s \in Slots : /\ storage[s].session \in 0..Len(info) /\ storage[s].store \in 0..Len(maker)
                       /\ sessions[s] \in 0..Len(info) /\ active[s] \in 0..Len(maker)
  BY <1>1 DEF SlotRec, TypeOK
<1> QED
  BY <1>1, <1>2, TypeFacts DEF Handles, Generations

----------------------------------------------------------------------------
(* The registry *)

RegRec == [active: [Slots -> Nat], retired: SUBSET Nat, maker: Seq(Handles)]

Sound(reg) ==
    /\ reg \in RegRec
    /\ reg.active \in [Slots -> 0..Len(reg.maker)] /\ reg.retired \subseteq 1..Len(reg.maker)
    /\ \A s \in Slots : reg.active[s] # 0 => reg.active[s] \notin reg.retired
    /\ \A s, t \in Slots : reg.active[s] # 0 /\ reg.active[s] = reg.active[t] => s = t

(* Every binding is younger than the last reset.                           *)
Young(reg) == \A s \in Slots : reg.active[s] # 0 => reg.active[s] > forgotten

LEMMA NowSound == ASSUME TypeOK, RegistryInv PROVE Sound(Now) /\ Now.maker = maker /\ Now.active = active
                                                   /\ Now.retired = retired
<1>1. /\ active \in [Slots -> 0..Len(maker)] /\ retired \subseteq 1..Len(maker)
      /\ maker \in Seq(Handles) /\ Len(maker) \in Nat
  BY TypeFacts DEF TypeOK, Generations
<1>2. active \in [Slots -> Nat] /\ retired \in SUBSET Nat
  BY <1>1
<1>3. Now \in RegRec /\ Now.maker = maker /\ Now.active = active /\ Now.retired = retired
  BY <1>1, <1>2, Zenon DEF Now, RegRec
<1> QED
  BY <1>1, <1>3 DEF Sound, RegistryInv

LEMMA ResetFacts ==
    ASSUME TypeOK, RegistryInv, NEW r \in ResetOutcomes
    PROVE  /\ Sound(r.reg) /\ r.reg.maker = maker
           /\ r.ok \in BOOLEAN /\ r.pending \in BOOLEAN /\ (r.ok <=> ~r.pending)
           /\ r.ok => \A s \in Slots : r.reg.active[s] = 0
<1> DEFINE none == [active |-> [s \in Slots |-> 0], maker |-> maker,
                    retired |-> retired \cup InForce(active)]
<1>1. Sound(Now) /\ Now.maker = maker
  BY NowSound
<1>2. Sound(none) /\ none.maker = maker /\ \A s \in Slots : none.active[s] = 0
  <2>1. maker \in Seq(Handles) /\ Len(maker) \in Nat
    BY TypeFacts
  <2>2. InForce(active) \subseteq 1..Len(maker) /\ retired \subseteq 1..Len(maker)
    BY <2>1 DEF InForce, TypeOK, Generations
  <2>3. none.active = [s \in Slots |-> 0] /\ none.retired = retired \cup InForce(active)
        /\ none.maker = maker
    OBVIOUS
  <2>4. none \in RegRec
    <3>1. [s \in Slots |-> 0] \in [Slots -> Nat]
      OBVIOUS
    <3>2. retired \cup InForce(active) \in SUBSET Nat
      <4>1. 1..Len(maker) \subseteq Nat
        BY <2>1
      <4> QED
        BY <2>2, <4>1
    <3> QED
      BY <2>1, <3>1, <3>2, Zenon DEF RegRec
  <2> HIDE DEF none
  <2>5. \A s \in Slots : none.active[s] = 0
    BY <2>3
  <2>6. none.active \in [Slots -> 0..Len(none.maker)]
    BY <2>1, <2>3
  <2>7. none.retired \subseteq 1..Len(none.maker)
    BY <2>2, <2>3
  <2> QED
    BY <2>3, <2>4, <2>5, <2>6, <2>7 DEF Sound
<1>3. \/ r = [ok |-> FALSE, pending |-> TRUE, reg |-> Now]
      \/ r = [ok |-> FALSE, pending |-> TRUE, reg |-> none]
      \/ r = [ok |-> TRUE, pending |-> FALSE, reg |-> none]
  BY DEF ResetOutcomes
<1> HIDE DEF none
<1>4. \/ r.ok = FALSE /\ r.pending = TRUE /\ r.reg = Now
      \/ r.ok = FALSE /\ r.pending = TRUE /\ r.reg = none
      \/ r.ok = TRUE /\ r.pending = FALSE /\ r.reg = none
  <2>1. ASSUME NEW ok \in BOOLEAN, NEW pending \in BOOLEAN, NEW reg,
               r = [ok |-> ok, pending |-> pending, reg |-> reg]
        PROVE  r.ok = ok /\ r.pending = pending /\ r.reg = reg
    BY <2>1, Zenon
  <2> QED
    BY <1>3, <2>1
<1> QED
  BY <1>1, <1>2, <1>4

(* A call that first builds the registry again: nothing changes, unless a  *)
(* reset was pending, and then no binding is left once it succeeds.        *)
LEMMA RegistryFacts ==
    ASSUME TypeOK, RegistryInv, NEW r \in RegistryOutcomes
    PROVE  /\ Sound(r.reg) /\ r.reg.maker = maker
           /\ r.ok \in BOOLEAN /\ r.pending \in BOOLEAN /\ (r.ok => ~r.pending)
           /\ ~resetPending => r.reg = Now /\ ~r.pending
           /\ resetPending /\ ~r.pending => \A s \in Slots : r.reg.active[s] = 0
<1>1. CASE resetPending
  BY <1>1, ResetFacts DEF RegistryOutcomes
<1>2. CASE ~resetPending
  <2>1. PICK ok \in BOOLEAN : r = [ok |-> ok, pending |-> FALSE, reg |-> Now]
    BY <1>2 DEF RegistryOutcomes
  <2> QED
    BY <1>2, <2>1, NowSound, Zenon
<1> QED
  BY <1>1, <1>2

(* The binding of a slot is dropped, and its generation retired.           *)
Kept(reg, s) == [reg EXCEPT !.active[s] = 0, !.retired = @ \cup ({reg.active[s]} \ {0})]

LEMMA KeptFacts ==
    ASSUME NEW reg, Sound(reg), NEW s \in Slots
    PROVE  /\ Sound(Kept(reg, s)) /\ Kept(reg, s).maker = reg.maker
           /\ Kept(reg, s).active = [reg.active EXCEPT ![s] = 0]
           /\ Kept(reg, s).retired = reg.retired \cup ({reg.active[s]} \ {0})
           /\ Young(reg) => Young(Kept(reg, s))
<1> DEFINE k == Kept(reg, s)
<1>1. /\ reg \in RegRec /\ reg.active \in [Slots -> 0..Len(reg.maker)] /\ reg.maker \in Seq(Handles)
      /\ reg.retired \subseteq 1..Len(reg.maker) /\ Len(reg.maker) \in Nat
  BY LenProperties DEF Sound, RegRec
<1>2. k.maker = reg.maker /\ k.active = [reg.active EXCEPT ![s] = 0]
      /\ k.retired = reg.retired \cup ({reg.active[s]} \ {0})
  BY <1>1, Zenon DEF Kept, RegRec
<1>3. [reg.active EXCEPT ![s] = 0] \in [Slots -> 0..Len(reg.maker)]
  BY <1>1
<1>4. reg.retired \cup ({reg.active[s]} \ {0}) \subseteq 1..Len(reg.maker)
  BY <1>1
<1>5. k \in RegRec
  <2>1. 0..Len(reg.maker) \subseteq Nat /\ 1..Len(reg.maker) \subseteq Nat
    BY <1>1
  <2>2. [reg.active EXCEPT ![s] = 0] \in [Slots -> Nat]
    BY <1>1, <2>1
  <2>3. reg.retired \cup ({reg.active[s]} \ {0}) \in SUBSET Nat
    BY <1>1, <2>1
  <2> QED
    BY <1>1, <2>2, <2>3, Zenon DEF Kept, RegRec
<1> HIDE DEF k
<1>6. \A t \in Slots : k.active[t] = IF t = s THEN 0 ELSE reg.active[t]
  BY <1>1, <1>2
<1>7. \A t, u \in Slots : k.active[t] # 0 /\ k.active[t] = k.active[u] => t = u
  BY <1>6 DEF Sound
<1>8. \A t \in Slots : k.active[t] # 0 => k.active[t] \notin k.retired
  BY <1>2, <1>6 DEF Sound
<1>9. Young(reg) => Young(k)
  BY <1>6 DEF Young
<1>10. Sound(k)
  BY <1>2, <1>3, <1>4, <1>5, <1>7, <1>8 DEF Sound
<1> QED
  BY <1>2, <1>9, <1>10 DEF k

(* A new generation is bound to a slot without a binding.                  *)
Made(reg, s, h) == [reg EXCEPT !.active[s] = Len(reg.maker) + 1, !.maker = Append(@, h)]

LEMMA MadeFacts ==
    ASSUME NEW reg, Sound(reg), NEW s \in Slots, NEW h \in Handles,
           forgotten \in 0..Len(reg.maker)
    PROVE  /\ Sound(Made(reg, s, h)) /\ Made(reg, s, h).maker = Append(reg.maker, h)
           /\ Made(reg, s, h).active = [reg.active EXCEPT ![s] = Len(reg.maker) + 1]
           /\ Young(reg) => Young(Made(reg, s, h))
<1> DEFINE k == Made(reg, s, h)
           n == Len(reg.maker)
<1>1. /\ reg \in RegRec /\ reg.active \in [Slots -> 0..n] /\ reg.maker \in Seq(Handles)
      /\ reg.retired \subseteq 1..n /\ n \in Nat
  BY LenProperties DEF Sound, RegRec
<1>2. k.maker = Append(reg.maker, h) /\ k.active = [reg.active EXCEPT ![s] = n + 1]
      /\ k.retired = reg.retired
  BY <1>1, Zenon DEF Made, RegRec
<1>3. Append(reg.maker, h) \in Seq(Handles) /\ Len(Append(reg.maker, h)) = n + 1
  BY <1>1, AppendProperties
<1>3a. k \in RegRec
  <2>1. n + 1 \in Nat /\ 0..n \subseteq Nat
    BY <1>1
  <2>2. [reg.active EXCEPT ![s] = n + 1] \in [Slots -> Nat]
    BY <1>1, <2>1
  <2> QED
    BY <1>1, <1>3, <2>2, Zenon DEF Made, RegRec
<1> HIDE DEF k
<1>4. \A t \in Slots : k.active[t] = IF t = s THEN n + 1 ELSE reg.active[t]
  BY <1>1, <1>2
<1> HIDE DEF n
<1>5. k.active \in [Slots -> 0..n + 1]
  BY <1>1, <1>2
<1>6. k.retired \subseteq 1..n /\ 1..n \subseteq 1..n + 1 /\ n + 1 \notin 1..n
      /\ 0..n + 1 \subseteq Nat /\ 1..n \subseteq Nat
  BY <1>1, <1>2
<1>8. \A t \in Slots : reg.active[t] \in 0..n
  BY <1>1
<1>9. \A t, u \in Slots : k.active[t] # 0 /\ k.active[t] = k.active[u] => t = u
  BY <1>1, <1>4, <1>8 DEF Sound
<1>10. \A t \in Slots : k.active[t] # 0 => k.active[t] \notin k.retired
  BY <1>2, <1>4, <1>6 DEF Sound
<1>11. Young(reg) => Young(k)
  BY <1>1, <1>4 DEF Young, n
<1>12. Sound(k)
  BY <1>2, <1>3, <1>3a, <1>5, <1>6, <1>9, <1>10 DEF Sound
<1> QED
  BY <1>2, <1>11, <1>12 DEF k, n

(* Generations keep the handle they were made for.                         *)
Grown(reg) == /\ Len(maker) <= Len(reg.maker) /\ Len(reg.maker) \in Nat
              /\ \A g \in Generations : reg.maker[g] = maker[g]

LEMMA OpenFacts ==
    ASSUME TypeOK, NEW reg, Sound(reg), reg.maker = maker, NEW h \in Handles,
           NEW fresh \in BOOLEAN, NEW o \in OpenOutcomes(reg, h, fresh)
    PROVE  LET s == info[h].slot
           IN  /\ Sound(o.reg) /\ Grown(o.reg) /\ o.store \in 0..Len(o.reg.maker)
               /\ o.store # 0 => /\ o.reg.active[s] = o.store
                                 /\ info[o.reg.maker[o.store]].login = info[h].login
                                 /\ fresh => o.reg.maker[o.store] = h
               /\ \A t \in Slots : t # s => o.reg.active[t] = reg.active[t]
               /\ Young(reg) => Young(o.reg)
<1> DEFINE s == info[h].slot
           g == reg.active[s]
           n == Len(maker)
           kept == Kept(reg, s)
           built == Made(kept, s, h)
<1>1. s \in Slots /\ n \in Nat /\ forgotten \in 0..n
  BY TypeFacts DEF Info, TypeOK
<1>2. g \in 0..n
  BY <1>1 DEF Sound
<1>3. /\ Sound(kept) /\ kept.maker = maker /\ kept.active = [reg.active EXCEPT ![s] = 0]
      /\ Young(reg) => Young(kept)
  BY <1>1, KeptFacts
<1>4. /\ Sound(built) /\ built.maker = Append(maker, h)
      /\ built.active = [kept.active EXCEPT ![s] = n + 1]
      /\ Young(reg) => Young(built)
  <2> HIDE DEF kept, s
  <2>1. forgotten \in 0..Len(kept.maker) /\ Len(kept.maker) = n
    BY <1>1, <1>3
  <2>2. /\ Sound(built) /\ built.maker = Append(kept.maker, h)
        /\ built.active = [kept.active EXCEPT ![s] = Len(kept.maker) + 1]
        /\ Young(kept) => Young(built)
    BY <1>1, <1>3, <2>1, MadeFacts
  <2> QED
    BY <1>3, <2>1, <2>2
<1>5. \/ g # 0 /\ ~fresh /\ LoginOf(g) = info[h].login /\ o = [store |-> g, reg |-> reg]
      \/ o = [store |-> 0, reg |-> reg]
      \/ o = [store |-> 0, reg |-> kept]
      \/ o = [store |-> 0, reg |-> built]
      \/ o = [store |-> n + 1, reg |-> built]
  BY <1>3 DEF OpenOutcomes, Kept, Made
<1>6. reg.active \in [Slots -> 0..n]
  BY DEF Sound
<1>7. maker \in Seq(Handles)
  BY TypeFacts
<1> HIDE DEF kept, built
<1>8. /\ \A t \in Slots : kept.active[t] = IF t = s THEN 0 ELSE reg.active[t]
      /\ \A t \in Slots : built.active[t] = IF t = s THEN n + 1 ELSE reg.active[t]
  BY <1>1, <1>3, <1>4, <1>6
<1>9. /\ Len(built.maker) = n + 1 /\ built.maker[n + 1] = h
      /\ \A i \in Generations : built.maker[i] = maker[i]
  BY <1>4, <1>7, AppendProperties DEF Generations
<1>10. Grown(reg) /\ Grown(kept) /\ Grown(built)
  BY <1>1, <1>3, <1>9 DEF Grown
<1> SUFFICES /\ Sound(o.reg) /\ Grown(o.reg) /\ o.store \in 0..Len(o.reg.maker)
             /\ o.store # 0 => /\ o.reg.active[s] = o.store
                               /\ info[o.reg.maker[o.store]].login = info[h].login
                               /\ fresh => o.reg.maker[o.store] = h
             /\ \A t \in Slots : t # s => o.reg.active[t] = reg.active[t]
             /\ Young(reg) => Young(o.reg)
  OBVIOUS
<1> HIDE DEF s, n
<1>11. CASE o = [store |-> 0, reg |-> reg]
  <2>1. o.store = 0 /\ o.reg = reg
    BY <1>11
  <2> QED
    BY <1>1, <1>10, <2>1 DEF Grown
<1>12. CASE o = [store |-> 0, reg |-> kept]
  <2>1. o.store = 0 /\ o.reg = kept
    BY <1>12
  <2> QED
    <3>1. Sound(o.reg) /\ Grown(o.reg) /\ (Young(reg) => Young(o.reg))
      BY <1>3, <1>10, <2>1
    <3>2. \A t \in Slots : t # s => o.reg.active[t] = reg.active[t]
      BY <1>8, <2>1
    <3>3. o.store \in 0..Len(o.reg.maker)
      BY <2>1, <3>1 DEF Grown
    <3> QED
      BY <2>1, <3>1, <3>2, <3>3
<1>13. CASE o = [store |-> 0, reg |-> built]
  <2>1. o.store = 0 /\ o.reg = built
    BY <1>13
  <2> QED
    <3>1. Sound(o.reg) /\ Grown(o.reg) /\ (Young(reg) => Young(o.reg))
      BY <1>4, <1>10, <2>1
    <3>2. \A t \in Slots : t # s => o.reg.active[t] = reg.active[t]
      BY <1>8, <2>1
    <3>3. o.store \in 0..Len(o.reg.maker)
      BY <2>1, <3>1 DEF Grown
    <3> QED
      BY <2>1, <3>1, <3>2, <3>3
<1>14. CASE o = [store |-> n + 1, reg |-> built]
  <2>1. o.store = n + 1 /\ o.reg = built
    BY <1>14
  <2>2. n + 1 \in 0..Len(built.maker)
    BY <1>1, <1>9
  <2> QED
    BY <1>1, <1>4, <1>8, <1>9, <1>10, <2>1, <2>2
<1>15. CASE g # 0 /\ ~fresh /\ LoginOf(g) = info[h].login /\ o = [store |-> g, reg |-> reg]
  <2>1. o.store = g /\ o.reg = reg
    BY <1>15
  <2>2. g \in 0..Len(reg.maker)
    BY <1>2 DEF n
  <2> QED
    BY <1>1, <1>10, <1>15, <2>1, <2>2 DEF LoginOf
<1> QED
  BY <1>5, <1>11, <1>12, <1>13, <1>14, <1>15

(* Slot after a store was asked of registry, for the session that has it.  *)
Opened(slot, store) == [slot EXCEPT !.store = store, !.fresh = @ /\ store = 0]

LEMMA OpenedFacts ==
    ASSUME NEW n \in Nat, NEW g \in Nat, NEW slot \in SlotRec(n, g), NEW k \in Nat, NEW store \in 0..k
    PROVE  /\ Opened(slot, store) \in SlotRec(n, k)
           /\ Opened(slot, store).session = slot.session /\ Opened(slot, store).store = store
           /\ store = 0 => Opened(slot, store).fresh = slot.fresh
<1>1. (slot.fresh /\ store = 0) \in BOOLEAN
  BY DEF SlotRec
<1>2. store = 0 => (slot.fresh /\ store = 0) = slot.fresh
  BY DEF SlotRec
<1>3. slot = [slot EXCEPT !.store = slot.store]
  BY DEF SlotRec
<1>4. /\ Opened(slot, store) \in SlotRec(n, k)
      /\ Opened(slot, store).session = slot.session /\ Opened(slot, store).store = store
      /\ Opened(slot, store).fresh = (slot.fresh /\ store = 0)
  BY <1>1, Zenon DEF SlotRec, Opened
<1> QED
  BY <1>2, <1>4, Zenon

(* What a session's request for its store leaves.                          *)
Served(h, o) ==
    LET s == info[h].slot
    IN  /\ Sound(o.reg) /\ Grown(o.reg) /\ o.pending \in BOOLEAN
        /\ o.slot \in SlotRec(Len(info), Len(o.reg.maker)) /\ o.slot.session = h
        /\ o.slot.store # 0 => /\ ~o.pending /\ o.reg.active[s] = o.slot.store
                               /\ info[o.reg.maker[o.slot.store]].login = info[h].login
                               /\ info[h].fresh => o.reg.maker[o.slot.store] = h
        /\ o.slot.store = 0 /\ info[h].fresh => o.slot.fresh
        /\ ~resetPending => ~o.pending /\ \A t \in Slots : t # s => o.reg.active[t] = active[t]
        /\ ~o.pending /\ (resetPending \/ Young(Now)) => Young(o.reg)

LEMMA StoreFacts ==
    ASSUME TypeOK, RegistryInv, NEW h \in Handles, NEW slot \in SlotRec(Len(info), Len(maker)),
           slot.session = h, slot.store = 0, info[h].fresh => slot.fresh,
           NEW o \in StoreOutcomes(h, slot)
    PROVE  Served(h, o)
<1> DEFINE s == info[h].slot
<1>0. Len(info) \in Nat /\ Len(maker) \in Nat /\ s \in Slots /\ slot.fresh \in BOOLEAN
  BY TypeFacts DEF Info, SlotRec
<1>1. PICK r \in RegistryOutcomes :
         IF r.ok THEN \E x \in OpenOutcomes(r.reg, h, slot.fresh) :
                        o = [slot |-> Opened(slot, x.store), pending |-> r.pending, reg |-> x.reg]
         ELSE o = [slot |-> slot, pending |-> r.pending, reg |-> r.reg]
  <2>1. o \in UNION {IF r.ok
                THEN {[slot |-> [slot EXCEPT !.store = x.store, !.fresh = @ /\ x.store = 0],
                       pending |-> r.pending, reg |-> x.reg] :
                          x \in OpenOutcomes(r.reg, h, slot.fresh)}
                ELSE {[slot |-> slot, pending |-> r.pending, reg |-> r.reg]} :
                    r \in RegistryOutcomes}
    BY DEF StoreOutcomes
  <2> QED
    BY <2>1, ZenonT(30) DEF Opened
<1>2. /\ Sound(r.reg) /\ r.reg.maker = maker
      /\ r.ok \in BOOLEAN /\ r.pending \in BOOLEAN /\ (r.ok => ~r.pending)
      /\ ~resetPending => r.reg = Now /\ ~r.pending
      /\ resetPending /\ ~r.pending => \A t \in Slots : r.reg.active[t] = 0
  BY RegistryFacts
<1>3. Now.active = active
  BY NowSound
<1>4. ~r.pending /\ (resetPending \/ Young(Now)) => Young(r.reg)
  BY <1>2 DEF Young
<1>5. CASE ~r.ok
  <2>0. o = [slot |-> slot, pending |-> r.pending, reg |-> r.reg]
    BY <1>1, <1>5
  <2>1. o.slot = slot /\ o.pending = r.pending /\ o.reg = r.reg
    BY <2>0, Zenon
  <2>2. Grown(r.reg)
    BY <1>0, <1>2 DEF Grown
  <2>3. \A t \in Slots : ~resetPending => r.reg.active[t] = active[t]
    BY <1>2, <1>3
  <2> QED
    BY <1>2, <1>4, <2>1, <2>2, <2>3 DEF Served
<1>6. CASE r.ok
  <2>1. PICK x \in OpenOutcomes(r.reg, h, slot.fresh) :
           o = [slot |-> Opened(slot, x.store), pending |-> r.pending, reg |-> x.reg]
    BY <1>1, <1>6, Zenon
  <2>2. o.slot = Opened(slot, x.store) /\ o.pending = r.pending /\ o.reg = x.reg
    BY <2>1, Zenon
  <2>3. /\ Sound(x.reg) /\ Grown(x.reg) /\ x.store \in 0..Len(x.reg.maker)
        /\ x.store # 0 => /\ x.reg.active[s] = x.store
                          /\ info[x.reg.maker[x.store]].login = info[h].login
                          /\ slot.fresh => x.reg.maker[x.store] = h
        /\ \A t \in Slots : t # s => x.reg.active[t] = r.reg.active[t]
        /\ Young(r.reg) => Young(x.reg)
    BY <1>0, <1>2, OpenFacts
  <2>4. /\ Opened(slot, x.store) \in SlotRec(Len(info), Len(x.reg.maker))
        /\ Opened(slot, x.store).session = h /\ Opened(slot, x.store).store = x.store
        /\ x.store = 0 => Opened(slot, x.store).fresh = slot.fresh
    <3>1. Len(x.reg.maker) \in Nat
      BY <2>3 DEF Grown
    <3> QED
      BY <1>0, <2>3, <3>1, OpenedFacts
  <2>5. ~r.pending
    BY <1>2, <1>6
  <2>6. \A t \in Slots : ~resetPending /\ t # s => x.reg.active[t] = active[t]
    BY <1>2, <1>3, <2>3
  <2> HIDE DEF s
  <2>7. /\ Sound(o.reg) /\ Grown(o.reg) /\ ~o.pending /\ o.pending \in BOOLEAN
        /\ o.slot \in SlotRec(Len(info), Len(o.reg.maker)) /\ o.slot.session = h
    BY <1>2, <2>2, <2>3, <2>4, <2>5
  <2>8. o.slot.store # 0 => /\ o.reg.active[s] = o.slot.store
                            /\ info[o.reg.maker[o.slot.store]].login = info[h].login
                            /\ info[h].fresh => o.reg.maker[o.slot.store] = h
    BY <2>2, <2>3, <2>4
  <2>9. o.slot.store = 0 /\ info[h].fresh => o.slot.fresh
    BY <2>2, <2>4
  <2>10. resetPending \/ Young(Now) => Young(o.reg)
    BY <1>4, <2>2, <2>3, <2>5
  <2> QED
    BY <2>2, <2>6, <2>7, <2>8, <2>9, <2>10 DEF Served, s
<1> QED
  BY <1>2, <1>5, <1>6

----------------------------------------------------------------------------
(* The queue *)

LEMMA TaskFacts ==
    ASSUME TypeOK, queue # <<>>, queue' = Tail(queue)
    PROVE  /\ Head(queue) = queue[1] /\ 1 \in 1..Len(queue) /\ queue' \in Seq(TaskRec)
           /\ Len(queue') = Len(queue) - 1
           /\ \A i \in 1..Len(queue') : i + 1 \in 1..Len(queue) /\ queue'[i] = queue[i + 1]
           /\ \A i \in 1..Len(queue) : i # 1 => i - 1 \in 1..Len(queue') /\ queue'[i - 1] = queue[i]
<1>1. queue \in Seq(TaskRec) /\ Len(queue) \in Nat
  BY TypeFacts
<1>2. Len(queue) > 0 /\ Head(queue) = queue[1]
  BY <1>1, EmptySeq
<1>3. queue' \in Seq(TaskRec) /\ Len(queue') = Len(queue) - 1
      /\ \A i \in 1..Len(queue') : queue'[i] = queue[i + 1]
  BY <1>1, HeadTailProperties
<1>4. \A i \in 1..Len(queue) : i # 1 => i - 1 \in 1..Len(queue') /\ (i - 1) + 1 = i
  BY <1>1, <1>3
<1>5. \A i \in 1..Len(queue') : i + 1 \in 1..Len(queue)
  BY <1>1, <1>3
<1> QED
  BY <1>1, <1>2, <1>3, <1>4, <1>5

(* A task is taken: what the rest of the queue may do, it could do before. *)
LEMMA TakenFacts ==
    ASSUME IInv, queue # <<>>, queue' = Tail(queue), UNCHANGED <<info, live, gate, sessions>>,
           Len(asked') = Len(asked)
    PROVE  /\ queue' \in Seq(TaskRec) /\ TaskTypes' /\ OrderInv' /\ LiveInv'
           /\ Head(queue).kind # "forget" => (NoForget' <=> NoForget)
           /\ \A h \in Handles : (\A i \in 1..Len(queue) : ~Ends(queue[i], h))
                                    => \A i \in 1..Len(queue') : ~Ends(queue[i], h)'
           /\ \A h \in Handles : Head(queue).kind = "attach" /\ Head(queue).id = h /\ live[h]
                                    => \A i \in 1..Len(queue') : ~Ends(queue[i], h)'
           /\ \A r \in Requests : (\E i \in 1..Len(queue) : queue[i].kind = "request" /\ queue[i].id = r)
                /\ ~(Head(queue).kind = "request" /\ Head(queue).id = r)
                   => \E i \in 1..Len(queue') : queue'[i].kind = "request" /\ queue'[i].id = r
<1>1. /\ Head(queue) = queue[1] /\ 1 \in 1..Len(queue) /\ queue' \in Seq(TaskRec)
      /\ Len(queue') = Len(queue) - 1
      /\ \A i \in 1..Len(queue') : i + 1 \in 1..Len(queue) /\ queue'[i] = queue[i + 1]
      /\ \A i \in 1..Len(queue) : i # 1 => i - 1 \in 1..Len(queue') /\ queue'[i - 1] = queue[i]
  BY TaskFacts DEF IInv
<1>2. /\ Handles' = Handles /\ Requests' = Requests /\ Len(queue) \in Nat
      /\ \A t, h : Ends(t, h)' <=> Ends(t, h)
  BY TypeFacts DEF IInv, Handles, Requests, Ends
<1>3. TaskTypes'
  BY <1>1, <1>2 DEF IInv, TaskTypes
<1>4. OrderInv'
  <2> SUFFICES ASSUME NEW i \in 1..Len(queue'), NEW k \in 1..Len(queue'), i < k,
                      queue'[i].kind = "attach", live[queue'[i].id]
               PROVE  ~Ends(queue'[k], queue'[i].id)
    BY <1>2 DEF OrderInv
  <2>1. i + 1 \in 1..Len(queue) /\ k + 1 \in 1..Len(queue) /\ i + 1 < k + 1
    BY <1>1, <1>2
  <2> QED
    BY <1>1, <2>1 DEF IInv, OrderInv
<1>5. LiveInv'
  BY <1>2 DEF IInv, LiveInv
<1>6. Head(queue).kind # "forget" => (NoForget' <=> NoForget)
  BY <1>1 DEF NoForget
<1>7. ASSUME NEW h \in Handles, \A i \in 1..Len(queue) : ~Ends(queue[i], h)
      PROVE  \A i \in 1..Len(queue') : ~Ends(queue[i], h)'
  BY <1>1, <1>2, <1>7
<1>8. ASSUME NEW h \in Handles, Head(queue).kind = "attach", Head(queue).id = h, live[h]
      PROVE  \A i \in 1..Len(queue') : ~Ends(queue[i], h)'
  <2>1. \A i \in 1..Len(queue') : 1 < i + 1
    BY <1>1, <1>2
  <2> QED
    BY <1>1, <1>2, <1>8, <2>1 DEF IInv, OrderInv
<1>9. ASSUME NEW r \in Requests, NEW i \in 1..Len(queue), queue[i].kind = "request", queue[i].id = r,
             ~(Head(queue).kind = "request" /\ Head(queue).id = r)
      PROVE  \E k \in 1..Len(queue') : queue'[k].kind = "request" /\ queue'[k].id = r
  BY <1>1, <1>9
<1> QED
  BY <1>1, <1>3, <1>4, <1>5, <1>6, <1>7, <1>8, <1>9

----------------------------------------------------------------------------
(* A session is served *)

LEMMA ServedKeeps ==
    ASSUME IInv, NEW h \in Handles, NEW o, Served(h, o),
           storage' = [storage EXCEPT ![info[h].slot] = o.slot],
           resetPending' = o.pending, UseRegistry(o.reg),
           UNCHANGED <<info, live, forgotten>>, NoForget' => NoForget, live[h] => NoForget'
    PROVE  /\ RegistryInv' /\ StoreInv' /\ Grown(o.reg)
           /\ maker' \in Seq(Handles) /\ active' \in [Slots -> 0..Len(maker')]
           /\ retired' \subseteq Generations' /\ resetPending' \in BOOLEAN
           /\ storage' \in [Slots -> SlotRec(Len(info), Len(maker'))]
           /\ forgotten \in 0..Len(maker')
<1> DEFINE s == info[h].slot
<1>1. TypeOK /\ RegistryInv /\ s \in Slots /\ Len(info) \in Nat /\ Len(maker) \in Nat
      /\ h # 0 /\ forgotten \in 0..Len(maker)
  <2>1. TypeOK /\ RegistryInv /\ Len(info) \in Nat /\ Len(maker) \in Nat /\ info[h] \in Info
    BY TypeFacts DEF IInv
  <2>2. forgotten \in 0..Len(maker) /\ h # 0
    BY <2>1 DEF TypeOK, Handles
  <2> QED
    BY <2>1, <2>2 DEF Info
<1>2. /\ maker' = o.reg.maker /\ active' = o.reg.active /\ retired' = o.reg.retired
  BY DEF UseRegistry
<1>3. /\ Sound(o.reg) /\ Grown(o.reg) /\ o.pending \in BOOLEAN
      /\ o.slot \in SlotRec(Len(info), Len(o.reg.maker)) /\ o.slot.session = h
      /\ o.slot.store # 0 => /\ ~o.pending /\ o.reg.active[s] = o.slot.store
                             /\ info[o.reg.maker[o.slot.store]].login = info[h].login
                             /\ info[h].fresh => o.reg.maker[o.slot.store] = h
      /\ o.slot.store = 0 /\ info[h].fresh => o.slot.fresh
      /\ ~resetPending => ~o.pending /\ \A t \in Slots : t # s => o.reg.active[t] = active[t]
      /\ ~o.pending /\ (resetPending \/ Young(Now)) => Young(o.reg)
  BY DEF Served
<1>4. /\ maker' \in Seq(Handles) /\ active' \in [Slots -> 0..Len(maker')]
      /\ retired' \subseteq Generations' /\ resetPending' \in BOOLEAN
  BY <1>2, <1>3 DEF Sound, RegRec, Generations
<1>5. Len(maker) <= Len(maker') /\ Len(maker') \in Nat /\ \A g \in Generations : maker'[g] = maker[g]
  BY <1>2, <1>3 DEF Grown
<1>6. storage' \in [Slots -> SlotRec(Len(info), Len(maker'))] /\ storage'[s] = o.slot
      /\ \A t \in Slots : t # s => storage'[t] = storage[t]
  <2>1. storage \in [Slots -> SlotRec(Len(info), Len(maker))]
    BY <1>1, SlotFacts
  <2>2. SlotRec(Len(info), Len(maker)) \subseteq SlotRec(Len(info), Len(maker'))
    <3>1. 0..Len(maker) \subseteq 0..Len(maker')
      BY <1>1, <1>5
    <3> QED
      BY <3>1, Zenon DEF SlotRec
  <2>3. o.slot \in SlotRec(Len(info), Len(maker'))
    BY <1>2, <1>3
  <2> QED
    BY <1>1, <2>1, <2>2, <2>3
<1>7. Now.active = active
  BY <1>1, NowSound
<1>8. NoForget /\ ~resetPending => Young(Now)
  BY <1>1, <1>7 DEF RegistryInv, Young
<1>9. NoForget' /\ ~o.pending => Young(o.reg)
  BY <1>3, <1>8
<1>10. RegistryInv'
  BY <1>2, <1>3, <1>9 DEF RegistryInv, Sound, Young
<1> HIDE DEF s
<1>11. ASSUME NEW t \in Slots, t = s
       PROVE  OpenStore(t, storage[t])' /\ Intent(t, storage[t])'
  <2>1. o.slot.store # 0 => o.slot.store > forgotten \/ ~live[h]
    BY <1>1, <1>3, <1>9 DEF Young
  <2>2. info[h].slot = t /\ info' = info /\ live' = live /\ forgotten' = forgotten
    BY <1>11 DEF s
  <2>3. o.slot = storage'[t] /\ o.reg.active = active' /\ o.reg.maker = maker' /\ o.pending = resetPending'
    BY <1>2, <1>6, <1>11
  <2>4. OpenStore(t, storage[t])'
    BY <1>1, <1>3, <1>11, <2>1, <2>2, <2>3 DEF OpenStore, LoginOf
  <2>5. Intent(t, storage[t])'
    BY <1>1, <1>3, <2>2, <2>3 DEF Intent
  <2> QED
    BY <2>4, <2>5
<1>12. ASSUME NEW t \in Slots, t # s
       PROVE  OpenStore(t, storage[t])' /\ Intent(t, storage[t])'
  <2>1. OpenStore(t, storage[t]) /\ Intent(t, storage[t]) /\ storage'[t] = storage[t]
    BY <1>6, <1>12 DEF IInv, StoreInv
  <2>2. Intent(t, storage[t])'
    BY <2>1 DEF Intent
  <2>3. CASE storage[t].store = 0
    BY <2>1, <2>2, <2>3 DEF OpenStore
  <2>4. CASE storage[t].store # 0
    <3>1. storage[t].store \in Generations /\ ~resetPending /\ active[t] = storage[t].store
      BY <1>1, <2>1, <2>4, SlotFacts DEF OpenStore
    <3>2. ~resetPending' /\ active'[t] = active[t] /\ maker'[storage[t].store] = maker[storage[t].store]
      BY <1>2, <1>3, <1>5, <1>12, <3>1
    <3> QED
      BY <2>1, <2>2, <3>1, <3>2 DEF OpenStore, LoginOf
  <2> QED
    BY <2>3, <2>4
<1>13. StoreInv'
  <2>1. \A t \in Slots : OpenStore(t, storage[t])' /\ Intent(t, storage[t])'
    BY <1>11, <1>12
  <2> QED
    BY <2>1, Zenon DEF StoreInv
<1> QED
  BY <1>1, <1>3, <1>4, <1>5, <1>6, <1>10, <1>13

----------------------------------------------------------------------------
(* The worker thread *)

LEMMA TaskType ==
    ASSUME TypeOK, UNCHANGED <<uiVars, request, asked, ghosts>>, queue' \in Seq(TaskRec),
           phase' \in {"wait", "run", "reply", "stopped"}, result' \in 0..Len(maker'),
           Len(maker) <= Len(maker'), Len(maker') \in Nat,
           maker' \in Seq(Handles), active' \in [Slots -> 0..Len(maker')],
           retired' \subseteq Generations', resetPending' \in BOOLEAN,
           mailbox' \in Seq([request: Requests, gen: 0..Len(maker')]),
           storage' \in [Slots -> SlotRec(Len(info), Len(maker'))]
    PROVE  TypeOK'
<1>1. /\ Handles' = Handles /\ Requests' = Requests /\ info' = info /\ asked' = asked
      /\ Len(info') = Len(info) /\ Len(asked') = Len(asked)
  BY DEF uiVars, Handles, Requests
<1>2. /\ info' \in Seq([slot: Slots, login: Logins, fresh: BOOLEAN])
      /\ sessions' \in [Slots -> 0..Len(info')] /\ live' \in [Handles' -> BOOLEAN]
      /\ gate' \in [alive: BOOLEAN, locked: BOOLEAN, epoch: Nat] /\ switching' \in BOOLEAN
  BY <1>1 DEF TypeOK, uiVars
<1>3. /\ request' \in 0..Len(asked')
      /\ asked' \in Seq([handle: Handles', epoch: Nat, state: {"open", "shown", "dropped"}])
      /\ sealed' \subseteq Requests' /\ forgotten' \in 0..Len(maker')
  BY <1>1, TypeFacts DEF TypeOK, ghosts
<1>4. /\ queue' \in Seq([kind: {"attach", "detach", "forget", "request"}, id: Nat, out: BOOLEAN])
      /\ storage' \in [Slots -> [session: 0..Len(info'), store: 0..Len(maker'), fresh: BOOLEAN]]
      /\ mailbox' \in Seq([request: Requests', gen: 0..Len(maker')]) /\ maker' \in Seq(Handles')
  BY <1>1 DEF TaskRec, SlotRec
<1> QED
  BY <1>2, <1>3, <1>4, Zenon DEF TypeOK

LEMMA MailGrows ==
    ASSUME TypeOK, NEW n \in Nat, Len(maker) <= n
    PROVE  mailbox \in Seq([request: Requests, gen: 0..n]) /\ result \in 0..n
<1>1. Len(maker) \in Nat /\ mailbox \in Seq([request: Requests, gen: 0..Len(maker)])
      /\ result \in 0..Len(maker)
  BY TypeFacts DEF TypeOK
<1>2. [request: Requests, gen: 0..Len(maker)] \subseteq [request: Requests, gen: 0..n]
  <2>1. 0..Len(maker) \subseteq 0..n
    BY <1>1
  <2> QED
    BY <2>1, Zenon
<1>3. mailbox \in Seq([request: Requests, gen: 0..n])
  <2> DEFINE S == [request: Requests, gen: 0..Len(maker)]
             T == [request: Requests, gen: 0..n]
  <2>1. mailbox \in Seq(S) /\ S \subseteq T
    BY <1>1, <1>2
  <2> HIDE DEF S, T
  <2>2. mailbox \in Seq(T)
    BY <2>1, SeqMonotonic
  <2> QED
    BY <2>2 DEF T
<1>4. result \in 0..n
  BY <1>1
<1> QED
  BY <1>3, <1>4

(* A task that is no request is taken between two requests.                *)
LEMMA IdleTask ==
    ASSUME IInv, phase = "wait", queue # <<>>, queue' = Tail(queue), Head(queue).kind # "request",
           UNCHANGED <<uiVars, phase, request, mailbox, asked, ghosts>>
    PROVE  /\ TaskTypes' /\ OrderInv' /\ LiveInv' /\ StageInv' /\ EpochInv' /\ SettledInv'
           /\ RequestsAccounted' /\ Requests' = Requests
           /\ \A r \in Requests : IsCurrent(r)' <=> IsCurrent(r)
<1>1. /\ UNCHANGED <<info, live, gate, sessions, switching, asked, sealed, phase, request, mailbox>>
      /\ Requests' = Requests /\ Len(asked') = Len(asked)
  BY DEF uiVars, ghosts, Requests
<1>2. \A r \in Requests : IsCurrent(r)' <=> IsCurrent(r)
  BY <1>1 DEF IsCurrent, Current
<1>3. TaskTypes' /\ OrderInv' /\ LiveInv'
  BY <1>1, TakenFacts
<1>4. StageInv' /\ EpochInv'
  BY <1>1 DEF IInv, StageInv, EpochInv
<1>5. SettledInv'
  BY <1>1, <1>2 DEF IInv, SettledInv
<1>6. \A r \in Requests : (\E i \in 1..Len(queue) : queue[i].kind = "request" /\ queue[i].id = r)
         => \E i \in 1..Len(queue') : queue'[i].kind = "request" /\ queue'[i].id = r
  BY <1>1, TakenFacts
<1>7. RequestsAccounted'
  BY <1>1, <1>6, SMTT(30) DEF IInv, RequestsAccounted
<1> QED
  BY <1>1, <1>2, <1>3, <1>4, <1>5, <1>7

(* What a current reply was read from is held by its session still.        *)
LEMMA HeldFacts ==
    ASSUME IInv, NEW i \in 1..Len(mailbox), mailbox[i].gen # 0, IsCurrent(mailbox[i].request)
    PROVE  LET r == mailbox[i].request
               h == asked[r].handle
               s == info[h].slot
           IN  /\ r \in Requests /\ h \in Handles /\ s \in Slots /\ live[h] /\ gate.alive
               /\ storage[s].session = h /\ storage[s].store = mailbox[i].gen
               /\ \A k \in 1..Len(queue) : ~Ends(queue[k], h)
<1> DEFINE r == mailbox[i].request
           h == asked[r].handle
           s == info[h].slot
<1>1. TypeOK /\ r \in Requests
  BY TypeFacts DEF IInv
<1>2. h \in Handles
  BY <1>1, TypeFacts DEF Asked
<1>3. s \in Slots
  BY <1>1, <1>2, TypeFacts, Zenon DEF Info
<1>4. live[h] /\ gate.alive
  BY SMTT(30) DEF IsCurrent, Current
<1>5. storage[s].session = h /\ storage[s].store = mailbox[i].gen
  BY DEF IInv, ReplyInv, Held
<1>6. h # 0
  BY <1>2 DEF Handles
<1> QED
  BY <1>1, <1>2, <1>3, <1>4, <1>5, <1>6, Zenon DEF IInv, HoldInv

LEMMA AttachTaskKeeps == ASSUME IInv, AttachTask PROVE IInv'
<1>1. /\ phase = "wait" /\ queue # <<>> /\ queue' = Tail(queue) /\ Head(queue).kind = "attach"
      /\ UNCHANGED <<uiVars, phase, request, result, mailbox, asked, ghosts>>
  BY DEF AttachTask, Take
<1>2. TypeOK /\ RegistryInv /\ Len(info) \in Nat /\ Len(maker) \in Nat
  BY TypeFacts DEF IInv
<1>3. PICK h \in Handles, s \in Slots : h = Head(queue).id /\ s = info[h].slot /\ info[h] \in Info
  <2>1. Head(queue) = queue[1] /\ 1 \in 1..Len(queue)
    BY <1>1, <1>2, TaskFacts
  <2>2. Head(queue).id \in Handles
    BY <1>1, <2>1 DEF IInv, TaskTypes
  <2> QED
    BY <1>2, <2>2, TypeFacts DEF Info
<1> DEFINE slot == [session |-> h, store |-> 0, fresh |-> info[h].fresh]
<1>4. slot \in SlotRec(Len(info), Len(maker)) /\ slot.session = h /\ slot.store = 0
      /\ (info[h].fresh => slot.fresh)
  <2>1. h \in 0..Len(info) /\ 0 \in 0..Len(maker) /\ info[h].fresh \in BOOLEAN
    BY <1>2, <1>3 DEF Handles, Info
  <2> QED
    BY <2>1, Zenon DEF SlotRec
<1>5. PICK o \in StoreOutcomes(h, slot) :
         /\ storage' = [storage EXCEPT ![s] = o.slot] /\ resetPending' = o.pending /\ UseRegistry(o.reg)
  BY <1>3 DEF AttachTask
<1> HIDE DEF slot
<1>6. Served(h, o)
  BY <1>2, <1>3, <1>4, StoreFacts
<1>7. /\ info' = info /\ live' = live /\ gate' = gate /\ sessions' = sessions /\ forgotten' = forgotten
      /\ asked' = asked
  BY <1>1 DEF uiVars, ghosts
<1>8. /\ queue' \in Seq(TaskRec) /\ (NoForget' <=> NoForget)
      /\ \A k \in Handles : (\A i \in 1..Len(queue) : ~Ends(queue[i], k))
                               => \A i \in 1..Len(queue') : ~Ends(queue[i], k)'
      /\ live[h] => \A i \in 1..Len(queue') : ~Ends(queue[i], h)'
  BY <1>1, <1>3, <1>7, TakenFacts
<1>9. live[h] => NoForget'
  BY <1>8 DEF NoForget, Ends
<1>10. /\ RegistryInv' /\ StoreInv' /\ Grown(o.reg)
       /\ maker' \in Seq(Handles) /\ active' \in [Slots -> 0..Len(maker')]
       /\ retired' \subseteq Generations' /\ resetPending' \in BOOLEAN
       /\ storage' \in [Slots -> SlotRec(Len(info), Len(maker'))]
  <2>1. UNCHANGED <<info, live, forgotten>> /\ (NoForget' => NoForget)
    BY <1>7, <1>8
  <2> QED
    BY <1>3, <1>5, <1>6, <1>9, <2>1, ServedKeeps
<1>11. Len(maker) <= Len(maker') /\ Len(maker') \in Nat
  BY <1>5, <1>10 DEF Grown, UseRegistry
<1>12. TypeOK'
  <2>1. mailbox' \in Seq([request: Requests, gen: 0..Len(maker')]) /\ result' \in 0..Len(maker')
    BY <1>1, <1>2, <1>11, MailGrows
  <2>2. UNCHANGED <<uiVars, request, asked, ghosts>> /\ phase' \in {"wait", "run", "reply", "stopped"}
    BY <1>1
  <2> QED
    BY <1>2, <1>8, <1>10, <1>11, <2>1, <2>2, TaskType
<1>13. /\ TaskTypes' /\ OrderInv' /\ LiveInv' /\ StageInv' /\ EpochInv' /\ SettledInv'
       /\ RequestsAccounted' /\ Requests' = Requests
       /\ \A r \in Requests : IsCurrent(r)' <=> IsCurrent(r)
  BY <1>1, IdleTask
<1>14. storage'[s] = o.slot /\ o.slot.session = h /\ \A t \in Slots : t # s => storage'[t] = storage[t]
  BY <1>2, <1>3, <1>5, <1>6, SlotFacts DEF Served
<1>15. HoldInv'
  <2>1. ASSUME NEW t \in Slots, storage'[t].session # 0, live[storage'[t].session]
        PROVE  \A i \in 1..Len(queue') : ~Ends(queue[i], storage[t].session)'
    <3>1. CASE t = s
      BY <1>8, <1>14, <2>1, <3>1
    <3>2. CASE t # s
      <4>1. storage'[t] = storage[t] /\ storage[t].session \in Handles
        BY <1>2, <1>14, <2>1, <3>2, SlotFacts
      <4>2. \A i \in 1..Len(queue) : ~Ends(queue[i], storage[t].session)
        BY <2>1, <4>1 DEF IInv, HoldInv
      <4> QED
        BY <1>8, <4>1, <4>2
    <3> QED
      BY <3>1, <3>2
  <2> QED
    BY <1>7, <2>1 DEF HoldInv
<1>16. ReplyInv'
  <2>1. ASSUME NEW i \in 1..Len(mailbox), mailbox[i].gen # 0, IsCurrent(mailbox[i].request)
        PROVE  Held(mailbox[i].request, mailbox[i].gen)'
    <3> DEFINE k == asked[mailbox[i].request].handle
               t == info[k].slot
    <3>1. /\ k \in Handles /\ t \in Slots /\ storage[t].session = k /\ storage[t].store = mailbox[i].gen
          /\ \A n \in 1..Len(queue) : ~Ends(queue[n], k)
      BY <2>1, HeldFacts, Zenon
    <3>2. t # s
      <4>1. Head(queue) = queue[1] /\ 1 \in 1..Len(queue)
        BY <1>1, <1>2, TaskFacts, ZenonT(30)
      <4> QED
        BY <1>1, <1>3, <3>1, <4>1, Zenon DEF Ends
    <3>3. storage'[t] = storage[t]
      BY <1>14, <3>1, <3>2
    <3> QED
      BY <1>1, <1>7, <3>1, <3>3, Zenon DEF Held
  <2>2. \A i \in 1..Len(mailbox) : mailbox[i].request \in Requests
    BY <1>2, TypeFacts
  <2> QED
    BY <1>1, <1>13, <2>1, <2>2, Zenon DEF ReplyInv
<1> QED
  BY <1>10, <1>12, <1>13, <1>15, <1>16 DEF IInv

(* A task closes the slots of C, whose sessions it ends, and leaves the    *)
(* registry as in reg.                                                     *)
Closes(C, reg, pending) ==
    /\ C \subseteq Slots /\ Sound(reg) /\ reg.maker = maker /\ pending \in BOOLEAN
    /\ \A t \in C : storage[t].session # 0 => Ends(Head(queue), storage[t].session)
    /\ \A t \in C : storage'[t].session = 0 /\ storage'[t].store = 0
    /\ \A t \in Slots \ C : storage'[t] = storage[t]
    /\ \A t \in Slots \ C : storage[t].store # 0 => ~pending /\ reg.active[t] = active[t]
    /\ storage' \in [Slots -> SlotRec(Len(info), Len(maker))]
    /\ resetPending' = pending /\ UseRegistry(reg)

LEMMA ClosesKeeps ==
    ASSUME IInv, NEW C, NEW reg, NEW pending, Closes(C, reg, pending),
           phase = "wait", queue # <<>>, queue' = Tail(queue), Head(queue).kind # "request",
           NoForget' /\ ~pending => Young(reg),
           UNCHANGED <<uiVars, phase, request, result, mailbox, asked, ghosts>>
    PROVE  IInv'
<1>1. TypeOK /\ Len(maker) \in Nat /\ Len(info) \in Nat
  BY TypeFacts DEF IInv
<1>2. /\ info' = info /\ live' = live /\ gate' = gate /\ sessions' = sessions /\ forgotten' = forgotten
      /\ asked' = asked
  BY DEF uiVars, ghosts
<1>3. /\ maker' = maker /\ active' = reg.active /\ retired' = reg.retired
      /\ resetPending' = pending /\ pending \in BOOLEAN /\ Sound(reg)
  BY DEF UseRegistry, Closes
<1>4. /\ TaskTypes' /\ OrderInv' /\ LiveInv' /\ StageInv' /\ EpochInv' /\ SettledInv'
      /\ RequestsAccounted' /\ Requests' = Requests
      /\ \A r \in Requests : IsCurrent(r)' <=> IsCurrent(r)
  BY IdleTask
<1>5. /\ queue' \in Seq(TaskRec)
      /\ \A k \in Handles : (\A i \in 1..Len(queue) : ~Ends(queue[i], k))
                               => \A i \in 1..Len(queue') : ~Ends(queue[i], k)'
  BY <1>2, TakenFacts
<1>6. TypeOK'
  <2>1. /\ active' \in [Slots -> 0..Len(maker')] /\ retired' \subseteq Generations'
        /\ resetPending' \in BOOLEAN /\ maker' \in Seq(Handles)
    BY <1>3 DEF Sound, RegRec, Generations, Closes
  <2>2. mailbox' \in Seq([request: Requests, gen: 0..Len(maker')]) /\ result' \in 0..Len(maker')
    <3>1. Len(maker) <= Len(maker)
      BY <1>1
    <3> QED
      BY <1>1, <1>3, <3>1, MailGrows
  <2>3. phase' \in {"wait", "run", "reply", "stopped"} /\ UNCHANGED <<uiVars, request, asked, ghosts>>
    OBVIOUS
  <2>4. storage' \in [Slots -> SlotRec(Len(info), Len(maker'))]
        /\ Len(maker) <= Len(maker') /\ Len(maker') \in Nat
    BY <1>1, <1>3 DEF Closes
  <2> QED
    BY <1>1, <1>5, <2>1, <2>2, <2>3, <2>4, TaskType
<1>7. RegistryInv'
  BY <1>2, <1>3 DEF RegistryInv, Sound, Young
<1>8. StoreInv'
  <2>1. ASSUME NEW t \in Slots PROVE OpenStore(t, storage[t])' /\ Intent(t, storage[t])'
    <3>1. CASE t \in C
      BY <3>1 DEF Closes, OpenStore, Intent
    <3>2. CASE t \notin C
      <4>1. /\ storage'[t] = storage[t] /\ OpenStore(t, storage[t]) /\ Intent(t, storage[t])
            /\ storage[t].store # 0 => ~pending /\ active'[t] = active[t]
        BY <1>3, <3>2 DEF Closes, IInv, StoreInv
      <4> QED
        BY <1>2, <1>3, <4>1 DEF OpenStore, Intent, LoginOf
    <3> QED
      BY <3>1, <3>2
  <2> QED
    BY <2>1 DEF StoreInv
<1>9. HoldInv'
  <2>1. ASSUME NEW t \in Slots, storage'[t].session # 0, live[storage'[t].session]
        PROVE  \A i \in 1..Len(queue') : ~Ends(queue[i], storage[t].session)'
    <3>1. storage'[t] = storage[t] /\ storage[t].session \in Handles
      BY <1>1, <2>1, SlotFacts DEF Closes
    <3>2. \A i \in 1..Len(queue) : ~Ends(queue[i], storage[t].session)
      BY <2>1, <3>1 DEF IInv, HoldInv
    <3> QED
      BY <1>5, <3>1, <3>2
  <2> QED
    BY <1>2, <2>1 DEF HoldInv
<1>10. ReplyInv'
  <2>1. ASSUME NEW i \in 1..Len(mailbox), mailbox[i].gen # 0, IsCurrent(mailbox[i].request)
        PROVE  Held(mailbox[i].request, mailbox[i].gen)'
    <3> DEFINE k == asked[mailbox[i].request].handle
               t == info[k].slot
    <3>1. /\ k \in Handles /\ t \in Slots /\ storage[t].session = k /\ storage[t].store = mailbox[i].gen
          /\ \A n \in 1..Len(queue) : ~Ends(queue[n], k)
      BY <2>1, HeldFacts, Zenon
    <3>2. t \notin C
      <4>1. Head(queue) = queue[1] /\ 1 \in 1..Len(queue) /\ k # 0
        BY <1>1, <3>1, TaskFacts, SMTT(30) DEF Handles
      <4> QED
        BY <3>1, <4>1, ZenonT(30) DEF Closes
    <3>3. storage'[t] = storage[t]
      BY <3>1, <3>2, Zenon DEF Closes
    <3> QED
      BY <1>2, <3>1, <3>3, Zenon DEF Held
  <2>2. \A i \in 1..Len(mailbox) : mailbox[i].request \in Requests
    BY <1>1, TypeFacts, Zenon
  <2> QED
    BY <1>4, <2>1, <2>2, Zenon DEF ReplyInv
<1> QED
  BY <1>4, <1>6, <1>7, <1>8, <1>9, <1>10 DEF IInv

LEMMA LogoutFacts ==
    ASSUME TypeOK, RegistryInv, NEW h \in Handles, NEW o \in LogoutOutcomes(h)
    PROVE  /\ Sound(o.reg) /\ o.reg.maker = maker /\ o.pending \in BOOLEAN
           /\ ~resetPending => ~o.pending /\ \A t \in Slots : t # info[h].slot => o.reg.active[t] = active[t]
           /\ ~o.pending /\ (resetPending \/ Young(Now)) => Young(o.reg)
<1> DEFINE s == info[h].slot
<1>1. s \in Slots /\ Now.active = active
  BY TypeFacts, NowSound DEF Info
<1>2. PICK r \in RegistryOutcomes :
         \/ o = r
         \/ r.reg.active[s] # 0
            /\ o = [r EXCEPT !.reg.active[s] = 0, !.reg.retired = @ \cup {r.reg.active[s]}]
  BY Zenon DEF LogoutOutcomes
<1>3. /\ Sound(r.reg) /\ r.reg.maker = maker
      /\ r.ok \in BOOLEAN /\ r.pending \in BOOLEAN /\ (r.ok => ~r.pending)
      /\ ~resetPending => r.reg = Now /\ ~r.pending
      /\ resetPending /\ ~r.pending => \A t \in Slots : r.reg.active[t] = 0
  BY RegistryFacts
<1>4. ~r.pending /\ (resetPending \/ Young(Now)) => Young(r.reg)
  BY <1>3 DEF Young
<1>5. CASE o = r
  BY <1>1, <1>3, <1>4, <1>5
<1>6. CASE o # r
  <2>1. PICK ok, pending, reg : r = [ok |-> ok, pending |-> pending, reg |-> reg]
    BY DEF RegistryOutcomes, ResetOutcomes
  <2>2. r.reg = reg /\ r.pending = pending
    BY <2>1, Zenon
  <2>3. o = [ok |-> ok, pending |-> pending,
             reg |-> [reg EXCEPT !.active[s] = 0, !.retired = @ \cup {reg.active[s]}]]
        /\ reg.active[s] # 0
    BY <1>2, <1>6, <2>1
  <2>4. {reg.active[s]} = {reg.active[s]} \ {0}
    BY <2>3
  <2>5. o.pending = r.pending /\ o.reg = Kept(r.reg, s)
    BY <2>2, <2>3, <2>4, Zenon DEF Kept
  <2>6. /\ Sound(o.reg) /\ o.reg.maker = r.reg.maker /\ o.reg.active = [r.reg.active EXCEPT ![s] = 0]
        /\ Young(r.reg) => Young(o.reg)
    BY <1>1, <1>3, <2>5, KeptFacts
  <2>7. r.reg.active \in [Slots -> 0..Len(r.reg.maker)]
    BY <1>3 DEF Sound
  <2>8. \A t \in Slots : t # s => o.reg.active[t] = r.reg.active[t]
    BY <1>1, <2>6, <2>7
  <2> QED
    BY <1>1, <1>3, <1>4, <2>5, <2>6, <2>8
<1> QED
  BY <1>5, <1>6

LEMMA DetachTaskKeeps == ASSUME IInv, DetachTask PROVE IInv'
<1>1. /\ phase = "wait" /\ queue # <<>> /\ queue' = Tail(queue) /\ Head(queue).kind = "detach"
      /\ UNCHANGED <<uiVars, phase, request, result, mailbox, asked, ghosts>>
  BY DEF DetachTask, Take
<1>2. TypeOK /\ RegistryInv /\ storage \in [Slots -> SlotRec(Len(info), Len(maker))]
      /\ Len(info) \in Nat /\ Len(maker) \in Nat
  BY SlotFacts, TypeFacts DEF IInv
<1>3. PICK h \in Handles, s \in Slots : h = Head(queue).id /\ s = info[h].slot
  <2>1. Head(queue) = queue[1] /\ 1 \in 1..Len(queue)
    BY <1>1, <1>2, TaskFacts
  <2>2. Head(queue).id \in Handles
    BY <1>1, <2>1 DEF IInv, TaskTypes
  <2> QED
    BY <1>2, <2>2, TypeFacts DEF Info
<1>4. /\ Sound(Now) /\ Now.maker = maker /\ Now.active = active /\ Now.retired = retired
      /\ resetPending \in BOOLEAN
  BY <1>2, NowSound DEF TypeOK
<1>5. NoForget' <=> NoForget
  <2>1. UNCHANGED <<info, live, gate, sessions>> /\ Len(asked') = Len(asked)
    BY <1>1 DEF uiVars
  <2> QED
    BY <1>1, <2>1, TakenFacts
<1>6. NoForget /\ ~resetPending => Young(Now)
  BY <1>2, <1>4 DEF RegistryInv, Young
<1>7. \A t \in Slots : storage[t].store # 0 => ~resetPending
  BY DEF IInv, StoreInv, OpenStore
<1>8. CASE storage[s].session # h
  <2>1. UNCHANGED <<storage, resetPending, registryVars>>
    BY <1>3, <1>8 DEF DetachTask
  <2>2. Closes({}, Now, resetPending)
    BY <1>2, <1>4, <1>7, <2>1, Zenon DEF Closes, UseRegistry, registryVars
  <2> QED
    BY <1>1, <1>5, <1>6, <2>2, ClosesKeeps
<1>9. CASE storage[s].session = h
  <2>1. storage' = [storage EXCEPT ![s].session = 0, ![s].store = 0]
    BY <1>3, <1>9, Zenon DEF DetachTask
  <2>2. /\ storage' \in [Slots -> SlotRec(Len(info), Len(maker))]
        /\ storage'[s].session = 0 /\ storage'[s].store = 0
        /\ \A t \in Slots \ {s} : storage'[t] = storage[t]
    <3> DEFINE o == [storage[s] EXCEPT !.session = 0, !.store = 0]
    <3>1. storage[s] \in SlotRec(Len(info), Len(maker)) /\ 0 \in 0..Len(info) /\ 0 \in 0..Len(maker)
      BY <1>2
    <3>2. o \in SlotRec(Len(info), Len(maker)) /\ o.session = 0 /\ o.store = 0
      BY <3>1, Zenon DEF SlotRec
    <3>3. storage' = [storage EXCEPT ![s] = o]
      BY <1>2, <2>1
    <3> HIDE DEF o
    <3> QED
      BY <1>2, <3>2, <3>3
  <2>3. Ends(Head(queue), storage[s].session)
    BY <1>1, <1>3, <1>9 DEF Ends
  <2>4. CASE UNCHANGED <<resetPending, registryVars>>
    <3>1. Closes({s}, Now, resetPending)
      BY <1>2, <1>4, <1>7, <2>2, <2>3, <2>4 DEF Closes, UseRegistry, registryVars
    <3> QED
      BY <1>1, <1>5, <1>6, <3>1, ClosesKeeps
  <2>5. CASE \E o \in LogoutOutcomes(h) : UseRegistry(o.reg) /\ resetPending' = o.pending
    <3>1. PICK o \in LogoutOutcomes(h) : UseRegistry(o.reg) /\ resetPending' = o.pending
      BY <2>5
    <3>2. /\ Sound(o.reg) /\ o.reg.maker = maker /\ o.pending \in BOOLEAN
          /\ ~resetPending => ~o.pending /\ \A t \in Slots : t # s => o.reg.active[t] = active[t]
          /\ ~o.pending /\ (resetPending \/ Young(Now)) => Young(o.reg)
      BY <1>2, <1>3, LogoutFacts
    <3>3. Closes({s}, o.reg, o.pending)
      BY <1>2, <1>7, <2>2, <2>3, <3>1, <3>2 DEF Closes
    <3>4. NoForget' /\ ~o.pending => Young(o.reg)
      BY <1>5, <1>6, <3>2
    <3> QED
      BY <1>1, <3>3, <3>4, ClosesKeeps
  <2> QED
    BY <1>3, <1>9, <2>4, <2>5, Zenon DEF DetachTask
<1> QED
  BY <1>8, <1>9, ZenonT(30)

LEMMA ForgetTaskKeeps == ASSUME IInv, ForgetTask PROVE IInv'
<1>1. /\ phase = "wait" /\ queue # <<>> /\ queue' = Tail(queue) /\ Head(queue).kind = "forget"
      /\ UNCHANGED <<uiVars, phase, request, result, mailbox, asked, ghosts>>
      /\ storage' = [s \in Slots |-> [storage[s] EXCEPT !.session = 0, !.store = 0]]
  BY DEF ForgetTask, Take
<1>2. TypeOK /\ RegistryInv /\ storage \in [Slots -> SlotRec(Len(info), Len(maker))]
      /\ Len(info) \in Nat /\ Len(maker) \in Nat
  BY SlotFacts, TypeFacts DEF IInv
<1>3. PICK r \in ResetOutcomes : resetPending' = r.pending /\ UseRegistry(r.reg)
  BY DEF ForgetTask
<1>4. /\ Sound(r.reg) /\ r.reg.maker = maker
      /\ r.ok \in BOOLEAN /\ r.pending \in BOOLEAN /\ (r.ok <=> ~r.pending)
      /\ r.ok => \A s \in Slots : r.reg.active[s] = 0
  BY <1>2, ResetFacts
<1>5. /\ storage' \in [Slots -> SlotRec(Len(info), Len(maker))]
      /\ \A t \in Slots : storage'[t].session = 0 /\ storage'[t].store = 0
  <2>1. ASSUME NEW t \in Slots
        PROVE  /\ [storage[t] EXCEPT !.session = 0, !.store = 0] \in SlotRec(Len(info), Len(maker))
               /\ [storage[t] EXCEPT !.session = 0, !.store = 0].session = 0
               /\ [storage[t] EXCEPT !.session = 0, !.store = 0].store = 0
    <3>1. storage[t] \in SlotRec(Len(info), Len(maker)) /\ 0 \in 0..Len(info) /\ 0 \in 0..Len(maker)
      BY <1>2, SMTT(30)
    <3> QED
      BY <3>1, Zenon DEF SlotRec
  <2> QED
    BY <1>1, <2>1
<1>6. Closes(Slots, r.reg, r.pending)
  BY <1>1, <1>3, <1>4, <1>5 DEF Closes, Ends
<1>7. ~r.pending => Young(r.reg)
  BY <1>4 DEF Young
<1> QED
  BY <1>1, <1>6, <1>7, ClosesKeeps

LEMMA Unserved ==
    ASSUME IInv, UNCHANGED <<info, live, forgotten, storage, resetPending, registryVars>>,
           NoForget' <=> NoForget
    PROVE  RegistryInv' /\ StoreInv'
<1>1. RegistryInv'
  BY DEF IInv, RegistryInv, registryVars
<1>2. ASSUME NEW t \in Slots PROVE OpenStore(t, storage[t])' /\ Intent(t, storage[t])'
  <2>1. OpenStore(t, storage[t]) /\ Intent(t, storage[t])
    BY DEF IInv, StoreInv
  <2> QED
    BY <2>1 DEF OpenStore, Intent, LoginOf, registryVars
<1> QED
  BY <1>1, <1>2 DEF StoreInv

(* A request is settled: nothing else about it changes.                    *)
LEMMA SettleFacts ==
    ASSUME IInv, NEW r \in Requests, NEW how \in {"shown", "dropped"}, Settle(r, how),
           UNCHANGED <<uiVars, ghosts>>, how = "dropped" => ~IsCurrent(r),
           how = "shown" => r \notin sealed
    PROVE  /\ asked' \in Seq(Asked) /\ Len(asked') = Len(asked) /\ Requests' = Requests
           /\ \A q \in Requests : /\ asked'[q].handle = asked[q].handle
                                  /\ IsCurrent(q)' <=> IsCurrent(q)
                                  /\ asked'[q].state = "open" => q # r /\ asked[q].state = "open"
           /\ EpochInv' /\ SettledInv'
<1>1. asked \in Seq(Asked) /\ Len(asked) \in Nat /\ \A q \in Requests : asked[q] \in Asked
  BY TypeFacts DEF IInv
<1> DEFINE rec == [asked[r] EXCEPT !.state = how]
<1>2. asked' = [asked EXCEPT ![r] = rec]
  BY <1>1 DEF Settle
<1>3. rec \in Asked /\ rec.handle = asked[r].handle /\ rec.epoch = asked[r].epoch /\ rec.state = how
  BY <1>1 DEF Asked
<1> HIDE DEF rec
<1>4. /\ asked' \in Seq(Asked) /\ Len(asked') = Len(asked) /\ asked'[r] = rec
      /\ \A q \in Requests : q # r => asked'[q] = asked[q]
  BY <1>1, <1>2, <1>3, ExceptSeq DEF Requests
<1>5. \A q \in Requests : /\ asked'[q].handle = asked[q].handle /\ asked'[q].epoch = asked[q].epoch
                          /\ q = r => asked'[q].state = how
                          /\ q # r => asked'[q].state = asked[q].state
  <2>1. /\ asked'[r].handle = asked[r].handle /\ asked'[r].epoch = asked[r].epoch
        /\ asked'[r].state = how
    BY <1>3, <1>4
  <2>2. ASSUME NEW q \in Requests, q # r PROVE asked'[q] = asked[q]
    BY <1>4, <2>2, Zenon
  <2> QED
    BY <2>1, <2>2, Zenon
<1>6. Requests' = Requests /\ UNCHANGED <<gate, live, switching, sealed>>
  BY <1>4 DEF Requests, uiVars, ghosts
<1>7. \A q \in Requests : IsCurrent(q)' <=> IsCurrent(q)
  BY <1>5, <1>6 DEF IsCurrent, Current
<1>8. sealed \subseteq Requests
  BY DEF IInv, TypeOK
<1>9. EpochInv'
  BY <1>5, <1>6, <1>8 DEF IInv, EpochInv
<1>10. SettledInv'
  BY <1>5, <1>6, <1>7, <1>8 DEF IInv, SettledInv
<1> QED
  BY <1>4, <1>5, <1>6, <1>7, <1>9, <1>10

LEMMA ReplyType ==
    ASSUME TypeOK, UNCHANGED <<uiVars, storage, resetPending, registryVars, ghosts>>,
           queue' \in Seq(TaskRec), asked' \in Seq(Asked), Len(asked') = Len(asked),
           phase' \in {"wait", "run", "reply", "stopped"}, request' \in 0..Len(asked),
           result' \in 0..Len(maker),
           mailbox' \in Seq([request: Requests, gen: 0..Len(maker)])
    PROVE  TypeOK'
<1>1. /\ UNCHANGED <<info, live, sessions, gate, switching, maker, active, retired, sealed, forgotten>>
      /\ Handles' = Handles /\ Requests' = Requests /\ Generations' = Generations
  BY DEF uiVars, registryVars, ghosts, Handles, Requests, Generations
<1> QED
  BY <1>1 DEF TypeOK, TaskRec, Asked

LEMMA TakeRequestKeeps == ASSUME IInv, TakeRequest PROVE IInv'
<1>1. /\ phase = "wait" /\ queue # <<>> /\ queue' = Tail(queue) /\ Head(queue).kind = "request"
      /\ UNCHANGED <<uiVars, result, storage, resetPending, registryVars, mailbox, ghosts>>
  BY DEF TakeRequest, Take
<1>2. /\ TypeOK /\ UNCHANGED <<info, live, gate, sessions, switching, maker, forgotten, sealed>>
      /\ Len(asked) \in Nat /\ Len(mailbox) \in Nat
  BY <1>1, TypeFacts DEF IInv, uiVars, registryVars, ghosts
<1>3. PICK r \in Requests : r = Head(queue).id
  <2>1. Head(queue) = queue[1] /\ 1 \in 1..Len(queue)
    BY <1>1, <1>2, TaskFacts
  <2> QED
    BY <1>1, <2>1 DEF IInv, TaskTypes
<1>4. r # 0 /\ r \in 0..Len(asked) /\ request = 0
  BY <1>1, <1>2 DEF Requests, IInv, StageInv
<1>5. /\ asked' \in Seq(Asked) /\ Len(asked') = Len(asked) /\ Requests' = Requests
      /\ \A q \in Requests : /\ asked'[q].handle = asked[q].handle
                             /\ IsCurrent(q)' <=> IsCurrent(q)
                             /\ asked'[q].state = "open" => asked[q].state = "open"
      /\ \A q \in Requests : asked'[q].state = "open" => q = request' \/ q # r
      /\ EpochInv' /\ SettledInv'
  <2>1. CASE IsCurrent(r)
    <3>1. asked' = asked /\ request' = r
      BY <1>3, <2>1 DEF TakeRequest
    <3>2. asked \in Seq(Asked) /\ Requests' = Requests
      BY <1>2, <3>1, TypeFacts DEF Requests
    <3>3. \A q \in Requests : IsCurrent(q)' <=> IsCurrent(q)
      BY <1>2, <3>1 DEF IsCurrent, Current
    <3>4. EpochInv' /\ SettledInv'
      BY <1>2, <3>1, <3>2, <3>3 DEF IInv, EpochInv, SettledInv
    <3> QED
      BY <3>1, <3>2, <3>3, <3>4
  <2>2. CASE ~IsCurrent(r)
    <3>1. Settle(r, "dropped") /\ UNCHANGED <<uiVars, ghosts>>
      BY <1>1, <1>3, <2>2 DEF TakeRequest
    <3> QED
      BY <2>2, <3>1, SettleFacts
  <2> QED
    BY <2>1, <2>2
<1>6. \/ phase' = "run" /\ request' = r
      \/ phase' = "wait" /\ request' = 0
  BY <1>1, <1>3, <1>4 DEF TakeRequest
<1>7. /\ queue' \in Seq(TaskRec) /\ TaskTypes' /\ OrderInv' /\ LiveInv' /\ (NoForget' <=> NoForget)
      /\ \A h \in Handles : (\A i \in 1..Len(queue) : ~Ends(queue[i], h))
                               => \A i \in 1..Len(queue') : ~Ends(queue[i], h)'
      /\ \A q \in Requests : (\E i \in 1..Len(queue) : queue[i].kind = "request" /\ queue[i].id = q)
                                /\ q # r
                               => \E i \in 1..Len(queue') : queue'[i].kind = "request" /\ queue'[i].id = q
  BY <1>1, <1>2, <1>3, <1>5, TakenFacts
<1>8. TypeOK'
  <2>1. mailbox' \in Seq([request: Requests, gen: 0..Len(maker)]) /\ result' \in 0..Len(maker)
    BY <1>1, <1>2, TypeFacts DEF TypeOK
  <2>2. phase' \in {"wait", "run", "reply", "stopped"} /\ request' \in 0..Len(asked)
    BY <1>4, <1>6
  <2> QED
    BY <1>1, <1>2, <1>5, <1>7, <2>1, <2>2, ReplyType
<1>9. RegistryInv' /\ StoreInv'
  BY <1>1, <1>2, <1>7, Unserved
<1>10. HoldInv'
  <2>1. ASSUME NEW t \in Slots, storage[t].session # 0, live[storage[t].session]
        PROVE  \A i \in 1..Len(queue') : ~Ends(queue[i], storage[t].session)'
    <3>1. storage' = storage /\ storage[t].session \in Handles
      BY <1>1, <1>2, <2>1, SlotFacts
    <3>2. \A i \in 1..Len(queue) : ~Ends(queue[i], storage[t].session)
      BY <2>1 DEF IInv, HoldInv
    <3> QED
      BY <1>7, <3>1, <3>2
  <2> QED
    BY <1>1, <1>2, <2>1 DEF HoldInv
<1>11. ReplyInv'
  <2>1. \A i \in 1..Len(mailbox) : mailbox[i].request \in Requests
    BY <1>2, TypeFacts, Zenon
  <2>2. ASSUME NEW i \in 1..Len(mailbox), mailbox[i].gen # 0, IsCurrent(mailbox[i].request)'
        PROVE  Held(mailbox[i].request, mailbox[i].gen)'
    <3>1. mailbox' = mailbox /\ mailbox[i].request \in Requests
      BY <1>1, <2>1
    <3>2. Held(mailbox[i].request, mailbox[i].gen)
      BY <1>5, <2>2, <3>1 DEF IInv, ReplyInv
    <3> QED
      BY <1>1, <1>2, <1>5, <3>1, <3>2, Zenon DEF Held
  <2> QED
    BY <1>1, <1>6, <2>2 DEF ReplyInv
<1>12. StageInv'
  BY <1>4, <1>6 DEF StageInv
<1>13. RequestsAccounted'
  <2>1. ASSUME NEW q \in Requests, asked'[q].state = "open"
        PROVE  \/ \E i \in 1..Len(queue') : queue'[i].kind = "request" /\ queue'[i].id = q
               \/ request' = q
               \/ \E i \in 1..Len(mailbox') : mailbox'[i].request = q
    <3>1. q # 0 /\ asked[q].state = "open" /\ (q = request' \/ q # r)
      BY <1>2, <1>5, <2>1 DEF Requests
    <3>2. \/ \E i \in 1..Len(queue) : queue[i].kind = "request" /\ queue[i].id = q
          \/ \E i \in 1..Len(mailbox) : mailbox[i].request = q
      BY <1>4, <3>1 DEF IInv, RequestsAccounted
    <3> QED
      BY <1>1, <1>7, <3>1, <3>2
  <2> QED
    BY <1>5, <2>1 DEF RequestsAccounted
<1> QED
  BY <1>5, <1>7, <1>8, <1>9, <1>10, <1>11, <1>12, <1>13 DEF IInv

LEMMA RunRequestKeeps == ASSUME IInv, RunRequest PROVE IInv'
<1>1. /\ phase = "run" /\ phase' = "reply"
      /\ UNCHANGED <<uiVars, queue, request, mailbox, asked, ghosts>>
  BY DEF RunRequest
<1>2. /\ TypeOK /\ RegistryInv /\ StoreInv
      /\ UNCHANGED <<info, live, gate, sessions, switching, forgotten, sealed>>
      /\ Len(info) \in Nat /\ Len(maker) \in Nat /\ Requests' = Requests /\ Handles' = Handles
      /\ queue' = queue /\ mailbox' = mailbox /\ asked' = asked /\ request' = request
  BY <1>1, TypeFacts DEF IInv, uiVars, ghosts, Requests, Handles
<1>3. PICK h \in Handles, s \in Slots :
         request \in Requests /\ h = asked[request].handle /\ s = info[h].slot
  <2>1. request \in Requests
    BY <1>1, <1>2, TypeFacts DEF IInv, StageInv, TypeOK, Requests
  <2> QED
    BY <1>2, <2>1, TypeFacts DEF Asked, Info
<1>4. PICK o \in StoreOutcomes(h, storage[s]) :
         /\ storage' = [storage EXCEPT ![s] = o.slot] /\ resetPending' = o.pending /\ UseRegistry(o.reg)
         /\ result' \in IF o.slot.session = h /\ o.slot.store # 0 THEN {0, o.slot.store} ELSE {0}
  BY <1>3 DEF RunRequest
<1>5. storage \in [Slots -> SlotRec(Len(info), Len(maker))]
  BY <1>2, SlotFacts
<1>6. /\ TaskTypes' /\ OrderInv' /\ LiveInv' /\ EpochInv' /\ SettledInv' /\ RequestsAccounted'
      /\ (NoForget' <=> NoForget) /\ StageInv'
      /\ \A q \in Requests : IsCurrent(q)' <=> IsCurrent(q)
  <2>1. TaskTypes' /\ OrderInv' /\ LiveInv' /\ (NoForget' <=> NoForget)
    BY <1>2 DEF IInv, TaskTypes, OrderInv, LiveInv, NoForget, Ends
  <2>2. \A q \in Requests : IsCurrent(q)' <=> IsCurrent(q)
    BY <1>2 DEF IsCurrent, Current
  <2>3. EpochInv' /\ SettledInv' /\ RequestsAccounted'
    BY <1>2, <2>2 DEF IInv, EpochInv, SettledInv, RequestsAccounted
  <2>4. StageInv'
    BY <1>1, <1>2 DEF IInv, StageInv
  <2> QED
    BY <2>1, <2>2, <2>3, <2>4
<1>7. /\ RegistryInv' /\ StoreInv' /\ Len(maker) <= Len(maker') /\ Len(maker') \in Nat
      /\ maker' \in Seq(Handles) /\ active' \in [Slots -> 0..Len(maker')]
      /\ retired' \subseteq Generations' /\ resetPending' \in BOOLEAN
      /\ storage' \in [Slots -> SlotRec(Len(info), Len(maker'))] /\ storage'[s] = o.slot
      /\ \A t \in Slots : storage'[t].session = storage[t].session
      /\ \A t \in Slots : storage[t].store # 0 => storage'[t] = storage[t]
  <2>1. CASE storage[s].session # h \/ storage[s].store # 0
    <3>1. o = [slot |-> storage[s], pending |-> resetPending, reg |-> Now]
      BY <2>1 DEF StoreOutcomes
    <3>2. o.slot = storage[s] /\ o.pending = resetPending /\ o.reg = Now
      BY <3>1, Zenon
    <3>3. storage' = storage
      BY <1>3, <1>4, <1>5, <3>2
    <3>4. UNCHANGED <<resetPending, registryVars>>
      BY <1>2, <1>4, <3>2, NowSound DEF UseRegistry, registryVars
    <3>5. RegistryInv' /\ StoreInv'
      BY <1>2, <1>6, <3>3, <3>4, Unserved
    <3>6. maker' = maker /\ active' = active /\ retired' = retired /\ resetPending' = resetPending
      BY <3>4 DEF registryVars
    <3>7. /\ maker \in Seq(Handles) /\ active \in [Slots -> 0..Len(maker)]
          /\ retired \subseteq Generations /\ resetPending \in BOOLEAN
      BY <1>2, TypeFacts DEF TypeOK
    <3>8. Len(maker) <= Len(maker') /\ Len(maker') \in Nat /\ Generations' = Generations
      BY <1>2, <3>6 DEF Generations
    <3> QED
      BY <1>5, <3>2, <3>3, <3>5, <3>6, <3>7, <3>8
  <2>2. CASE storage[s].session = h /\ storage[s].store = 0
    <3>1. Served(h, o)
      <4>1. storage[s] \in SlotRec(Len(info), Len(maker)) /\ (info[h].fresh => storage[s].fresh)
        BY <1>2, <1>3, <1>5, <2>2 DEF StoreInv, Intent, Handles
      <4> QED
        BY <1>2, <2>2, <4>1, StoreFacts
    <3>2. live[h] => NoForget'
      <4>1. h # 0
        BY DEF Handles
      <4> QED
        BY <1>3, <1>6, <2>2, <4>1 DEF IInv, HoldInv, NoForget, Ends
    <3>3. /\ RegistryInv' /\ StoreInv' /\ Grown(o.reg)
          /\ maker' \in Seq(Handles) /\ active' \in [Slots -> 0..Len(maker')]
          /\ retired' \subseteq Generations' /\ resetPending' \in BOOLEAN
          /\ storage' \in [Slots -> SlotRec(Len(info), Len(maker'))]
      <4>1. UNCHANGED <<info, live, forgotten>> /\ (NoForget' => NoForget)
        BY <1>2, <1>6
      <4> QED
        BY <1>3, <1>4, <3>1, <3>2, <4>1, ServedKeeps
    <3>4. Len(maker) <= Len(maker') /\ Len(maker') \in Nat
      BY <1>4, <3>3 DEF Grown, UseRegistry
    <3>5. storage'[s] = o.slot /\ o.slot.session = h /\ \A t \in Slots : t # s => storage'[t] = storage[t]
      BY <1>3, <1>4, <1>5, <3>1 DEF Served
    <3> QED
      BY <2>2, <3>3, <3>4, <3>5
  <2> QED
    BY <2>1, <2>2
<1>8. result' # 0 => result' = storage'[s].store /\ storage'[s].session = h
  BY <1>4, <1>7
<1>9. TypeOK'
  <2>1. mailbox' \in Seq([request: Requests, gen: 0..Len(maker')])
    BY <1>2, <1>7, MailGrows
  <2>2. result' \in 0..Len(maker')
    <3>1. storage'[s].store \in 0..Len(maker')
      BY <1>3, <1>7 DEF SlotRec
    <3> QED
      BY <1>7, <1>8, <3>1
  <2>3. queue' \in Seq(TaskRec) /\ phase' \in {"wait", "run", "reply", "stopped"}
    BY <1>1, <1>2, TypeFacts
  <2>4. UNCHANGED <<uiVars, request, asked, ghosts>>
    BY <1>1
  <2> QED
    BY <1>2, <1>7, <2>1, <2>2, <2>3, <2>4, TaskType
<1>10. HoldInv'
  <2>1. HoldInv
    BY DEF IInv
  <2>2. SUFFICES ASSUME NEW t \in Slots, storage'[t].session # 0, live'[storage'[t].session],
                        NEW i \in 1..Len(queue')
                 PROVE  ~Ends(queue[i], storage[t].session)'
    BY Zenon DEF HoldInv
  <2>3. storage'[t].session = storage[t].session
    BY <1>3, <1>7
  <2>4. ~Ends(queue[i], storage[t].session)
    BY <1>2, <2>1, <2>2, <2>3 DEF HoldInv
  <2> QED
    BY <1>2, <2>3, <2>4, Zenon DEF Ends
<1>11. ReplyInv'
  <2>1. \A i \in 1..Len(mailbox) : mailbox[i].request \in Requests
    BY <1>2, TypeFacts, Zenon
  <2>2. ASSUME NEW i \in 1..Len(mailbox), mailbox[i].gen # 0, IsCurrent(mailbox[i].request)
        PROVE  Held(mailbox[i].request, mailbox[i].gen)'
    <3> DEFINE k == asked[mailbox[i].request].handle
               t == info[k].slot
    <3>1. t \in Slots /\ storage[t].session = k /\ storage[t].store = mailbox[i].gen
      BY <2>2, HeldFacts, ZenonT(30)
    <3>2. storage'[t] = storage[t]
      BY <1>7, <2>2, <3>1
    <3> QED
      BY <1>2, <3>1, <3>2, Zenon DEF Held
  <2>3. result' # 0 => Held(request, result)'
    BY <1>2, <1>3, <1>8 DEF Held
  <2> QED
    BY <1>2, <1>6, <2>1, <2>2, <2>3 DEF ReplyInv
<1> QED
  BY <1>6, <1>7, <1>9, <1>10, <1>11 DEF IInv

(* The worker's stores and the queue are left alone.                       *)
LEMMA HoldKept ==
    ASSUME IInv, UNCHANGED <<uiVars, queue, storage, resetPending, registryVars, ghosts>>
    PROVE  HoldInv' /\ OrderInv' /\ LiveInv' /\ RegistryInv' /\ StoreInv'
<1>1. UNCHANGED <<info, live, gate, sessions, forgotten>> /\ (NoForget' <=> NoForget)
  BY DEF uiVars, ghosts, NoForget
<1>2. RegistryInv' /\ StoreInv'
  BY <1>1, Unserved
<1>3. HoldInv' /\ OrderInv' /\ LiveInv'
  <2>1. /\ HoldInv /\ OrderInv /\ LiveInv /\ queue' = queue /\ storage' = storage
        /\ Handles' = Handles
    BY <1>1 DEF IInv, Handles
  <2> QED
    BY <1>1, <2>1 DEF HoldInv, OrderInv, LiveInv, Ends
<1> QED
  BY <1>2, <1>3

LEMMA PostReplyKeeps == ASSUME IInv, PostReply PROVE IInv'
<1>1. /\ phase = "reply" /\ phase' = "wait" /\ request' = 0 /\ result' = 0
      /\ UNCHANGED <<uiVars, queue, storage, resetPending, registryVars, ghosts>>
  BY DEF PostReply
<1>2. /\ TypeOK /\ UNCHANGED <<info, live, gate, sessions, switching, maker, forgotten, sealed>>
      /\ Len(asked) \in Nat /\ Len(mailbox) \in Nat /\ asked \in Seq(Asked)
      /\ mailbox \in Seq([request: Requests, gen: 0..Len(maker)]) /\ queue \in Seq(TaskRec)
      /\ queue' = queue /\ result \in 0..Len(maker)
  BY <1>1, TypeFacts DEF IInv, uiVars, registryVars, ghosts, TypeOK
<1>3. request \in Requests
  BY <1>1, <1>2 DEF IInv, StageInv, TypeOK, Requests
<1> DEFINE m == [request |-> request, gen |-> result]
<1>4. m \in [request: Requests, gen: 0..Len(maker)] /\ m.request = request /\ m.gen = result
  BY <1>2, <1>3
<1>5. /\ asked' \in Seq(Asked) /\ Len(asked') = Len(asked) /\ Requests' = Requests
      /\ \A q \in Requests : /\ asked'[q].handle = asked[q].handle
                             /\ IsCurrent(q)' <=> IsCurrent(q)
                             /\ asked'[q].state = "open" => asked[q].state = "open"
      /\ mailbox' = Append(mailbox, m) \/ mailbox' = mailbox
      /\ asked'[request].state = "open" => mailbox' = Append(mailbox, m)
      /\ EpochInv' /\ SettledInv'
  <2>1. CASE IsCurrent(request)
    <3>1. asked' = asked /\ mailbox' = Append(mailbox, m)
      BY <2>1 DEF PostReply
    <3>2. Requests' = Requests
      BY <3>1 DEF Requests
    <3>3. \A q \in Requests : IsCurrent(q)' <=> IsCurrent(q)
      BY <1>2, <3>1 DEF IsCurrent, Current
    <3>4. EpochInv' /\ SettledInv'
      BY <1>2, <3>1, <3>2, <3>3 DEF IInv, EpochInv, SettledInv
    <3> QED
      BY <1>2, <3>1, <3>2, <3>3, <3>4
  <2>2. CASE ~IsCurrent(request)
    <3>1. Settle(request, "dropped") /\ UNCHANGED <<uiVars, ghosts>> /\ mailbox' = mailbox
      BY <1>1, <2>2 DEF PostReply
    <3> QED
      BY <1>3, <2>2, <3>1, SettleFacts
  <2> QED
    BY <2>1, <2>2
<1> HIDE DEF m
<1> DEFINE Mail == [request: Requests, gen: 0..Len(maker)]
<1>6. /\ Len(mailbox') \in Nat /\ Len(mailbox) <= Len(mailbox') /\ mailbox' \in Seq(Mail)
      /\ \A i \in 1..Len(mailbox) : mailbox'[i] = mailbox[i]
  <2>1. mailbox \in Seq(Mail) /\ m \in Mail
    BY <1>2, <1>4
  <2> HIDE DEF Mail
  <2>2. CASE mailbox' = Append(mailbox, m)
    BY <1>2, <2>1, <2>2, AppendProperties
  <2>3. CASE mailbox' = mailbox
    BY <1>2, <2>1, <2>3
  <2> QED
    BY <1>5, <2>2, <2>3
<1>7. \A i \in 1..Len(mailbox') : i \in 1..Len(mailbox) \/ mailbox'[i] = m
  BY <1>2, <1>4, <1>5, AppendProperties
<1>8. TypeOK'
  <2>1. 0 \in 0..Len(asked) /\ 0 \in 0..Len(maker)
    BY <1>2, TypeFacts
  <2> QED
    BY <1>1, <1>2, <1>5, <1>6, <2>1, ReplyType
<1>9. HoldInv' /\ OrderInv' /\ LiveInv' /\ RegistryInv' /\ StoreInv'
  BY <1>1, HoldKept
<1>10. TaskTypes'
  BY <1>2, <1>5 DEF IInv, TaskTypes, Handles
<1>11. ReplyInv'
  <2>1. \A i \in 1..Len(mailbox') : mailbox'[i].request \in Requests
    <3>1. \A i \in 1..Len(mailbox') : mailbox'[i] \in Mail
      <4> HIDE DEF Mail
      <4> QED
        BY <1>6, ElementOfSeq
    <3> QED
      BY <3>1
  <2>2. ASSUME NEW q \in Requests, NEW g, Held(q, g) PROVE Held(q, g)'
    BY <1>1, <1>2, <1>5, <2>2 DEF Held
  <2>3. ASSUME NEW i \in 1..Len(mailbox'), NEW q \in Requests, NEW g,
               q = mailbox'[i].request, g = mailbox'[i].gen, g # 0, IsCurrent(q)
        PROVE  Held(q, g)
    <3>1. CASE i \in 1..Len(mailbox)
      <4>1. mailbox[i].request = q /\ mailbox[i].gen = g
        BY <1>6, <2>3, <3>1
      <4> QED
        BY <2>3, <3>1, <4>1 DEF IInv, ReplyInv
    <3>2. CASE mailbox'[i] = m
      <4>1. q = request /\ g = result
        BY <1>4, <2>3, <3>2
      <4> QED
        BY <1>1, <2>3, <4>1 DEF IInv, ReplyInv
    <3> QED
      BY <1>7, <3>1, <3>2
  <2>4. ASSUME NEW i \in 1..Len(mailbox'), mailbox'[i].gen # 0, IsCurrent(mailbox[i].request)'
        PROVE  Held(mailbox[i].request, mailbox[i].gen)'
    <3>1. PICK q, g : q \in Requests /\ q = mailbox'[i].request /\ g = mailbox'[i].gen
      BY <2>1, Zenon
    <3>2. IsCurrent(q)
      BY <1>5, <2>4, <3>1
    <3>3. Held(q, g)'
      BY <2>2, <2>3, <2>4, <3>1, <3>2
    <3> QED
      BY <3>1, <3>3
  <2> QED
    BY <1>1, <2>4 DEF ReplyInv
<1>12. StageInv'
  BY <1>1 DEF StageInv
<1>13. RequestsAccounted'
  <2>1. ASSUME NEW q \in Requests, asked'[q].state = "open"
        PROVE  \/ \E i \in 1..Len(queue') : queue'[i].kind = "request" /\ queue'[i].id = q
               \/ \E i \in 1..Len(mailbox') : mailbox'[i].request = q
    <3>1. CASE q = request
      <4>1. mailbox' = Append(mailbox, m)
        BY <1>5, <2>1, <3>1
      <4>2. Len(mailbox') = Len(mailbox) + 1 /\ mailbox'[Len(mailbox) + 1] = m
        BY <1>2, <1>4, <4>1, AppendProperties
      <4>3. Len(mailbox) + 1 \in 1..Len(mailbox')
        BY <1>2, <4>2
      <4>4. mailbox'[Len(mailbox) + 1].request = q
        BY <1>4, <3>1, <4>2, Zenon
      <4> QED
        BY <4>3, <4>4, Zenon
    <3>2. CASE q # request
      <4>1. \/ \E i \in 1..Len(queue) : queue[i].kind = "request" /\ queue[i].id = q
            \/ \E i \in 1..Len(mailbox) : mailbox[i].request = q
        BY <1>5, <2>1, <3>2 DEF IInv, RequestsAccounted
      <4>2. 1..Len(mailbox) \subseteq 1..Len(mailbox')
        BY <1>2, <1>6
      <4> QED
        BY <1>2, <1>6, <4>1, <4>2
    <3> QED
      BY <3>1, <3>2
  <2> QED
    BY <1>5, <2>1 DEF RequestsAccounted
<1> QED
  BY <1>5, <1>8, <1>9, <1>10, <1>11, <1>12, <1>13 DEF IInv

LEMMA StopKeeps == ASSUME IInv, Stop PROVE IInv'
<1>1. /\ phase = "wait" /\ phase' = "stopped" /\ ~gate.alive /\ storage' = [s \in Slots |-> Closed]
      /\ UNCHANGED <<uiVars, queue, request, result, resetPending, registryVars, mailbox, asked, ghosts>>
  BY DEF Stop
<1>2. /\ TypeOK /\ UNCHANGED <<info, live, gate, sessions, switching, maker, active, retired,
                              queue, mailbox, asked, request, result, forgotten, sealed>>
      /\ Handles' = Handles /\ Requests' = Requests /\ Generations' = Generations
      /\ Len(info) \in Nat /\ Len(maker) \in Nat
  BY <1>1, TypeFacts DEF IInv, uiVars, registryVars, ghosts, Handles, Requests, Generations
<1>3. /\ storage' \in [Slots -> [session: 0..Len(info), store: 0..Len(maker), fresh: BOOLEAN]]
      /\ \A s \in Slots : storage'[s].session = 0 /\ storage'[s].store = 0
  BY <1>1, <1>2 DEF Closed
<1>4. TypeOK'
  BY <1>1, <1>2, <1>3 DEF TypeOK
<1>5. HoldInv' /\ StoreInv'
  BY <1>3 DEF HoldInv, StoreInv, OpenStore, Intent
<1>6. TaskTypes' /\ LiveInv' /\ OrderInv' /\ RegistryInv' /\ StageInv'
  BY <1>1, <1>2 DEF IInv, TaskTypes, LiveInv, OrderInv, RegistryInv, StageInv, Ends, NoForget
<1>7. \A q : ~IsCurrent(q) /\ ~IsCurrent(q)'
  BY <1>1, <1>2 DEF IsCurrent, Current
<1>8. ReplyInv'
  BY <1>1, <1>2, <1>7 DEF ReplyInv
<1>9. EpochInv' /\ SettledInv' /\ RequestsAccounted'
  BY <1>2, <1>7 DEF IInv, EpochInv, SettledInv, RequestsAccounted
<1> QED
  BY <1>4, <1>5, <1>6, <1>8, <1>9 DEF IInv

----------------------------------------------------------------------------
(* The UI thread *)

LEMMA DeliverKeeps == ASSUME IInv, Deliver PROVE IInv'
<1>1. /\ mailbox # <<>> /\ mailbox' = Tail(mailbox) /\ ~switching
      /\ UNCHANGED <<uiVars, queue, workerVars, registryVars, ghosts>>
  BY DEF Deliver
<1>2. /\ TypeOK /\ UNCHANGED <<info, live, gate, sessions, switching, maker, forgotten, sealed, queue,
                              storage, resetPending, phase, request, result>>
      /\ Len(asked) \in Nat /\ Len(mailbox) \in Nat /\ queue \in Seq(TaskRec)
      /\ mailbox \in Seq([request: Requests, gen: 0..Len(maker)])
      /\ result \in 0..Len(maker) /\ request \in 0..Len(asked)
      /\ phase \in {"wait", "run", "reply", "stopped"}
  BY <1>1, TypeFacts DEF IInv, uiVars, workerVars, registryVars, ghosts, TypeOK
<1> DEFINE Mail == [request: Requests, gen: 0..Len(maker)]
<1>3. /\ Head(mailbox) = mailbox[1] /\ 1 \in 1..Len(mailbox)
      /\ mailbox' \in Seq(Mail) /\ Len(mailbox') = Len(mailbox) - 1
      /\ \A i \in 1..Len(mailbox') : i + 1 \in 1..Len(mailbox) /\ mailbox'[i] = mailbox[i + 1]
      /\ \A i \in 1..Len(mailbox) : i # 1 => i - 1 \in 1..Len(mailbox') /\ mailbox'[i - 1] = mailbox[i]
  <2>1. mailbox \in Seq(Mail) /\ Len(mailbox) \in Nat
    BY <1>2
  <2> HIDE DEF Mail
  <2>2. Len(mailbox) > 0 /\ Head(mailbox) = mailbox[1]
    BY <1>1, <2>1, EmptySeq
  <2>3. mailbox' \in Seq(Mail) /\ Len(mailbox') = Len(mailbox) - 1
        /\ \A i \in 1..Len(mailbox') : mailbox'[i] = mailbox[i + 1]
    BY <1>1, <2>1, HeadTailProperties
  <2>4. \A i \in 1..Len(mailbox) : i # 1 => i - 1 \in 1..Len(mailbox') /\ (i - 1) + 1 = i
    BY <2>1, <2>3
  <2>5. \A i \in 1..Len(mailbox') : i + 1 \in 1..Len(mailbox)
    BY <2>1, <2>3
  <2> QED
    BY <2>1, <2>2, <2>3, <2>4, <2>5
<1>4. PICK r \in Requests : r = mailbox[1].request
  BY <1>2, <1>3, TypeFacts
<1>5. PICK how \in {"shown", "dropped"} :
         /\ Settle(r, how)
         /\ how = "shown" => IsCurrent(r)
         /\ how = "dropped" => ~IsCurrent(r)
  BY <1>3, <1>4 DEF Deliver
<1>6. how = "shown" => r \notin sealed
  <2>1. asked[r].epoch \in Nat
    BY <1>2, TypeFacts DEF Asked
  <2>2. IsCurrent(r) => gate.alive /\ gate.epoch = asked[r].epoch
    BY DEF IsCurrent, Current
  <2>3. r \in sealed => asked[r].epoch < gate.epoch \/ ~gate.alive
    BY <1>1 DEF IInv, EpochInv
  <2> QED
    BY <1>5, <2>1, <2>2, <2>3
<1>7. /\ asked' \in Seq(Asked) /\ Len(asked') = Len(asked) /\ Requests' = Requests
      /\ \A q \in Requests : /\ asked'[q].handle = asked[q].handle
                             /\ IsCurrent(q)' <=> IsCurrent(q)
                             /\ asked'[q].state = "open" => q # r /\ asked[q].state = "open"
      /\ EpochInv' /\ SettledInv'
  BY <1>1, <1>5, <1>6, SettleFacts
<1>8. TypeOK'
  <2>1. UNCHANGED <<uiVars, storage, resetPending, registryVars, ghosts>>
    BY <1>1, <1>2
  <2> QED
    BY <1>2, <1>3, <1>7, <2>1, ReplyType
<1>9. HoldInv' /\ OrderInv' /\ LiveInv' /\ RegistryInv' /\ StoreInv'
  BY <1>1, <1>2, HoldKept
<1>10. TaskTypes' /\ StageInv'
  BY <1>2, <1>7 DEF IInv, TaskTypes, StageInv, Handles
<1>11. ReplyInv'
  <2>1. ASSUME NEW q \in Requests, NEW g, Held(q, g) PROVE Held(q, g)'
    BY <1>2, <1>7, <2>1 DEF Held
  <2>2. ASSUME NEW i \in 1..Len(mailbox'), mailbox'[i].gen # 0, IsCurrent(mailbox[i].request)'
        PROVE  Held(mailbox[i].request, mailbox[i].gen)'
    <3>1. i + 1 \in 1..Len(mailbox) /\ mailbox'[i] = mailbox[i + 1]
      BY <1>3
    <3>2. PICK q, g : q \in Requests /\ q = mailbox[i + 1].request /\ g = mailbox[i + 1].gen
      <4>1. mailbox[i + 1].request \in Requests
        BY <1>2, <3>1, TypeFacts
      <4> QED
        BY <4>1, Zenon
    <3>3. IsCurrent(q)
      BY <1>7, <2>2, <3>1, <3>2
    <3>4. Held(q, g)
      BY <2>2, <3>1, <3>2, <3>3 DEF IInv, ReplyInv
    <3>5. Held(q, g)'
      BY <2>1, <3>2, <3>4
    <3> QED
      BY <3>1, <3>2, <3>5
  <2>3. phase' = "reply" /\ result' # 0 => Held(request, result)'
    <3>1. phase = "reply" => request \in Requests
      BY <1>2 DEF IInv, StageInv, Requests
    <3> QED
      BY <1>2, <2>1, <3>1 DEF IInv, ReplyInv
  <2> QED
    BY <2>2, <2>3 DEF ReplyInv
<1>12. RequestsAccounted'
  <2>1. ASSUME NEW q \in Requests, asked'[q].state = "open"
        PROVE  \/ \E i \in 1..Len(queue') : queue'[i].kind = "request" /\ queue'[i].id = q
               \/ request' = q
               \/ \E i \in 1..Len(mailbox') : mailbox'[i].request = q
    <3>1. q # r /\ asked[q].state = "open"
      BY <1>7, <2>1
    <3>2. \/ \E i \in 1..Len(queue) : queue[i].kind = "request" /\ queue[i].id = q
          \/ request = q
          \/ \E i \in 1..Len(mailbox) : mailbox[i].request = q
      BY <3>1 DEF IInv, RequestsAccounted
    <3> QED
      BY <1>2, <1>3, <1>4, <3>1, <3>2
  <2> QED
    BY <1>7, <2>1 DEF RequestsAccounted
<1> QED
  BY <1>7, <1>8, <1>9, <1>10, <1>11, <1>12 DEF IInv

(* A method of the UI thread may make a handle, ask a request, push the    *)
(* tasks of new and end sessions.  No task of new ends a session that is   *)
(* still live.                                                             *)
LEMMA UiKeeps ==
    ASSUME IInv, NEW new \in Seq(TaskRec), queue' = queue \o new,
           UNCHANGED <<workerVars, registryVars, mailbox>>,
           info' \in Seq(Info), Len(info) <= Len(info'), \A h \in Handles : info'[h] = info[h],
           asked' \in Seq(Asked'), Len(asked) <= Len(asked'),
           \A r \in Requests : asked'[r] = asked[r],
           live' \in [Handles' -> BOOLEAN], \A h \in Handles : live'[h] => live[h],
           sessions' \in [Slots -> 0..Len(info')],
           gate' \in [alive: BOOLEAN, locked: BOOLEAN, epoch: Nat], switching' \in BOOLEAN,
           sealed' \subseteq Requests', forgotten' \in 0..Len(maker),
           \A i \in 1..Len(new) : /\ new[i].kind \in {"attach", "detach"} => new[i].id \in Handles'
                                  /\ new[i].kind = "request" => new[i].id \in Requests'
                                  /\ \A h \in Handles : live'[h] => ~Ends(new[i], h)',
           \A i, k \in 1..Len(new) : i < k => new[i].kind # "attach",
           \A r \in Requests : IsCurrent(r)' => IsCurrent(r),
           NoForget' => forgotten' = forgotten,
           \A h \in Handles : live'[h] => forgotten' = forgotten
    PROVE  /\ TypeOK' /\ TaskTypes' /\ HoldInv' /\ OrderInv' /\ RegistryInv' /\ StoreInv'
           /\ ReplyInv' /\ StageInv' /\ Requests \subseteq Requests'
           /\ \A r \in Requests : asked[r].state = "open" =>
                \/ \E i \in 1..Len(queue') : queue'[i].kind = "request" /\ queue'[i].id = r
                \/ request' = r
                \/ \E i \in 1..Len(mailbox') : mailbox'[i].request = r
<1>1. /\ TypeOK /\ Len(info) \in Nat /\ Len(asked) \in Nat /\ Len(queue) \in Nat /\ Len(maker) \in Nat
      /\ maker \in Seq(Handles) /\ queue \in Seq(TaskRec)
      /\ mailbox \in Seq([request: Requests, gen: 0..Len(maker)])
  BY TypeFacts DEF IInv
<1>2. /\ UNCHANGED <<phase, request, result, storage, resetPending, active, retired, maker, mailbox>>
      /\ Generations' = Generations
  BY DEF workerVars, registryVars, Generations
<1>3. /\ Len(info') \in Nat /\ Len(asked') \in Nat /\ Len(new) \in Nat
      /\ Handles \subseteq Handles' /\ Requests \subseteq Requests'
      /\ Handles' = 1..Len(info') /\ Requests' = 1..Len(asked')
  <2>1. Len(info') \in Nat /\ Len(asked') \in Nat /\ Len(new) \in Nat
    BY LenProperties
  <2> QED
    BY <1>1, <2>1 DEF Handles, Requests
<1>4. /\ queue' \in Seq(TaskRec) /\ Len(queue') = Len(queue) + Len(new)
      /\ \A i \in 1..Len(queue) : queue'[i] = queue[i]
      /\ \A i \in 1..Len(queue') : i \in 1..Len(queue) \/
            (i - Len(queue) \in 1..Len(new) /\ queue'[i] = new[i - Len(queue)])
  <2>1. queue' \in Seq(TaskRec) /\ Len(queue') = Len(queue) + Len(new)
    BY <1>1, ConcatProperties
  <2>2. \A i \in 1..Len(queue') :
          queue'[i] = IF i <= Len(queue) THEN queue[i] ELSE new[i - Len(queue)]
    BY <1>1, <2>1, ConcatProperties
  <2> QED
    BY <1>1, <1>3, <2>1, <2>2
<1>5. TypeOK'
  <2>1. maker' \in Seq(Handles')
    BY <1>1, <1>2, <1>3, SeqMonotonic
  <2>2. mailbox' \in Seq([request: Requests', gen: 0..Len(maker')])
    <3> DEFINE S == [request: Requests, gen: 0..Len(maker)]
               T == [request: Requests', gen: 0..Len(maker)]
    <3>1. mailbox \in Seq(S) /\ S \subseteq T
      BY <1>1, <1>3
    <3> HIDE DEF S, T
    <3>2. mailbox \in Seq(T)
      BY <3>1, SeqMonotonic
    <3> QED
      BY <1>2, <3>2 DEF T
  <2>3. storage' \in [Slots -> SlotRec(Len(info'), Len(maker'))]
    <3>1. SlotRec(Len(info), Len(maker)) \subseteq SlotRec(Len(info'), Len(maker))
      <4>1. 0..Len(info) \subseteq 0..Len(info')
        BY <1>1, <1>3
      <4> QED
        BY <4>1, Zenon DEF SlotRec
    <3> QED
      BY <1>1, <1>2, <3>1, SlotFacts
  <2>4. /\ request' \in 0..Len(asked') /\ result' \in 0..Len(maker')
        /\ phase' \in {"wait", "run", "reply", "stopped"} /\ resetPending' \in BOOLEAN
        /\ active' \in [Slots -> 0..Len(maker')] /\ retired' \subseteq Generations'
    <3>1. /\ request \in 0..Len(asked) /\ result \in 0..Len(maker) /\ resetPending \in BOOLEAN
          /\ phase \in {"wait", "run", "reply", "stopped"}
          /\ active \in [Slots -> 0..Len(maker)] /\ retired \subseteq Generations
      BY <1>1 DEF TypeOK
    <3>2. 0..Len(asked) \subseteq 0..Len(asked')
      BY <1>1, <1>3
    <3> QED
      BY <1>2, <3>1, <3>2
  <2>5. /\ info' \in Seq([slot: Slots, login: Logins, fresh: BOOLEAN])
        /\ asked' \in Seq([handle: Handles', epoch: Nat, state: {"open", "shown", "dropped"}])
        /\ queue' \in Seq([kind: {"attach", "detach", "forget", "request"}, id: Nat, out: BOOLEAN])
        /\ storage' \in [Slots -> [session: 0..Len(info'), store: 0..Len(maker'), fresh: BOOLEAN]]
    BY <1>4, <2>3 DEF Info, Asked, TaskRec, SlotRec
  <2>6. forgotten' \in 0..Len(maker')
    BY <1>2
  <2> QED
    BY <2>1, <2>2, <2>4, <2>5, <2>6, Zenon DEF TypeOK
<1>6. TaskTypes'
  <2>1. ASSUME NEW i \in 1..Len(queue')
        PROVE  /\ queue'[i].kind \in {"attach", "detach"} => queue'[i].id \in Handles'
               /\ queue'[i].kind = "request" => queue'[i].id \in Requests'
    <3>1. CASE i \in 1..Len(queue)
      <4>1. /\ queue[i].kind \in {"attach", "detach"} => queue[i].id \in Handles
            /\ queue[i].kind = "request" => queue[i].id \in Requests
            /\ queue'[i] = queue[i]
        BY <1>4, <3>1 DEF IInv, TaskTypes
      <4> QED
        BY <1>3, <4>1
    <3>2. CASE i \notin 1..Len(queue)
      BY <1>4, <3>2
    <3> QED
      BY <3>1, <3>2
  <2> QED
    BY <2>1 DEF TaskTypes
<1>7. \A i \in 1..Len(queue), h \in Handles : ~Ends(queue[i], h) => ~Ends(queue[i], h)'
  <2>1. ASSUME NEW i \in 1..Len(queue), NEW h \in Handles, ~Ends(queue[i], h)
        PROVE  ~Ends(queue[i], h)'
    <3>1. queue'[i] = queue[i] /\ info'[h] = info[h]
      BY <1>4
    <3>2. queue[i].kind = "attach" => info'[queue[i].id] = info[queue[i].id]
      BY DEF IInv, TaskTypes
    <3> QED
      BY <2>1, <3>1, <3>2 DEF Ends
  <2> QED
    BY <2>1
(* A live session that no task ended before is ended by none now.          *)
<1>8. ASSUME NEW h \in Handles, live'[h], NEW i \in 1..Len(queue'),
             i \in 1..Len(queue) => ~Ends(queue[i], h)
      PROVE  ~Ends(queue[i], h)'
  <2>1. CASE i \in 1..Len(queue)
    BY <1>7, <1>8, <2>1
  <2>2. CASE i \notin 1..Len(queue)
    <3>1. PICK k \in 1..Len(new) : queue'[i] = new[k]
      BY <1>4, <2>2
    <3>2. ~Ends(new[k], h)'
      BY <1>8
    <3> QED
      BY <3>1, <3>2 DEF Ends
  <2> QED
    BY <2>1, <2>2
<1>9. HoldInv'
  <2>1. ASSUME NEW t \in Slots, storage[t].session # 0, live'[storage[t].session]
        PROVE  \A i \in 1..Len(queue') : ~Ends(queue[i], storage[t].session)'
    <3>1. PICK h \in Handles : h = storage[t].session /\ storage' = storage
      BY <1>1, <1>2, <2>1, SlotFacts
    <3>2. \A i \in 1..Len(queue) : ~Ends(queue[i], h)
      BY <2>1, <3>1 DEF IInv, HoldInv
    <3>3. \A i \in 1..Len(queue') : ~Ends(queue[i], h)'
      BY <1>8, <2>1, <3>1, <3>2
    <3> QED
      BY <3>1, <3>3
  <2> QED
    BY <1>2, <2>1 DEF HoldInv
<1>10. OrderInv'
  <2> SUFFICES ASSUME NEW i \in 1..Len(queue'), NEW k \in 1..Len(queue'), i < k,
                      queue'[i].kind = "attach", live'[queue'[i].id]
               PROVE  ~Ends(queue[k], queue[i].id)'
    BY DEF OrderInv
  <2>1. CASE i \in 1..Len(queue)
    <3>1. PICK h \in Handles : h = queue[i].id /\ queue'[i] = queue[i]
      BY <1>4, <2>1 DEF IInv, TaskTypes
    <3>2. k \in 1..Len(queue) => ~Ends(queue[k], h)
      BY <2>1, <3>1 DEF IInv, OrderInv
    <3>3. ~Ends(queue[k], h)'
      BY <1>8, <3>1, <3>2
    <3> QED
      BY <3>1, <3>3
  <2>2. CASE i \notin 1..Len(queue)
    <3>1. i - Len(queue) \in 1..Len(new) /\ queue'[i] = new[i - Len(queue)]
      BY <1>4, <2>2
    <3>2. k \notin 1..Len(queue)
      BY <1>1, <1>4, <2>2
    <3>3. k - Len(queue) \in 1..Len(new) /\ i - Len(queue) < k - Len(queue)
      BY <1>1, <1>4, <3>2
    <3> QED
      BY <3>1, <3>3
  <2> QED
    BY <2>1, <2>2
<1>11. NoForget' => NoForget
  <2>1. 1..Len(queue) \subseteq 1..Len(queue')
    BY <1>1, <1>3, <1>4
  <2> QED
    BY <1>4, <2>1 DEF NoForget
<1>12. RegistryInv'
  BY <1>2, <1>11 DEF IInv, RegistryInv
<1>13. StoreInv'
  <2>1. ASSUME NEW t \in Slots PROVE OpenStore(t, storage[t])' /\ Intent(t, storage[t])'
    <3>1. OpenStore(t, storage[t]) /\ Intent(t, storage[t]) /\ storage' = storage
      BY <1>2 DEF IInv, StoreInv
    <3>2. CASE storage[t].session = 0
      BY <3>1, <3>2 DEF OpenStore, Intent
    <3>3. CASE storage[t].session # 0
      <4>1. PICK h \in Handles : h = storage[t].session
        BY <1>1, <3>3, SlotFacts
      <4>2. info'[h] = info[h] /\ (live'[h] => live[h]) /\ (live'[h] => forgotten' = forgotten)
        OBVIOUS
      <4>3. Intent(t, storage[t])'
        BY <3>1, <4>1, <4>2 DEF Intent
      <4>4. CASE storage[t].store = 0
        BY <3>1, <4>3, <4>4 DEF OpenStore
      <4>5. CASE storage[t].store # 0
        <5>1. storage[t].store \in Generations
          BY <1>1, <4>5, SlotFacts
        <5>2. PICK k \in Handles : k = maker[storage[t].store]
          BY <1>1, <5>1, TypeFacts
        <5>3. LoginOf(storage[t].store)' = LoginOf(storage[t].store)
          BY <1>2, <5>2 DEF LoginOf
        <5> QED
          BY <1>2, <3>1, <4>1, <4>2, <4>3, <5>3 DEF OpenStore
      <4> QED
        BY <4>4, <4>5
    <3> QED
      BY <3>2, <3>3
  <2> QED
    BY <2>1 DEF StoreInv
<1>14. ReplyInv'
  <2>1. ASSUME NEW r \in Requests, NEW g, Held(r, g) PROVE Held(r, g)'
    <3>1. asked[r].handle \in Handles
      BY <1>1, TypeFacts DEF Asked
    <3> QED
      BY <1>2, <2>1, <3>1 DEF Held
  <2>2. ASSUME NEW i \in 1..Len(mailbox), mailbox[i].gen # 0, IsCurrent(mailbox[i].request)'
        PROVE  Held(mailbox[i].request, mailbox[i].gen)'
    <3>1. PICK r, g : r \in Requests /\ r = mailbox[i].request /\ g = mailbox[i].gen /\ mailbox' = mailbox
      BY <1>1, <1>2, TypeFacts
    <3>2. IsCurrent(r)
      BY <2>2, <3>1
    <3>3. Held(r, g)'
      BY <2>1, <2>2, <3>1, <3>2 DEF IInv, ReplyInv
    <3> QED
      BY <3>1, <3>3
  <2>3. phase = "reply" /\ result # 0 => Held(request, result)'
    <3>1. phase = "reply" => request \in Requests
      BY <1>1 DEF IInv, StageInv, Requests, TypeOK
    <3>2. phase = "reply" /\ result # 0 => Held(request, result)
      BY DEF IInv, ReplyInv
    <3>3. request' = request /\ result' = result
      BY <1>2
    <3> QED
      BY <2>1, <3>1, <3>2, <3>3
  <2> QED
    BY <1>2, <2>2, <2>3 DEF ReplyInv
<1>15. StageInv'
  BY <1>2 DEF IInv, StageInv
<1>16. \A r \in Requests : asked[r].state = "open" =>
         \/ \E i \in 1..Len(queue') : queue'[i].kind = "request" /\ queue'[i].id = r
         \/ request' = r
         \/ \E i \in 1..Len(mailbox') : mailbox'[i].request = r
  <2>1. 1..Len(queue) \subseteq 1..Len(queue')
    BY <1>1, <1>3, <1>4
  <2>2. ASSUME NEW r \in Requests, asked[r].state = "open"
        PROVE  \/ \E i \in 1..Len(queue') : queue'[i].kind = "request" /\ queue'[i].id = r
               \/ request' = r
               \/ \E i \in 1..Len(mailbox') : mailbox'[i].request = r
    <3>1. \/ \E i \in 1..Len(queue) : queue[i].kind = "request" /\ queue[i].id = r
          \/ request = r
          \/ \E i \in 1..Len(mailbox) : mailbox[i].request = r
      BY <2>2 DEF IInv, RequestsAccounted
    <3>2. CASE \E i \in 1..Len(queue) : queue[i].kind = "request" /\ queue[i].id = r
      <4>1. PICK i \in 1..Len(queue) : queue[i].kind = "request" /\ queue[i].id = r
        BY <3>2
      <4>2. i \in 1..Len(queue') /\ queue'[i] = queue[i]
        BY <1>4, <2>1
      <4> QED
        BY <4>1, <4>2
    <3>3. CASE request = r
      BY <1>2, <3>3
    <3>4. CASE \E i \in 1..Len(mailbox) : mailbox[i].request = r
      BY <1>2, <3>4
    <3> QED
      BY <3>1, <3>2, <3>3, <3>4
  <2> QED
    BY <2>2
<1> QED
  BY <1>3, <1>5, <1>6, <1>9, <1>10, <1>12, <1>13, <1>14, <1>15, <1>16

(* No handle is made and nothing is asked.                                 *)
LEMMA QuietKeeps ==
    ASSUME IInv, NEW new \in Seq(TaskRec), queue' = queue \o new, Len(new) < 2,
           UNCHANGED <<info, asked, workerVars, registryVars, mailbox>>,
           live' \in [Handles -> BOOLEAN], \A h \in Handles : live'[h] => live[h],
           sessions' \in [Slots -> 0..Len(info)],
           gate' \in [alive: BOOLEAN, locked: BOOLEAN, epoch: Nat], switching' \in BOOLEAN,
           sealed' \subseteq Requests, forgotten' \in 0..Len(maker),
           \A i \in 1..Len(new) : /\ \/ new[i].kind = "detach" /\ new[i].id \in Handles
                                     \/ new[i].kind = "forget"
                                  /\ \A h \in Handles : live'[h] => ~Ends(new[i], h),
           \A r \in Requests : IsCurrent(r)' => IsCurrent(r),
           NoForget' => forgotten' = forgotten,
           \A h \in Handles : live'[h] => forgotten' = forgotten
    PROVE  /\ TypeOK' /\ TaskTypes' /\ HoldInv' /\ OrderInv' /\ RegistryInv' /\ StoreInv'
           /\ ReplyInv' /\ StageInv' /\ RequestsAccounted' /\ Requests' = Requests
<1>1. /\ TypeOK /\ Handles' = Handles /\ Requests' = Requests /\ info' = info /\ asked' = asked
      /\ Len(info') = Len(info) /\ Len(asked') = Len(asked) /\ info \in Seq(Info)
      /\ asked \in Seq(Asked) /\ Asked' = Asked /\ Len(info) \in Nat /\ Len(asked) \in Nat
  BY TypeFacts DEF IInv, Handles, Requests, Asked
<1>2. \A i \in 1..Len(new), h \in Handles : Ends(new[i], h)' <=> Ends(new[i], h)
  BY <1>1 DEF Ends
<1>3. Len(new) \in Nat /\ \A i, k \in 1..Len(new) : ~(i < k)
  BY LenProperties
<1>4. \A i \in 1..Len(new) : /\ new[i].kind \in {"attach", "detach"} => new[i].id \in Handles'
                             /\ new[i].kind = "request" => new[i].id \in Requests'
                             /\ \A h \in Handles : live'[h] => ~Ends(new[i], h)'
  BY <1>1, <1>2
<1>5. /\ TypeOK' /\ TaskTypes' /\ HoldInv' /\ OrderInv' /\ RegistryInv' /\ StoreInv'
      /\ ReplyInv' /\ StageInv'
      /\ \A r \in Requests : asked[r].state = "open" =>
           \/ \E i \in 1..Len(queue') : queue'[i].kind = "request" /\ queue'[i].id = r
           \/ request' = r
           \/ \E i \in 1..Len(mailbox') : mailbox'[i].request = r
  <2>1. /\ UNCHANGED <<workerVars, registryVars, mailbox>>
        /\ info' \in Seq(Info) /\ Len(info) <= Len(info') /\ \A h \in Handles : info'[h] = info[h]
    BY <1>1
  <2>2. /\ asked' \in Seq(Asked') /\ Len(asked) <= Len(asked')
        /\ \A r \in Requests : asked'[r] = asked[r]
    BY <1>1
  <2>3. /\ live' \in [Handles' -> BOOLEAN] /\ sessions' \in [Slots -> 0..Len(info')]
        /\ sealed' \subseteq Requests'
    BY <1>1
  <2>4. \A i, k \in 1..Len(new) : i < k => new[i].kind # "attach"
    BY <1>3
  <2> QED
    BY <1>4, <2>1, <2>2, <2>3, <2>4, UiKeeps
<1>6. RequestsAccounted'
  BY <1>1, <1>5 DEF RequestsAccounted
<1> QED
  BY <1>1, <1>5, <1>6

LEMMA NoTask == ASSUME TypeOK PROVE /\ <<>> \in Seq(TaskRec) /\ Len(<<>>) = 0
                                   /\ queue = queue \o <<>>
BY TypeFacts, ConcatEmptySeq

LEMMA OneTask ==
    ASSUME NEW t \in TaskRec
    PROVE  <<t>> \in Seq(TaskRec) /\ Len(<<t>>) = 1 /\ <<t>>[1] = t
OBVIOUS

(* Sessions of the UI thread end: none that is live is left without a slot. *)
LEMMA GateFacts ==
    ASSUME TypeOK
    PROVE  /\ gate.alive \in BOOLEAN /\ gate.locked \in BOOLEAN /\ gate.epoch \in Nat
           /\ live \in [Handles -> BOOLEAN] /\ sessions \in [Slots -> 0..Len(info)]
           /\ switching \in BOOLEAN /\ sealed \subseteq Requests /\ forgotten \in 0..Len(maker)
           /\ \A r \in Requests : asked[r].epoch \in Nat /\ asked[r].handle \in Handles
BY TypeFacts DEF TypeOK, Asked

LEMMA DetachKeeps ==
    ASSUME IInv, NEW h \in Handles, NEW out \in BOOLEAN, Detach(h, out)
    PROVE  IInv'
<1> DEFINE t == Task("detach", h, out)
           s == info[h].slot
<1>1. /\ gate.alive /\ sessions[s] = h /\ live' = [live EXCEPT ![h] = FALSE]
      /\ sessions' = [sessions EXCEPT ![s] = 0] /\ queue' = queue \o <<t>>
      /\ UNCHANGED <<info, gate, switching, workerVars, registryVars, mailbox, asked, ghosts>>
  BY TypeFacts DEF Detach, OnUi, IInv
<1>2. /\ TypeOK /\ s \in Slots /\ h \in Nat /\ h # 0 /\ Len(info) \in Nat
      /\ gate \in [alive: BOOLEAN, locked: BOOLEAN, epoch: Nat]
  <2>1. TypeOK /\ info[h] \in Info /\ Len(info) \in Nat
    BY TypeFacts DEF IInv
  <2>2. gate \in [alive: BOOLEAN, locked: BOOLEAN, epoch: Nat]
    BY <2>1 DEF TypeOK
  <2>3. h \in Nat /\ h # 0
    BY <2>1 DEF Handles
  <2> QED
    BY <2>1, <2>2, <2>3 DEF Info
<1>3. t \in TaskRec /\ t.kind = "detach" /\ t.id = h
  BY <1>2 DEF TaskRec, Task
<1> HIDE DEF t
<1>4. UNCHANGED <<sealed, forgotten>> /\ gate' = gate /\ switching' = switching /\ info' = info
      /\ asked' = asked /\ Handles' = Handles /\ Requests' = Requests
  BY <1>1 DEF ghosts, Handles, Requests
<1>5. /\ live' \in [Handles -> BOOLEAN]
      /\ \A k \in Handles : live'[k] <=> live[k] /\ k # h
      /\ sessions' \in [Slots -> 0..Len(info)]
      /\ \A u \in Slots : u # s => sessions'[u] = sessions[u]
  BY <1>1, <1>2, GateFacts
<1>6. \A r \in Requests : IsCurrent(r)' => IsCurrent(r)
  BY <1>2, <1>4, <1>5, GateFacts DEF IsCurrent, Current
<1>7. /\ TypeOK' /\ TaskTypes' /\ HoldInv' /\ OrderInv' /\ RegistryInv' /\ StoreInv'
      /\ ReplyInv' /\ StageInv' /\ RequestsAccounted'
  <2>1. <<t>> \in Seq(TaskRec) /\ Len(<<t>>) < 2 /\ \A i \in 1..Len(<<t>>) : <<t>>[i] = t
    BY <1>3, OneTask
  <2>2. \A i \in 1..Len(<<t>>) : /\ \/ <<t>>[i].kind = "detach" /\ <<t>>[i].id \in Handles
                                    \/ <<t>>[i].kind = "forget"
                                 /\ \A k \in Handles : live'[k] => ~Ends(<<t>>[i], k)
    BY <1>3, <1>5, <2>1 DEF Ends
  <2>3. UNCHANGED <<info, asked, workerVars, registryVars, mailbox>>
    BY <1>1
  <2> HIDE DEF s
  <2>4. /\ gate' \in [alive: BOOLEAN, locked: BOOLEAN, epoch: Nat] /\ switching' \in BOOLEAN
        /\ sealed' \subseteq Requests /\ forgotten' \in 0..Len(maker) /\ forgotten' = forgotten
    BY <1>2, <1>4, GateFacts
  <2> QED
    BY <1>1, <1>5, <1>6, <2>1, <2>2, <2>3, <2>4, QuietKeeps
<1>8. LiveInv'
  <2>1. ASSUME NEW k \in Handles, live'[k]
        PROVE  gate.alive /\ sessions'[info[k].slot] = k
    <3>1. live[k] /\ k # h /\ sessions[info[k].slot] = k /\ info[k].slot \in Slots
      BY <1>2, <1>5, <2>1, TypeFacts DEF IInv, LiveInv, Info
    <3>2. info[k].slot # s
      BY <1>1, <3>1
    <3> QED
      BY <1>1, <1>5, <3>1, <3>2
  <2> QED
    BY <1>4, <2>1 DEF LiveInv
<1>9. EpochInv' /\ SettledInv'
  BY <1>2, <1>4, <1>6, GateFacts DEF IInv, EpochInv, SettledInv
<1> QED
  BY <1>7, <1>8, <1>9 DEF IInv

(* setLocked exchanges the flag: every request that is still open is       *)
(* sealed, and none of those asked before can be current when it unlocks.  *)
LEMMA SetLockedKeeps ==
    ASSUME IInv, NEW locked \in BOOLEAN, SetLocked(locked)
    PROVE  IInv'
<1>1. /\ gate.alive /\ ~switching /\ gate.locked # locked
      /\ gate' = [gate EXCEPT !.locked = locked] /\ switching' = TRUE
      /\ sealed' = sealed \cup Open
      /\ UNCHANGED <<info, sessions, live, queue, workerVars, registryVars, mailbox, asked, forgotten>>
  BY DEF SetLocked, OnUi
<1>2. /\ TypeOK /\ gate \in [alive: BOOLEAN, locked: BOOLEAN, epoch: Nat]
      /\ gate.locked \in BOOLEAN /\ gate.epoch \in Nat
  BY DEF IInv, TypeOK
<1>3. /\ gate' \in [alive: BOOLEAN, locked: BOOLEAN, epoch: Nat]
      /\ gate'.alive = gate.alive /\ gate'.locked = locked /\ gate'.epoch = gate.epoch
  BY <1>1, <1>2
<1>4. gate.locked => \A r \in Requests : asked[r].epoch < gate.epoch
  BY <1>1 DEF IInv, EpochInv
<1>5. \A r \in Requests : ~IsCurrent(r)'
  BY <1>1, <1>2, <1>3, <1>4, GateFacts DEF IsCurrent, Current
<1>6. /\ TypeOK' /\ TaskTypes' /\ HoldInv' /\ OrderInv' /\ RegistryInv' /\ StoreInv'
      /\ ReplyInv' /\ StageInv' /\ RequestsAccounted' /\ Requests' = Requests
  <2>1. /\ <<>> \in Seq(TaskRec) /\ Len(<<>>) < 2 /\ queue' = queue \o <<>>
        /\ 1..Len(<<>>) = {}
    BY <1>1, <1>2, NoTask
  <2>2. UNCHANGED <<info, asked, workerVars, registryVars, mailbox>>
    BY <1>1
  <2>3. /\ live' \in [Handles -> BOOLEAN] /\ live' = live /\ sessions' \in [Slots -> 0..Len(info)]
        /\ switching' \in BOOLEAN /\ sealed' \subseteq Requests
        /\ forgotten' \in 0..Len(maker) /\ forgotten' = forgotten
    BY <1>1, <1>2, GateFacts DEF Open
  <2> QED
    BY <1>3, <1>5, <2>1, <2>2, <2>3, QuietKeeps
<1>7. LiveInv'
  BY <1>1, <1>3 DEF IInv, LiveInv, Handles
<1>8. EpochInv'
  BY <1>1, <1>2, <1>3, <1>4, <1>6 DEF IInv, EpochInv
<1>9. SettledInv'
  BY <1>1, <1>5, <1>6 DEF IInv, SettledInv, Open
<1> QED
  BY <1>6, <1>7, <1>8, <1>9 DEF IInv

LEMMA BumpEpochKeeps == ASSUME IInv, BumpEpoch PROVE IInv'
<1>1. /\ switching /\ switching' = FALSE /\ gate' = [gate EXCEPT !.epoch = @ + 1]
      /\ UNCHANGED <<info, sessions, live, queue, workerVars, registryVars, mailbox, asked, ghosts>>
  BY DEF BumpEpoch
<1>2. /\ TypeOK /\ gate \in [alive: BOOLEAN, locked: BOOLEAN, epoch: Nat]
      /\ gate.epoch \in Nat
  BY DEF IInv, TypeOK
<1>3. /\ gate' \in [alive: BOOLEAN, locked: BOOLEAN, epoch: Nat]
      /\ gate'.alive = gate.alive /\ gate'.locked = gate.locked /\ gate'.epoch = gate.epoch + 1
  BY <1>1, <1>2
<1>4. \A r \in Requests : asked[r].epoch < gate.epoch + 1
  BY <1>2, GateFacts DEF IInv, EpochInv
<1>5. \A r \in Requests : ~IsCurrent(r)'
  BY <1>1, <1>2, <1>3, <1>4, GateFacts DEF IsCurrent, Current
<1>6. /\ TypeOK' /\ TaskTypes' /\ HoldInv' /\ OrderInv' /\ RegistryInv' /\ StoreInv'
      /\ ReplyInv' /\ StageInv' /\ RequestsAccounted' /\ Requests' = Requests
  <2>1. /\ <<>> \in Seq(TaskRec) /\ Len(<<>>) < 2 /\ queue' = queue \o <<>>
        /\ 1..Len(<<>>) = {}
    BY <1>1, <1>2, NoTask
  <2>2. UNCHANGED <<info, asked, workerVars, registryVars, mailbox>>
    BY <1>1
  <2>3. /\ live' \in [Handles -> BOOLEAN] /\ live' = live /\ sessions' \in [Slots -> 0..Len(info)]
        /\ switching' \in BOOLEAN /\ sealed' \subseteq Requests
        /\ forgotten' \in 0..Len(maker) /\ forgotten' = forgotten
    BY <1>1, <1>2, GateFacts DEF ghosts
  <2> QED
    BY <1>3, <1>5, <2>1, <2>2, <2>3, QuietKeeps
<1>7. LiveInv'
  BY <1>1, <1>3 DEF IInv, LiveInv, Handles
<1>8. EpochInv'
  <2>1. sealed' = sealed /\ sealed \subseteq Requests /\ asked' = asked
    BY <1>1, <1>2, GateFacts DEF ghosts
  <2>2. \A r \in Requests : asked[r].epoch <= gate.epoch + 1
    BY <1>2, <1>4, GateFacts
  <2> QED
    BY <1>3, <1>4, <1>6, <2>1, <2>2 DEF EpochInv
<1>9. SettledInv'
  BY <1>1, <1>5, <1>6 DEF IInv, SettledInv, ghosts
<1> QED
  BY <1>6, <1>7, <1>8, <1>9 DEF IInv

(* Every session of the UI thread ends, so that none is live.              *)
LEMMA AllEnd ==
    ASSUME IInv, live' = [h \in Handles |-> live[h] /\ \A s \in Slots : sessions[s] # h]
    PROVE  live' \in [Handles -> BOOLEAN] /\ \A h \in Handles : ~live'[h]
<1>1. ASSUME NEW h \in Handles, live[h] PROVE \E s \in Slots : sessions[s] = h
  <2>1. info[h].slot \in Slots
    BY TypeFacts DEF IInv, Info
  <2> QED
    BY <1>1, <2>1 DEF IInv, LiveInv
<1> QED
  BY <1>1

LEMMA ForgetAllKeeps == ASSUME IInv, ForgetAll PROVE IInv'
<1> DEFINE t == Task("forget", 0, FALSE)
<1>1. /\ gate.alive /\ ~switching /\ gate' = [gate EXCEPT !.epoch = @ + 1]
      /\ live' = [h \in Handles |-> live[h] /\ \A s \in Slots : sessions[s] # h]
      /\ sessions' = [s \in Slots |-> 0] /\ queue' = queue \o <<t>>
      /\ sealed' = sealed \cup Open /\ forgotten' = Len(maker)
      /\ UNCHANGED <<info, switching, workerVars, registryVars, mailbox, asked>>
  <2>1. queue \in Seq(TaskRec)
    BY TypeFacts DEF IInv
  <2>2. queue' = Append(queue, t) /\ t \in TaskRec
    BY DEF ForgetAll, TaskRec, Task
  <2> HIDE DEF t
  <2>3. queue' = queue \o <<t>>
    BY <2>1, <2>2, AppendIsConcat
  <2> QED
    BY <2>3 DEF ForgetAll, OnUi
<1>2. /\ TypeOK /\ gate \in [alive: BOOLEAN, locked: BOOLEAN, epoch: Nat]
      /\ gate.epoch \in Nat /\ Len(info) \in Nat /\ Len(maker) \in Nat /\ Len(queue) \in Nat
      /\ queue \in Seq(TaskRec)
  <2>1. TypeOK /\ Len(info) \in Nat /\ Len(maker) \in Nat /\ queue \in Seq(TaskRec) /\ Len(queue) \in Nat
    BY TypeFacts DEF IInv
  <2> QED
    BY <2>1 DEF TypeOK
<1>3. /\ gate' \in [alive: BOOLEAN, locked: BOOLEAN, epoch: Nat]
      /\ gate'.alive = gate.alive /\ gate'.locked = gate.locked /\ gate'.epoch = gate.epoch + 1
  <2>1. gate' = [gate EXCEPT !.epoch = @ + 1]
    BY <1>1
  <2>2. gate \in [alive: BOOLEAN, locked: BOOLEAN, epoch: Nat]
    BY <1>2
  <2> QED
    BY <2>1, <2>2
<1>4. live' \in [Handles -> BOOLEAN] /\ \A h \in Handles : ~live'[h]
  BY <1>1, AllEnd
<1>5. \A r \in Requests : asked[r].epoch < gate.epoch + 1
  BY <1>2, GateFacts DEF IInv, EpochInv
<1>6. \A r \in Requests : ~IsCurrent(r)'
  BY <1>1, <1>2, <1>3, <1>5, GateFacts DEF IsCurrent, Current
<1>7. t \in TaskRec /\ t.kind = "forget"
  BY DEF TaskRec, Task
<1> HIDE DEF t
<1>8. /\ TypeOK' /\ TaskTypes' /\ HoldInv' /\ OrderInv' /\ RegistryInv' /\ StoreInv'
      /\ ReplyInv' /\ StageInv' /\ RequestsAccounted' /\ Requests' = Requests
  <2>1. /\ <<t>> \in Seq(TaskRec) /\ Len(<<t>>) < 2
        /\ \A i \in 1..Len(<<t>>) : <<t>>[i].kind = "forget"
    BY <1>7, OneTask
  <2>2. UNCHANGED <<info, asked, workerVars, registryVars, mailbox>>
    BY <1>1
  <2>3. /\ sessions' \in [Slots -> 0..Len(info)] /\ sealed' \subseteq Requests
        /\ switching' \in BOOLEAN /\ forgotten' \in 0..Len(maker)
    BY <1>1, <1>2, GateFacts DEF Open
  <2>4. ~NoForget'
    <3>1. queue' = Append(queue, t)
      BY <1>1, <1>2 DEF ForgetAll, t
    <3>2. Len(queue') = Len(queue) + 1 /\ queue'[Len(queue) + 1] = t
      BY <1>2, <1>7, <3>1, AppendProperties
    <3> QED
      BY <1>2, <1>7, <3>2 DEF NoForget
  <2> QED
    BY <1>1, <1>3, <1>4, <1>6, <2>1, <2>2, <2>3, <2>4, QuietKeeps
<1>9. LiveInv'
  BY <1>1, <1>4 DEF LiveInv, Handles
<1>10. EpochInv'
  <2>1. sealed' \subseteq Requests /\ asked' = asked
    BY <1>1, <1>2, GateFacts DEF Open
  <2>2. \A r \in Requests : asked[r].epoch <= gate.epoch + 1
    BY <1>2, <1>5, GateFacts
  <2> QED
    BY <1>3, <1>5, <1>8, <2>1, <2>2 DEF EpochInv
<1>11. SettledInv'
  BY <1>1, <1>6, <1>8 DEF IInv, SettledInv, Open
<1> QED
  BY <1>8, <1>9, <1>10, <1>11 DEF IInv

LEMMA DestroyKeeps == ASSUME IInv, Destroy PROVE IInv'
<1>1. /\ gate' = [gate EXCEPT !.alive = FALSE]
      /\ live' = [h \in Handles |-> live[h] /\ \A s \in Slots : sessions[s] # h]
      /\ sealed' = sealed \cup Open
      /\ UNCHANGED <<info, sessions, switching, queue, workerVars, registryVars, mailbox, asked, forgotten>>
  BY DEF Destroy
<1>2. /\ TypeOK /\ gate \in [alive: BOOLEAN, locked: BOOLEAN, epoch: Nat]
  BY DEF IInv, TypeOK
<1>3. /\ gate' \in [alive: BOOLEAN, locked: BOOLEAN, epoch: Nat]
      /\ gate'.alive = FALSE /\ gate'.locked = gate.locked /\ gate'.epoch = gate.epoch
  BY <1>1, <1>2
<1>4. live' \in [Handles -> BOOLEAN] /\ \A h \in Handles : ~live'[h]
  BY <1>1, AllEnd
<1>5. \A r \in Requests : ~IsCurrent(r)'
  BY <1>3 DEF IsCurrent, Current
<1>6. /\ TypeOK' /\ TaskTypes' /\ HoldInv' /\ OrderInv' /\ RegistryInv' /\ StoreInv'
      /\ ReplyInv' /\ StageInv' /\ RequestsAccounted' /\ Requests' = Requests
  <2>1. /\ <<>> \in Seq(TaskRec) /\ Len(<<>>) < 2 /\ queue' = queue \o <<>>
        /\ 1..Len(<<>>) = {}
    BY <1>1, <1>2, NoTask
  <2>2. UNCHANGED <<info, asked, workerVars, registryVars, mailbox>>
    BY <1>1
  <2>3. /\ sessions' \in [Slots -> 0..Len(info)] /\ switching' \in BOOLEAN /\ sealed' \subseteq Requests
        /\ forgotten' \in 0..Len(maker) /\ forgotten' = forgotten
    BY <1>1, <1>2, GateFacts DEF Open
  <2> QED
    BY <1>3, <1>4, <1>5, <2>1, <2>2, <2>3, QuietKeeps
<1>7. LiveInv'
  BY <1>1, <1>4 DEF LiveInv, Handles
<1>8. EpochInv'
  BY <1>1, <1>2, <1>3, <1>6 DEF IInv, EpochInv
<1>9. SettledInv'
  BY <1>1, <1>5, <1>6 DEF IInv, SettledInv, Open
<1> QED
  BY <1>6, <1>7, <1>8, <1>9 DEF IInv

LEMMA RequestKeeps == ASSUME IInv, NEW h \in Handles, Request(h) PROVE IInv'
<1> DEFINE q == [handle |-> h, epoch |-> gate.epoch, state |-> "open"]
<1>0. PICK n, t : n = Len(asked) + 1 /\ t = Task("request", n, FALSE)
  OBVIOUS
<1>1. /\ ~switching /\ Current(h, gate.epoch) /\ asked' = Append(asked, q) /\ queue' = Append(queue, t)
      /\ UNCHANGED <<uiVars, workerVars, registryVars, mailbox, ghosts>>
  BY <1>0 DEF Request, OnUi
<1>2. /\ TypeOK /\ asked \in Seq(Asked) /\ Len(asked) \in Nat /\ queue \in Seq(TaskRec)
      /\ Len(queue) \in Nat /\ info \in Seq(Info) /\ Len(info) \in Nat
  BY TypeFacts DEF IInv
<1>3. q \in Asked /\ q.handle = h /\ q.epoch = gate.epoch /\ q.state = "open"
  BY <1>2, GateFacts DEF Asked
<1>4. t \in TaskRec /\ t.kind = "request" /\ t.id = n
  BY <1>0, <1>2 DEF TaskRec, Task
<1> HIDE DEF q
<1>5. /\ asked' \in Seq(Asked) /\ Len(asked') = n /\ asked'[n] = q
      /\ \A r \in Requests : asked'[r] = asked[r]
  BY <1>0, <1>1, <1>2, <1>3, AppendProperties DEF Requests
<1>6. /\ queue' = queue \o <<t>> /\ Len(queue') = Len(queue) + 1 /\ queue'[Len(queue) + 1] = t
      /\ <<t>> \in Seq(TaskRec) /\ Len(<<t>>) = 1 /\ \A i \in 1..Len(<<t>>) : <<t>>[i] = t
  BY <1>1, <1>2, <1>4, AppendIsConcat, AppendProperties, OneTask
<1>7. /\ UNCHANGED <<info, live, sessions, gate, switching, sealed, forgotten>>
      /\ Handles' = Handles /\ Asked' = Asked /\ Requests' = 1..n
      /\ \A r \in Requests' : r \in Requests \/ r = n
  BY <1>0, <1>1, <1>2, <1>5 DEF uiVars, ghosts, Handles, Asked, Requests
<1>8. n \in Requests' /\ n \notin Requests /\ Requests \subseteq Requests'
  BY <1>0, <1>2, <1>7 DEF Requests
<1>9. \A r \in Requests : IsCurrent(r)' <=> IsCurrent(r)
  BY <1>5, <1>7 DEF IsCurrent, Current
<1>10. /\ TypeOK' /\ TaskTypes' /\ HoldInv' /\ OrderInv' /\ RegistryInv' /\ StoreInv'
       /\ ReplyInv' /\ StageInv'
       /\ \A r \in Requests : asked[r].state = "open" =>
            \/ \E i \in 1..Len(queue') : queue'[i].kind = "request" /\ queue'[i].id = r
            \/ request' = r
            \/ \E i \in 1..Len(mailbox') : mailbox'[i].request = r
  <2>1. UNCHANGED <<workerVars, registryVars, mailbox>>
    BY <1>1
  <2>2. /\ info' \in Seq(Info) /\ Len(info) <= Len(info') /\ \A k \in Handles : info'[k] = info[k]
    BY <1>2, <1>7
  <2>3. asked' \in Seq(Asked') /\ Len(asked) <= Len(asked')
    BY <1>0, <1>2, <1>5, <1>7
  <2>4. /\ live' \in [Handles' -> BOOLEAN] /\ live' = live /\ sessions' \in [Slots -> 0..Len(info')]
        /\ switching' \in BOOLEAN /\ sealed' \subseteq Requests' /\ forgotten' \in 0..Len(maker)
        /\ gate' \in [alive: BOOLEAN, locked: BOOLEAN, epoch: Nat]
    <3>1. gate \in [alive: BOOLEAN, locked: BOOLEAN, epoch: Nat]
      BY <1>2 DEF TypeOK
    <3> QED
      BY <1>2, <1>7, <1>8, <3>1, GateFacts
  <2>5. \A i \in 1..Len(<<t>>) : /\ <<t>>[i].kind \in {"attach", "detach"} => <<t>>[i].id \in Handles'
                                 /\ <<t>>[i].kind = "request" => <<t>>[i].id \in Requests'
                                 /\ \A k \in Handles : live'[k] => ~Ends(<<t>>[i], k)'
    BY <1>4, <1>6, <1>8 DEF Ends
  <2>6. \A i, k \in 1..Len(<<t>>) : i < k => <<t>>[i].kind # "attach"
    BY <1>4, <1>6
  <2>7. forgotten' = forgotten
    BY <1>7
  <2> QED
    BY <1>5, <1>6, <1>9, <2>1, <2>2, <2>3, <2>4, <2>5, <2>6, <2>7, UiKeeps
<1>11. LiveInv'
  BY <1>7 DEF IInv, LiveInv
<1>12. EpochInv'
  <2>1. ~gate.locked /\ sealed \subseteq Requests /\ gate.epoch \in Nat
    BY <1>1, <1>2, GateFacts DEF Current
  <2>2. asked'[n].epoch = gate.epoch
    BY <1>3, <1>5
  <2>3. \A r \in Requests' : asked'[r].epoch <= gate.epoch
    BY <1>5, <1>7, <2>1, <2>2 DEF IInv, EpochInv
  <2>4. \A r \in sealed : asked'[r].epoch < gate.epoch \/ switching \/ ~gate.alive
    BY <1>5, <2>1 DEF IInv, EpochInv
  <2>5. gate.locked = FALSE /\ switching = FALSE
    BY <1>1, <1>2, <2>1, GateFacts
  <2> QED
    BY <1>7, <2>3, <2>4, <2>5 DEF EpochInv
<1>13. SettledInv'
  <2>1. sealed \subseteq Requests /\ asked'[n].state = "open"
    BY <1>2, <1>3, <1>5, GateFacts
  <2> QED
    BY <1>5, <1>7, <1>9, <2>1 DEF IInv, SettledInv
<1>14. RequestsAccounted'
  <2>1. ASSUME NEW r \in Requests', asked'[r].state = "open"
        PROVE  \/ \E i \in 1..Len(queue') : queue'[i].kind = "request" /\ queue'[i].id = r
               \/ request' = r
               \/ \E i \in 1..Len(mailbox') : mailbox'[i].request = r
    <3>1. CASE r \in Requests
      BY <1>5, <1>10, <2>1, <3>1
    <3>2. CASE r = n
      <4>1. Len(queue) + 1 \in 1..Len(queue')
        BY <1>2, <1>6
      <4> QED
        BY <1>4, <1>6, <3>2, <4>1
    <3> QED
      BY <1>7, <3>1, <3>2
  <2> QED
    BY <2>1 DEF RequestsAccounted
<1> QED
  BY <1>10, <1>11, <1>12, <1>13, <1>14 DEF IInv

(* The session that had the slot is detached before the new one attaches.  *)
LEMMA AttachKeeps ==
    ASSUME IInv, NEW s \in Slots, NEW login \in Logins, NEW fresh \in BOOLEAN, Attach(s, login, fresh)
    PROVE  IInv'
<1>0. PICK old, h, i1, a, d :
         /\ old = sessions[s] /\ h = Len(info) + 1 /\ i1 = [slot |-> s, login |-> login, fresh |-> fresh]
         /\ a = Task("attach", h, FALSE) /\ d = Task("detach", old, FALSE)
  OBVIOUS
<1>1. /\ gate.alive /\ ~switching /\ info' = Append(info, i1)
      /\ live' = [i \in 1..h |-> IF i = h THEN TRUE ELSE live[i] /\ i # old]
      /\ sessions' = [sessions EXCEPT ![s] = h]
      /\ queue' = (IF old = 0 THEN queue ELSE Append(queue, d)) \o <<a>>
      /\ UNCHANGED <<gate, switching, workerVars, registryVars, mailbox, asked, ghosts>>
  BY <1>0 DEF Attach, OnUi
<1>2. /\ TypeOK /\ asked \in Seq(Asked) /\ Len(asked) \in Nat /\ queue \in Seq(TaskRec)
      /\ Len(queue) \in Nat /\ info \in Seq(Info) /\ Len(info) \in Nat /\ h \in Nat
  BY <1>0, TypeFacts DEF IInv
<1>3. old \in 0..Len(info) /\ (old # 0 => old \in Handles)
  BY <1>0, <1>2, GateFacts DEF Handles
<1>4. i1 \in Info /\ i1.slot = s
  BY <1>0 DEF Info
<1>5. /\ a \in TaskRec /\ a.kind = "attach" /\ a.id = h
      /\ d \in TaskRec /\ d.kind = "detach" /\ d.id = old
  BY <1>0, <1>2, <1>3 DEF TaskRec, Task
<1>6. /\ info' \in Seq(Info) /\ Len(info') = h /\ info'[h] = i1
      /\ \A k \in Handles : info'[k] = info[k]
  BY <1>0, <1>1, <1>2, <1>4, AppendProperties DEF Handles
<1>7. /\ Handles' = 1..h /\ Handles \subseteq Handles' /\ h \in Handles' /\ h \notin Handles
      /\ \A k \in Handles' : k \in Handles \/ k = h
  BY <1>0, <1>2, <1>6 DEF Handles
<1>8. /\ UNCHANGED <<gate, switching, asked, sealed, forgotten>> /\ Requests' = Requests
  BY <1>1 DEF ghosts, Requests
<1>9. /\ live' \in [Handles' -> BOOLEAN] /\ live'[h] = TRUE
      /\ \A k \in Handles : live'[k] <=> live[k] /\ k # old
  BY <1>0, <1>1, <1>2, <1>7, GateFacts DEF Handles
<1>10. /\ sessions' \in [Slots -> 0..h] /\ sessions'[s] = h
       /\ \A u \in Slots : u # s => sessions'[u] = sessions[u]
  BY <1>0, <1>1, <1>2, GateFacts
<1>11. PICK new \in Seq(TaskRec) :
          /\ queue' = queue \o new /\ Len(new) \in Nat
          /\ \A i \in 1..Len(new) : new[i] = a \/ (new[i] = d /\ old # 0)
          /\ \A i, k \in 1..Len(new) : i < k => new[i] = d
  <2>1. CASE old = 0
    <3>1. queue' = queue \o <<a>>
      BY <1>1, <2>1
    <3>2. <<a>> \in Seq(TaskRec) /\ Len(<<a>>) = 1 /\ <<a>>[1] = a
      BY <1>5, OneTask
    <3>3. /\ Len(<<a>>) \in Nat /\ \A i \in 1..Len(<<a>>) : <<a>>[i] = a
          /\ \A i, k \in 1..Len(<<a>>) : ~(i < k)
      BY <3>2
    <3> QED
      BY <3>1, <3>2, <3>3, Zenon
  <2>2. CASE old # 0
    <3>1. <<d, a>> \in Seq(TaskRec) /\ Len(<<d, a>>) = 2 /\ <<d, a>>[1] = d /\ <<d, a>>[2] = a
      BY <1>5
    <3>2. queue' = queue \o <<d, a>>
      <4>1. queue' = Append(queue, d) \o <<a>>
        BY <1>1, <2>2
      <4>2. Append(queue, d) = queue \o <<d>> /\ <<d>> \in Seq(TaskRec) /\ <<a>> \in Seq(TaskRec)
        BY <1>2, <1>5, AppendIsConcat, OneTask
      <4>3. (queue \o <<d>>) \o <<a>> = queue \o (<<d>> \o <<a>>)
        BY <1>2, <4>2, ConcatAssociative
      <4>4. <<d>> \o <<a>> = <<d, a>>
        <5>1. /\ <<d>> \o <<a>> \in Seq(TaskRec) /\ Len(<<d>> \o <<a>>) = 2
              /\ (<<d>> \o <<a>>)[1] = d /\ (<<d>> \o <<a>>)[2] = a
          <6> DEFINE x == <<d>>
                     y == <<a>>
          <6>1. /\ x \in Seq(TaskRec) /\ Len(x) = 1 /\ x[1] = d
                /\ y \in Seq(TaskRec) /\ Len(y) = 1 /\ y[1] = a
            BY <1>5, OneTask
          <6> HIDE DEF x, y
          <6>2. /\ x \o y \in Seq(TaskRec) /\ Len(x \o y) = 2
                /\ (x \o y)[1] = d /\ (x \o y)[2] = a
            <7>1. /\ x \o y \in Seq(TaskRec) /\ Len(x \o y) = Len(x) + Len(y)
                  /\ \A i \in 1..Len(x) + Len(y) :
                        (x \o y)[i] = IF i <= Len(x) THEN x[i] ELSE y[i - Len(x)]
              BY <6>1, ConcatProperties, Zenon
            <7>2. Len(x) + Len(y) = 2
              BY <6>1
            <7> QED
              BY <6>1, <7>1, <7>2
          <6> QED
            BY <6>2 DEF x, y
        <5>2. \A i \in 1..2 : i = 1 \/ i = 2
          OBVIOUS
        <5> QED
          BY <3>1, <5>1, <5>2, SeqEqual
      <4> QED
        BY <4>1, <4>2, <4>3, <4>4
    <3>3. \A i, k \in 1..Len(<<d, a>>) : (i = 1 \/ i = 2) /\ (i < k => i = 1)
      BY <3>1
    <3> QED
      BY <2>2, <3>1, <3>2, <3>3
  <2> QED
    BY <2>1, <2>2
(* A session that stays live is not of this slot.                          *)
<1>12. ASSUME NEW k \in Handles, live'[k]
       PROVE  live[k] /\ k # old /\ info[k].slot # s /\ sessions'[info[k].slot] = k
  <2>1. live[k] /\ k # old /\ sessions[info[k].slot] = k /\ info[k].slot \in Slots
    BY <1>2, <1>9, <1>12, TypeFacts DEF IInv, LiveInv, Info
  <2> QED
    BY <1>0, <1>10, <2>1
<1>13. \A r \in Requests : IsCurrent(r)' => IsCurrent(r)
  BY <1>2, <1>8, <1>9, GateFacts DEF IsCurrent, Current
<1>14. /\ TypeOK' /\ TaskTypes' /\ HoldInv' /\ OrderInv' /\ RegistryInv' /\ StoreInv'
       /\ ReplyInv' /\ StageInv'
       /\ \A r \in Requests : asked[r].state = "open" =>
            \/ \E i \in 1..Len(queue') : queue'[i].kind = "request" /\ queue'[i].id = r
            \/ request' = r
            \/ \E i \in 1..Len(mailbox') : mailbox'[i].request = r
  <2>1. UNCHANGED <<workerVars, registryVars, mailbox>>
    BY <1>1
  <2>2. Len(info) <= Len(info')
    BY <1>0, <1>2, <1>6
  <2>3. asked' \in Seq(Asked') /\ Len(asked) <= Len(asked') /\ \A r \in Requests : asked'[r] = asked[r]
    <3>1. Asked \subseteq Asked'
      BY <1>7, Zenon DEF Asked
    <3>2. asked \in Seq(Asked')
      BY <1>2, <3>1, SeqMonotonic
    <3> QED
      BY <1>2, <1>8, <3>2
  <2>4. /\ sessions' \in [Slots -> 0..Len(info')] /\ \A k \in Handles : live'[k] => live[k]
        /\ switching' \in BOOLEAN /\ sealed' \subseteq Requests' /\ forgotten' \in 0..Len(maker)
        /\ gate' \in [alive: BOOLEAN, locked: BOOLEAN, epoch: Nat]
    <3>1. gate \in [alive: BOOLEAN, locked: BOOLEAN, epoch: Nat]
      BY <1>2 DEF TypeOK
    <3> QED
      BY <1>2, <1>6, <1>8, <1>9, <1>10, <3>1, GateFacts
  <2>5. ASSUME NEW i \in 1..Len(new)
        PROVE  /\ new[i].kind \in {"attach", "detach"} => new[i].id \in Handles'
               /\ new[i].kind = "request" => new[i].id \in Requests'
               /\ \A k \in Handles : live'[k] => ~Ends(new[i], k)'
    <3>1. CASE new[i] = a
      <4>1. \A k \in Handles : live'[k] => info'[h].slot # info'[k].slot
        BY <1>4, <1>6, <1>12
      <4> QED
        BY <1>5, <1>7, <3>1, <4>1 DEF Ends
    <3>2. CASE new[i] = d /\ old # 0
      BY <1>3, <1>5, <1>7, <1>12, <3>2 DEF Ends
    <3> QED
      BY <1>11, <3>1, <3>2
  <2>6. \A i, k \in 1..Len(new) : i < k => new[i].kind # "attach"
    BY <1>5, <1>11
  <2>7. forgotten' = forgotten
    BY <1>8
  <2> QED
    BY <1>6, <1>9, <1>11, <1>13, <2>1, <2>2, <2>3, <2>4, <2>5, <2>6, <2>7, UiKeeps
<1>15. LiveInv'
  <2>1. ASSUME NEW k \in Handles', live'[k] PROVE gate'.alive /\ sessions'[info'[k].slot] = k
    <3>1. CASE k \in Handles
      BY <1>1, <1>6, <1>8, <1>12, <2>1, <3>1
    <3>2. CASE k = h
      BY <1>1, <1>4, <1>6, <1>8, <1>10, <3>2
    <3> QED
      BY <1>7, <3>1, <3>2
  <2> QED
    BY <2>1 DEF LiveInv
<1>16. EpochInv' /\ SettledInv'
  BY <1>8, <1>13 DEF IInv, EpochInv, SettledInv
<1>17. RequestsAccounted'
  BY <1>8, <1>14 DEF RequestsAccounted
<1> QED
  BY <1>14, <1>15, <1>16, <1>17 DEF IInv

----------------------------------------------------------------------------
(* The invariant holds *)

LEMMA Initially == ASSUME Init PROVE IInv
<1>1. /\ info = <<>> /\ live = <<>> /\ queue = <<>> /\ mailbox = <<>> /\ asked = <<>> /\ maker = <<>>
      /\ gate = [alive |-> TRUE, locked |-> FALSE, epoch |-> 0] /\ switching = FALSE
      /\ phase = "wait" /\ request = 0 /\ result = 0 /\ resetPending = FALSE
      /\ storage = [s \in Slots |-> Closed] /\ sessions = [s \in Slots |-> 0]
      /\ active = [s \in Slots |-> 0] /\ retired = {} /\ sealed = {} /\ forgotten = 0
  BY DEF Init
<1>2. Len(info) = 0 /\ Len(queue) = 0 /\ Len(mailbox) = 0 /\ Len(asked) = 0 /\ Len(maker) = 0
  BY <1>1
<1>3. Handles = {} /\ Generations = {} /\ Requests = {} /\ 1..Len(queue) = {} /\ 1..Len(mailbox) = {}
  BY <1>2 DEF Handles, Generations, Requests
<1>4. \A s \in Slots : storage[s].session = 0 /\ storage[s].store = 0 /\ active[s] = 0
  BY <1>1 DEF Closed
<1>5. TypeOK
  <2>1. /\ info \in Seq([slot: Slots, login: Logins, fresh: BOOLEAN])
        /\ queue \in Seq([kind: {"attach", "detach", "forget", "request"}, id: Nat, out: BOOLEAN])
        /\ maker \in Seq(Handles) /\ mailbox \in Seq([request: Requests, gen: 0..Len(maker)])
        /\ asked \in Seq([handle: Handles, epoch: Nat, state: {"open", "shown", "dropped"}])
    BY <1>1
  <2>2. /\ sessions \in [Slots -> 0..Len(info)] /\ active \in [Slots -> 0..Len(maker)]
        /\ gate \in [alive: BOOLEAN, locked: BOOLEAN, epoch: Nat]
        /\ storage \in [Slots -> [session: 0..Len(info), store: 0..Len(maker), fresh: BOOLEAN]]
    BY <1>1, <1>2 DEF Closed
  <2>3. live \in [Handles -> BOOLEAN]
    <3>1. live = [h \in {} |-> FALSE]
      BY <1>1
    <3> QED
      BY <1>3, <3>1
  <2>4. /\ switching \in BOOLEAN /\ phase \in {"wait", "run", "reply", "stopped"}
        /\ request \in 0..Len(asked) /\ result \in 0..Len(maker) /\ resetPending \in BOOLEAN
        /\ retired \subseteq Generations /\ sealed \subseteq Requests /\ forgotten \in 0..Len(maker)
    <3>1. 0 \in 0..Len(asked) /\ 0 \in 0..Len(maker)
      BY <1>2
    <3>2. /\ switching = FALSE /\ phase = "wait" /\ request = 0 /\ result = 0 /\ resetPending = FALSE
          /\ retired = {} /\ sealed = {} /\ forgotten = 0
      BY <1>1
    <3> QED
      BY <3>1, <3>2, Zenon
  <2> QED
    BY <2>1, <2>2, <2>3, <2>4, Zenon DEF TypeOK
<1>6. TaskTypes /\ LiveInv /\ HoldInv /\ OrderInv /\ RegistryInv /\ StoreInv
  BY <1>3, <1>4 DEF TaskTypes, LiveInv, HoldInv, OrderInv, RegistryInv, StoreInv, OpenStore, Intent
<1>7. ReplyInv /\ StageInv /\ EpochInv /\ SettledInv /\ RequestsAccounted
  BY <1>1, <1>3 DEF ReplyInv, StageInv, EpochInv, SettledInv, RequestsAccounted
<1> QED
  BY <1>5, <1>6, <1>7 DEF IInv

LEMMA Preserved == ASSUME IInv, [Next]_vars PROVE IInv'
<1>1. CASE Next
  <2>1. CASE \E s \in Slots, l \in Logins, fresh \in BOOLEAN : Attach(s, l, fresh)
    BY <2>1, AttachKeeps
  <2>2. CASE \E h \in Handles, out \in BOOLEAN : Detach(h, out)
    BY <2>2, DetachKeeps
  <2>3. CASE \E locked \in BOOLEAN : SetLocked(locked)
    BY <2>3, SetLockedKeeps
  <2>4. CASE \E h \in Handles : Request(h)
    BY <2>4, RequestKeeps
  <2>5. CASE ForgetAll
    BY <2>5, ForgetAllKeeps
  <2>6. CASE Destroy
    BY <2>6, DestroyKeeps
  <2>7. CASE BumpEpoch
    BY <2>7, BumpEpochKeeps
  <2>8. CASE WorkerStep
    BY <2>8, AttachTaskKeeps, DetachTaskKeeps, ForgetTaskKeeps, TakeRequestKeeps, RunRequestKeeps,
       PostReplyKeeps, StopKeeps DEF WorkerStep
  <2>9. CASE Deliver
    BY <2>9, DeliverKeeps
  <2> QED
    BY <1>1, <2>1, <2>2, <2>3, <2>4, <2>5, <2>6, <2>7, <2>8, <2>9 DEF Next, Ui
<1>2. CASE UNCHANGED vars
  <2>1. UNCHANGED <<uiVars, queue, storage, resetPending, registryVars, ghosts>>
        /\ UNCHANGED <<phase, request, result, mailbox, asked>>
    BY <1>2 DEF vars, workerVars
  <2>2. HoldInv' /\ OrderInv' /\ LiveInv' /\ RegistryInv' /\ StoreInv'
    BY <2>1, HoldKept
  <2>3. UNCHANGED <<info, sessions, live, gate, switching, active, retired, maker, sealed, forgotten>>
        /\ Handles' = Handles /\ Requests' = Requests /\ Generations' = Generations
    BY <2>1 DEF uiVars, registryVars, ghosts, Handles, Requests, Generations
  <2>4. TypeOK'
    BY <2>1, <2>3 DEF IInv, TypeOK
  <2>5. \A r \in Requests : IsCurrent(r)' <=> IsCurrent(r)
    BY <2>1, <2>3 DEF IsCurrent, Current
  <2>6. TaskTypes' /\ StageInv' /\ EpochInv' /\ SettledInv' /\ RequestsAccounted'
    BY <2>1, <2>3, <2>5 DEF IInv, TaskTypes, StageInv, EpochInv, SettledInv, RequestsAccounted
  <2>7. ReplyInv'
    BY <2>1, <2>3, Zenon DEF IInv, ReplyInv, Held, IsCurrent, Current
  <2> QED
    BY <2>2, <2>4, <2>6, <2>7 DEF IInv
<1> QED
  BY <1>1, <1>2

LEMMA Invariant == Spec => []IInv
BY Initially, Preserved, PTL DEF Spec

----------------------------------------------------------------------------
(* What it gives *)

(* A reply that is current was read from the open store of its session.    *)
LEMMA ShownFacts ==
    ASSUME IInv, NEW i \in 1..Len(mailbox), IsCurrent(mailbox[i].request), mailbox[i].gen # 0
    PROVE  LET h == asked[mailbox[i].request].handle
               g == mailbox[i].gen
           IN  /\ active[info[h].slot] = g /\ g \notin retired /\ LoginOf(g) = info[h].login
               /\ info[h].fresh => maker[g] = h
               /\ g > forgotten
<1> DEFINE h == asked[mailbox[i].request].handle
           s == info[h].slot
<1>1. /\ h \in Handles /\ s \in Slots /\ live[h]
      /\ storage[s].session = h /\ storage[s].store = mailbox[i].gen
  BY HeldFacts, Zenon
<1>2. OpenStore(s, storage[s])
  BY <1>1 DEF IInv, StoreInv
<1> QED
  BY <1>1, <1>2, ZenonT(30) DEF OpenStore, IInv, RegistryInv

(* A reply that would be shown was read from the generation in force, of   *)
(* the login that asked (ReplyInForce), for any number of sessions.        *)
THEOREM RepliesAlwaysInForce == Spec => []ReplyInForce
<1>1. IInv => ReplyInForce
  BY ShownFacts DEF ReplyInForce, Shown
<1> QED
  BY Invariant, <1>1, PTL

(* A fresh login is never shown what was there before it                   *)
(* (FreshLoginStartsEmpty), whatever failed in between.                    *)
THEOREM FreshLoginsStartEmpty == Spec => []FreshLoginStartsEmpty
<1>1. IInv => FreshLoginStartsEmpty
  BY ShownFacts DEF FreshLoginStartsEmpty, Shown
<1> QED
  BY Invariant, <1>1, PTL

(* What a lock, a reset or a logout took back stays back (RevocationHeld). *)
THEOREM RevocationAlwaysHeld == Spec => []RevocationHeld
<1>1. IInv => RevocationHeld
  <2>1. IInv => StoreIsActive
    BY DEF IInv, StoreInv, OpenStore, StoreIsActive
  <2>2. IInv => RevocationExact
    BY ShownFacts DEF RevocationExact, Shown, IInv, SettledInv
  <2> QED
    BY <2>1, <2>2 DEF RevocationHeld, IInv
<1> QED
  BY Invariant, <1>1, PTL

(* An open request is queued, being run, or answered in the mailbox        *)
(* (RequestsAccounted).                                                    *)
THEOREM NoRequestLost == Spec => []RequestsAccounted
<1>1. IInv => RequestsAccounted
  BY DEF IInv
<1> QED
  BY Invariant, <1>1, PTL

-----------------------------------------------------------------------------
(* The folders *)

ChatsAssumed == /\ OrderId \notin FolderIds /\ IsFiniteSet(FolderIds)
                /\ MaxEdits \in Nat /\ MaxForced \in Nat

----------------------------------------------------------------------------
(* The inductive invariant *)

ChatsRequestSet == [edit : Nat, thing : Chats!Things, by : Chats!Ways, says : Chats!Says]

ChatsTypesInv ==
    /\ made \in Nat /\ server \in Chats!Values /\ local \in Chats!Values
    /\ edits \subseteq ChatsRequestSet
    /\ load \in [state : {"none", "sent", "read"}, value : Chats!Values]
    /\ reload \in BOOLEAN /\ lost \in BOOLEAN
    /\ order \in 0..made /\ accepted \subseteq Chats!Edits
    /\ bulk \in [all : SUBSET Chats!Edits, ids : SUBSET Chats!Edits, failed : BOOLEAN,
                 finished : BOOLEAN, continued : {0, 1}]

ChatsNumbersInv == \A r \in edits :
    /\ r.edit \in Chats!Edits /\ \A q \in edits : q.edit = r.edit => q = r
    /\ r.by = "order" <=> r.thing = OrderId
    /\ r.says = "true" <=> r.edit \in accepted

ChatsOrderInv ==
    /\ order # 0 => \E r \in edits : r.by = "order" /\ r.edit = order
    /\ \A r \in edits : r.by = "order" =>
          /\ r.says = "nothing" => order # 0
          /\ order # 0 => r.edit <= order
          /\ \A q \in edits : q.by = "order" /\ q.edit < r.edit /\ r.says # "nothing"
                                     => q.says # "nothing"

ChatsBulkInv ==
    /\ bulk.ids \subseteq bulk.all
    /\ \A r \in edits : /\ r.by = "bulk" <=> r.edit \in bulk.ids
                        /\ r.edit \in bulk.all => r.by = "bulk"
    /\ \A e \in bulk.ids : \E r \in edits : r.edit = e
    /\ bulk # Chats!NoBulk => bulk.all # {} /\ (bulk.finished <=> bulk.ids = {})
    /\ bulk.failed <=> \E e \in bulk.all \ bulk.ids : e \notin accepted
    /\ bulk.continued = IF bulk.finished /\ ~bulk.failed THEN 1 ELSE 0

(* An answer is awaited that brings the server's copy of thing t, or is it. *)
ChatsAwaited(t) ==
    \/ bulk.ids # {}
    \/ \E r \in edits : /\ r.thing = t
                        /\ \/ r.by = "edit"
                           \/ r.by = "order" /\ r.edit = order
                           \/ r.by = "remove" /\ r.says = "true" /\ server[t] = r.edit

ChatsCopyInv == ~lost =>
    /\ load = Chats!NoLoad => \A t \in Chats!Things : local[t] = server[t] \/ ChatsAwaited(t)
    /\ load.state = "read" /\ ~reload =>
           \A t \in Chats!Things : load.value[t] = server[t] \/ ChatsAwaited(t)

ChatsIInv == ChatsTypesInv /\ ChatsNumbersInv /\ ChatsOrderInv /\ ChatsBulkInv /\ ChatsCopyInv

----------------------------------------------------------------------------
LEMMA ChatsInitSound == ASSUME ChatsAssumed, Chats!Init PROVE ChatsIInv
<1>1. /\ made = 0 /\ edits = {} /\ accepted = {} /\ load = Chats!NoLoad /\ reload = FALSE /\ order = 0
      /\ bulk = Chats!NoBulk /\ lost = FALSE /\ server = [t \in Chats!Things |-> 0] /\ local = server
  BY DEF Chats!Init
<1>2. Chats!Edits = {} /\ Chats!Values = [Chats!Things -> {0}]
  BY <1>1 DEF Chats!Edits, Chats!Values
<1>3. ChatsTypesInv
  <2>1. server \in Chats!Values /\ local \in Chats!Values
    BY <1>1, <1>2
  <2>2. load \in [state : {"none", "sent", "read"}, value : Chats!Values]
    BY <1>1, <1>2 DEF Chats!NoLoad
  <2>3. bulk \in [all : SUBSET Chats!Edits, ids : SUBSET Chats!Edits, failed : BOOLEAN,
                  finished : BOOLEAN, continued : {0, 1}]
    BY <1>1, <1>2 DEF Chats!NoBulk
  <2>4. made \in Nat /\ edits \subseteq ChatsRequestSet /\ order \in 0..made /\ accepted \subseteq Chats!Edits
    BY <1>1
  <2>5. reload \in BOOLEAN /\ lost \in BOOLEAN
    BY <1>1
  <2> QED
    BY <2>1, <2>2, <2>3, <2>4, <2>5 DEF ChatsTypesInv
<1>4. ChatsNumbersInv /\ ChatsOrderInv
  BY <1>1 DEF ChatsNumbersInv, ChatsOrderInv
<1>5. ChatsBulkInv
  <2>1. bulk.all = {} /\ bulk.ids = {} /\ bulk.failed = FALSE /\ bulk.finished = FALSE /\ bulk.continued = 0
    BY <1>1 DEF Chats!NoBulk
  <2> QED
    BY <1>1, <2>1 DEF ChatsBulkInv
<1>6. ChatsCopyInv
  <2>1. load.state # "read"
    BY <1>1 DEF Chats!NoLoad
  <2> QED
    BY <1>1, <2>1 DEF ChatsCopyInv
<1> QED
  BY <1>3, <1>4, <1>5, <1>6 DEF ChatsIInv

----------------------------------------------------------------------------
(* Loads *)

ChatsLoadSet == [state : {"none", "sent", "read"}, value : Chats!Values]

(* After a load was started, or is to be repeated, nothing is owed.        *)
LEMMA ChatsLoadTypes ==
    ASSUME ChatsTypesInv, Chats!Load \/ Chats!Reload
    PROVE  load' \in ChatsLoadSet /\ reload' \in BOOLEAN /\ lost' \in BOOLEAN /\ ChatsCopyInv'
<1>1. load \in ChatsLoadSet /\ reload \in BOOLEAN /\ lost \in BOOLEAN /\ made \in Nat
  BY DEF ChatsTypesInv, ChatsLoadSet
<1>2. [Chats!NoLoad EXCEPT !.state = "sent"] \in ChatsLoadSet
  <2>1. [t \in Chats!Things |-> 0] \in Chats!Values
    BY <1>1 DEF Chats!Values
  <2> QED
    BY <2>1 DEF Chats!NoLoad, ChatsLoadSet
<1>3. [Chats!NoLoad EXCEPT !.state = "sent"].state = "sent" /\ Chats!NoLoad.state = "none"
  BY DEF Chats!NoLoad
<1>4. CASE Chats!Load
  <2>1. load' = [Chats!NoLoad EXCEPT !.state = "sent"] /\ reload' = FALSE /\ lost' = FALSE
    BY <1>4 DEF Chats!Load
  <2>2. load' # Chats!NoLoad /\ load'.state # "read"
    BY <1>3, <2>1
  <2> QED
    BY <1>2, <2>1, <2>2 DEF ChatsCopyInv
<1>5. CASE Chats!Reload /\ load # Chats!NoLoad
  BY <1>1, <1>5 DEF Chats!Reload, ChatsCopyInv
<1> QED
  BY <1>4, <1>5 DEF Chats!Reload

(* What the types say of the rest when only a load changes.                *)
LEMMA ChatsLoadStep ==
    ASSUME ChatsIInv, load' \in ChatsLoadSet, reload' \in BOOLEAN, lost' \in BOOLEAN, ChatsCopyInv',
           local' \in Chats!Values, UNCHANGED <<server, made, edits, order, bulk, accepted>>
    PROVE  ChatsIInv'
<1>1. Chats!Edits' = Chats!Edits /\ Chats!Values' = Chats!Values
  BY DEF Chats!Edits, Chats!Values
<1>2. ChatsTypesInv'
  BY <1>1 DEF ChatsIInv, ChatsTypesInv, ChatsLoadSet
<1>3. ChatsNumbersInv' /\ ChatsOrderInv' /\ ChatsBulkInv'
  BY <1>1 DEF ChatsIInv, ChatsNumbersInv, ChatsOrderInv, ChatsBulkInv
<1> QED
  BY <1>2, <1>3 DEF ChatsIInv

LEMMA ChatsLoadsKeep ==
    ASSUME ChatsIInv, Chats!ForceLoad \/ Chats!Read \/ Chats!LoadDone \/ Chats!LoadFailed
    PROVE  ChatsIInv'
<1>1. /\ server \in Chats!Values /\ local \in Chats!Values /\ load \in ChatsLoadSet /\ reload \in BOOLEAN /\ lost \in BOOLEAN
      /\ made \in Nat
  BY DEF ChatsIInv, ChatsTypesInv, ChatsLoadSet
<1>2. CASE Chats!ForceLoad
  BY <1>1, <1>2, ChatsLoadTypes, ChatsLoadStep DEF Chats!ForceLoad, ChatsIInv
<1>3. CASE Chats!Read
  <2>1. /\ load' = [state |-> "read", value |-> server]
        /\ UNCHANGED <<server, local, made, edits, reload, order, bulk, accepted, forced, lost>>
    BY <1>3 DEF Chats!Read
  <2>2. load' \in ChatsLoadSet /\ load'.value = server /\ load'.state = "read" /\ load' # Chats!NoLoad
    <3>1. load' \in ChatsLoadSet /\ load'.value = server /\ load'.state = "read"
      BY <1>1, <2>1 DEF ChatsLoadSet
    <3> QED
      BY <3>1 DEF Chats!NoLoad
  <2>3. ChatsCopyInv'
    BY <2>1, <2>2 DEF ChatsCopyInv
  <2> QED
    BY <1>1, <2>1, <2>2, <2>3, ChatsLoadStep
<1>4. CASE Chats!LoadDone /\ reload
  <2>1. Chats!Load /\ local' = load.value /\ UNCHANGED <<server, made, edits, order, bulk, accepted>>
    BY <1>4 DEF Chats!LoadDone
  <2>2. local' \in Chats!Values
    BY <1>1, <2>1 DEF ChatsLoadSet
  <2> QED
    BY <2>1, <2>2, ChatsLoadTypes, ChatsLoadStep DEF ChatsIInv
<1>5. CASE Chats!LoadDone /\ ~reload
  <2>1. /\ load.state = "read" /\ local' = load.value /\ load' = Chats!NoLoad
        /\ UNCHANGED <<server, made, edits, order, bulk, accepted, reload, lost>>
    BY <1>5 DEF Chats!LoadDone
  <2>2. local' \in Chats!Values /\ load' \in ChatsLoadSet /\ load'.state # "read"
    <3>1. [t \in Chats!Things |-> 0] \in Chats!Values
      BY <1>1 DEF Chats!Values
    <3> QED
      BY <1>1, <2>1, <3>1 DEF ChatsLoadSet, Chats!NoLoad
  <2>3. ChatsCopyInv'
    <3>1. ~lost => \A t \in Chats!Things : load.value[t] = server[t] \/ ChatsAwaited(t)
      BY <1>5, <2>1 DEF ChatsIInv, ChatsCopyInv
    <3>2. \A t \in Chats!Things : ChatsAwaited(t) => ChatsAwaited(t)'
      BY <2>1 DEF ChatsAwaited
    <3> QED
      BY <2>1, <2>2, <3>1, <3>2 DEF ChatsCopyInv
  <2> QED
    BY <1>1, <2>1, <2>2, <2>3, ChatsLoadStep
<1>6. CASE Chats!LoadFailed /\ reload
  BY <1>1, <1>6, ChatsLoadTypes, ChatsLoadStep DEF Chats!LoadFailed, ChatsIInv
<1>7. CASE Chats!LoadFailed /\ ~reload
  <2>1. /\ load' = Chats!NoLoad /\ lost' = TRUE
        /\ UNCHANGED <<server, local, made, edits, order, bulk, accepted, reload>>
    BY <1>7 DEF Chats!LoadFailed
  <2>2. load' \in ChatsLoadSet
    <3>1. [t \in Chats!Things |-> 0] \in Chats!Values
      BY <1>1 DEF Chats!Values
    <3> QED
      BY <2>1, <3>1 DEF ChatsLoadSet, Chats!NoLoad
  <2>3. ChatsCopyInv'
    BY <2>1 DEF ChatsCopyInv
  <2> QED
    BY <1>1, <2>1, <2>2, <2>3, ChatsLoadStep
<1> QED
  BY <1>2, <1>3, <1>4, <1>5, <1>6, <1>7

----------------------------------------------------------------------------
(* Edits by the user *)

(* Numbers that are not used yet leave the types as they are.              *)
LEMMA ChatsTypesGrow ==
    ASSUME ChatsTypesInv, NEW n \in Nat, n >= made, made' = n
    PROVE  /\ Chats!Edits \subseteq Chats!Edits' /\ Chats!Values \subseteq Chats!Values' /\ ChatsLoadSet \subseteq ChatsLoadSet'
           /\ order \in 0..made' /\ accepted \subseteq Chats!Edits' /\ made' \in Nat
           /\ bulk \in [all : SUBSET Chats!Edits', ids : SUBSET Chats!Edits', failed : BOOLEAN,
                        finished : BOOLEAN, continued : {0, 1}]
<1>1. made \in Nat /\ order \in 0..made /\ accepted \subseteq Chats!Edits
      /\ bulk \in [all : SUBSET Chats!Edits, ids : SUBSET Chats!Edits, failed : BOOLEAN,
                   finished : BOOLEAN, continued : {0, 1}]
  BY DEF ChatsTypesInv
<1>2. Chats!Edits \subseteq Chats!Edits' /\ 0..made \subseteq 0..made'
  BY <1>1 DEF Chats!Edits
<1>3. Chats!Values \subseteq Chats!Values'
  BY <1>2 DEF Chats!Values
<1>4. ChatsLoadSet \subseteq ChatsLoadSet'
  BY <1>3 DEF ChatsLoadSet
<1>5. bulk \in [all : SUBSET Chats!Edits', ids : SUBSET Chats!Edits', failed : BOOLEAN,
                finished : BOOLEAN, continued : {0, 1}]
  BY <1>1, <1>2
<1> QED
  BY <1>1, <1>2, <1>3, <1>4, <1>5

LEMMA ChatsEditStep ==
    ASSUME ChatsAssumed, ChatsIInv, NEW thing \in Chats!Things, NEW by \in {"edit", "order", "remove"},
           by = "order" <=> thing = OrderId,
           made' = made + 1, edits' = edits \cup {Chats!Request(made', thing, by)},
           order' = IF by = "order" THEN made' ELSE order,
           local' = IF by = "remove" THEN local ELSE [local EXCEPT ![thing] = made'],
           UNCHANGED <<server, load, reload, bulk, accepted, lost>>
    PROVE  ChatsIInv'
<1> DEFINE n == Chats!Request(made + 1, thing, by)
<1>1. /\ made \in Nat /\ made + 1 \in Nat /\ made + 1 >= made /\ server \in Chats!Values /\ local \in Chats!Values
      /\ edits \subseteq ChatsRequestSet /\ load \in ChatsLoadSet
      /\ reload \in BOOLEAN /\ lost \in BOOLEAN
  BY DEF ChatsIInv, ChatsTypesInv, ChatsLoadSet
<1>2. /\ n.edit = made + 1 /\ n.thing = thing /\ n.by = by /\ n.says = "nothing"
      /\ n \in ChatsRequestSet /\ edits' = edits \cup {n}
  BY <1>1 DEF Chats!Request, ChatsRequestSet, Chats!Ways, Chats!Says
<1> HIDE DEF n
<1>3. made + 1 \notin Chats!Edits /\ made + 1 \in Chats!Edits' /\ made + 1 \in 0..made'
  BY <1>1 DEF Chats!Edits
<1>4. /\ Chats!Edits \subseteq Chats!Edits' /\ Chats!Values \subseteq Chats!Values' /\ ChatsLoadSet \subseteq ChatsLoadSet'
      /\ order \in 0..made' /\ accepted \subseteq Chats!Edits'
      /\ bulk \in [all : SUBSET Chats!Edits', ids : SUBSET Chats!Edits', failed : BOOLEAN,
                   finished : BOOLEAN, continued : {0, 1}]
  BY <1>1, ChatsTypesGrow DEF ChatsIInv
<1>5. /\ \A r \in edits : r.edit \in Chats!Edits /\ r.edit # made + 1 /\ r.edit <= made
      /\ made + 1 \notin accepted /\ made + 1 \notin bulk.all /\ made + 1 \notin bulk.ids
      /\ order <= made /\ order \in Nat
  <2>1. \A r \in edits : r.edit \in Chats!Edits
    BY DEF ChatsIInv, ChatsNumbersInv
  <2>2. accepted \subseteq Chats!Edits /\ bulk.all \subseteq Chats!Edits /\ bulk.ids \subseteq Chats!Edits /\ order \in 0..made
    BY DEF ChatsIInv, ChatsTypesInv
  <2> QED
    BY <1>1, <1>3, <2>1, <2>2 DEF Chats!Edits
<1>6. ChatsTypesInv'
  <2>1. local' \in Chats!Values'
    <3>1. local \in Chats!Values'
      BY <1>1, <1>4
    <3>2. CASE by # "remove"
      <4>1. local' = [local EXCEPT ![thing] = made + 1]
        BY <3>2
      <4> QED
        BY <1>3, <3>1, <4>1 DEF Chats!Values
    <3> QED
      BY <3>1, <3>2
  <2>2. order' \in 0..made'
    BY <1>3, <1>4
  <2>3. server' \in Chats!Values' /\ load' \in ChatsLoadSet' /\ edits' \subseteq ChatsRequestSet
    BY <1>1, <1>2, <1>4
  <2>4. bulk' \in [all : SUBSET Chats!Edits', ids : SUBSET Chats!Edits', failed : BOOLEAN,
                   finished : BOOLEAN, continued : {0, 1}]
    BY <1>4
  <2> QED
    BY <1>1, <1>4, <2>1, <2>2, <2>3, <2>4 DEF ChatsTypesInv, ChatsLoadSet
<1>7. ChatsNumbersInv'
  <2>1. ASSUME NEW r \in edits, NEW q \in edits'
        PROVE  r.edit \in Chats!Edits' /\ (q.edit = r.edit => q = r)
    BY <1>2, <1>4, <1>5, <2>1 DEF ChatsIInv, ChatsNumbersInv
  <2>2. ASSUME NEW q \in edits' PROVE n.edit \in Chats!Edits' /\ (q.edit = n.edit => q = n)
    BY <1>2, <1>3, <1>5, <2>2
  <2>3. (n.by = "order" <=> n.thing = OrderId) /\ (n.says = "true" <=> n.edit \in accepted)
    BY <1>2, <1>5
  <2> QED
    BY <1>2, <2>1, <2>2, <2>3 DEF ChatsIInv, ChatsNumbersInv
<1>8. ChatsOrderInv'
  <2>1. CASE by = "order"
    <3>1. order' = made + 1 /\ order' # 0
      BY <1>1, <2>1
    <3>2. \A r \in edits : r.edit <= order' /\ r.edit < n.edit
      BY <1>1, <1>2, <1>5, <3>1 DEF Chats!Edits
    <3>3. ASSUME NEW r \in edits, NEW q \in edits', r.by = "order", q.by = "order",
                 q.edit < r.edit, r.says # "nothing"
          PROVE  q.says # "nothing"
      <4>1. q \in edits
        BY <1>1, <1>2, <1>5, <3>3 DEF Chats!Edits
      <4> QED
        BY <3>3, <4>1 DEF ChatsIInv, ChatsOrderInv
    <3> QED
      BY <1>1, <1>2, <2>1, <3>1, <3>2, <3>3 DEF ChatsOrderInv
  <2>2. CASE by # "order"
    <3>1. order' = order
      BY <2>2
    <3>2. \A r \in edits' : r.by = "order" => r \in edits
      BY <1>2, <2>2
    <3>3. edits \subseteq edits'
      BY <1>2
    <3> QED
      BY <3>1, <3>2, <3>3 DEF ChatsIInv, ChatsOrderInv
  <2> QED
    BY <2>1, <2>2
<1>9. ChatsBulkInv'
  <2>1. (n.by = "bulk" <=> n.edit \in bulk.ids) /\ (n.edit \in bulk.all => n.by = "bulk")
    BY <1>2, <1>5
  <2> QED
    BY <1>2, <2>1 DEF ChatsIInv, ChatsBulkInv
<1>10. ChatsCopyInv'
  <2>1. ASSUME NEW t \in Chats!Things, ChatsAwaited(t) PROVE ChatsAwaited(t)'
    <3>1. CASE bulk.ids # {}
      BY <3>1 DEF ChatsAwaited
    <3>2. CASE bulk.ids = {}
      <4>1. PICK r \in edits : /\ r.thing = t
                               /\ \/ r.by = "edit"
                                  \/ r.by = "order" /\ r.edit = order
                                  \/ r.by = "remove" /\ r.says = "true" /\ server[t] = r.edit
        BY <2>1, <3>2 DEF ChatsAwaited
      <4>2. CASE r.by = "order" /\ by = "order"
        <5>1. t = n.thing /\ n.by = "order" /\ n.edit = order' /\ n \in edits'
          BY <1>2, <4>1, <4>2 DEF ChatsIInv, ChatsNumbersInv
        <5> QED
          BY <5>1 DEF ChatsAwaited
      <4>3. CASE ~(r.by = "order" /\ by = "order")
        BY <1>2, <4>1, <4>3 DEF ChatsAwaited
      <4> QED
        BY <4>2, <4>3
    <3> QED
      BY <3>1, <3>2
  <2>2. ASSUME by # "remove" PROVE ChatsAwaited(thing)'
    BY <1>2, <2>2 DEF ChatsAwaited
  <2>3. ASSUME NEW t \in Chats!Things, t # thing \/ by = "remove" PROVE local'[t] = local[t]
    BY <1>1, <2>3 DEF Chats!Values
  <2>4. ASSUME ~lost, load = Chats!NoLoad, NEW t \in Chats!Things PROVE local'[t] = server[t] \/ ChatsAwaited(t)'
    BY <2>1, <2>2, <2>3, <2>4 DEF ChatsIInv, ChatsCopyInv
  <2>5. ASSUME ~lost, load.state = "read", ~reload, NEW t \in Chats!Things
        PROVE  load.value[t] = server[t] \/ ChatsAwaited(t)'
    BY <2>1, <2>5 DEF ChatsIInv, ChatsCopyInv
  <2> QED
    BY <2>4, <2>5 DEF ChatsCopyInv
<1> QED
  BY <1>6, <1>7, <1>8, <1>9, <1>10 DEF ChatsIInv

LEMMA ChatsEditsKeep ==
    ASSUME ChatsAssumed, ChatsIInv, Chats!SaveOrder \/ (\E f \in FolderIds : Chats!EditFilter(f) \/ Chats!Remove(f))
    PROVE  ChatsIInv'
<1>1. ASSUME NEW f \in FolderIds, Chats!EditFilter(f) PROVE ChatsIInv'
  <2>1. f \in Chats!Things /\ f # OrderId
    BY DEF Chats!Things, ChatsAssumed
  <2> QED
    BY <1>1, <2>1, ChatsEditStep DEF Chats!EditFilter
<1>2. ASSUME NEW f \in FolderIds, Chats!Remove(f) PROVE ChatsIInv'
  <2>1. f \in Chats!Things /\ f # OrderId
    BY DEF Chats!Things, ChatsAssumed
  <2> QED
    BY <1>2, <2>1, ChatsEditStep DEF Chats!Remove
<1>3. CASE Chats!SaveOrder
  <2>1. OrderId \in Chats!Things
    BY DEF Chats!Things
  <2> QED
    BY <1>3, <2>1, ChatsEditStep DEF Chats!SaveOrder
<1> QED
  BY <1>1, <1>2, <1>3

----------------------------------------------------------------------------
(* The bulk save *)

ChatsOneToOne(n) == \A f, g \in FolderIds : n[f] = n[g] => f = g

ChatsOnto(n, S) == \A e \in S : \E f \in FolderIds : n[f] = e

(* There is a number for every folder, and a folder for every number.      *)
ChatsNumbers(S) == /\ \E n \in [FolderIds -> S] : ChatsOneToOne(n)
                   /\ \A n \in [FolderIds -> S] : ChatsOneToOne(n) => ChatsOnto(n, S)

LEMMA ChatsNumbering ==
    ASSUME ChatsAssumed, NEW m \in Nat, NEW last, last = m + Cardinality(FolderIds)
    PROVE  last \in Nat /\ last >= m /\ ChatsNumbers(m + 1 .. last)
<1>1. IsFiniteSet(FolderIds) /\ Cardinality(FolderIds) \in Nat
  BY FS_CardinalityType DEF ChatsAssumed
<1>2. last \in Nat /\ last >= m
  BY <1>1
<1>3. IsFiniteSet(m + 1 .. last) /\ Cardinality(m + 1 .. last) = Cardinality(FolderIds)
  <2>1. m + 1 \in Int /\ last \in Int
    BY <1>2
  <2>2. IsFiniteSet(m + 1 .. last)
        /\ Cardinality(m + 1 .. last) = IF m + 1 > last THEN 0 ELSE last - (m + 1) + 1
    BY <2>1, FS_Interval
  <2> QED
    BY <1>1, <2>2
<1>4. PICK n : n \in Bijection(FolderIds, m + 1 .. last)
  <2>1. ExistsBijection(FolderIds, m + 1 .. last)
    BY <1>1, <1>3, FS_SameCardinalityBij
  <2> QED
    BY <2>1 DEF ExistsBijection
<1>5. n \in [FolderIds -> m + 1 .. last] /\ ChatsOneToOne(n)
  BY <1>4, Fun_BijectionProperties DEF ChatsOneToOne
<1>6. ASSUME NEW k \in [FolderIds -> m + 1 .. last], ChatsOneToOne(k) PROVE ChatsOnto(k, m + 1 .. last)
  <2>1. k \in Injection(FolderIds, m + 1 .. last)
    BY <1>6 DEF Injection, IsInjective, ChatsOneToOne
  <2>2. k \in Surjection(FolderIds, m + 1 .. last)
    BY <1>1, <1>3, <2>1, FS_Injection
  <2> QED
    BY <2>2 DEF Surjection, ChatsOnto
<1> QED
  BY <1>2, <1>5, <1>6 DEF ChatsNumbers

(* The module counts with the same operator as the theorems on finite sets. *)
LEMMA ChatsCounting == \A S : Chats!Cardinality(S) = Cardinality(S)
  BY DEF Chats!Cardinality, Cardinality

LEMMA ChatsSaveAllKeeps == ASSUME ChatsAssumed, ChatsIInv, Chats!SaveAll PROVE ChatsIInv'
<1> DEFINE last == made + Chats!Cardinality(FolderIds)
           number == CHOOSE n \in [FolderIds -> made + 1 .. last] :
                        \A f, g \in FolderIds : n[f] = n[g] => f = g
           New == {Chats!Request(number[f], f, "bulk") : f \in FolderIds}
<1>1. /\ bulk = Chats!NoBulk /\ last <= MaxEdits
      /\ local' = [t \in Chats!Things |-> IF t \in FolderIds THEN number[t] ELSE local[t]]
      /\ edits' = edits \cup New
      /\ bulk' = [Chats!NoBulk EXCEPT !.all = made + 1 .. last, !.ids = made + 1 .. last]
      /\ made' = last
      /\ UNCHANGED <<server, load, reload, order, accepted, forced, lost>>
  BY DEF Chats!SaveAll
<1>2. /\ made \in Nat /\ server \in Chats!Values /\ local \in Chats!Values /\ edits \subseteq ChatsRequestSet
      /\ load \in ChatsLoadSet /\ reload \in BOOLEAN /\ lost \in BOOLEAN
  BY DEF ChatsIInv, ChatsTypesInv, ChatsLoadSet
<1>3. /\ last \in Nat /\ last >= made
      /\ number \in [FolderIds -> made + 1 .. last]
      /\ \A f, g \in FolderIds : number[f] = number[g] => f = g
      /\ \A e \in made + 1 .. last : \E f \in FolderIds : number[f] = e
  <2>3. last = made + Cardinality(FolderIds)
    BY ChatsCounting
  <2> HIDE DEF last, number
  <2>1. last \in Nat /\ last >= made /\ ChatsNumbers(made + 1 .. last)
    BY <1>2, <2>3, ChatsNumbering
  <2>2. number \in [FolderIds -> made + 1 .. last] /\ ChatsOneToOne(number)
    BY <2>1 DEF number, ChatsNumbers, ChatsOneToOne
  <2> QED
    BY <2>1, <2>2 DEF ChatsNumbers, ChatsOneToOne, ChatsOnto
<1> HIDE DEF number, last
<1>4. \A n \in New : \E f \in FolderIds : /\ n.edit = number[f] /\ n.thing = f /\ n.by = "bulk"
                                          /\ n.says = "nothing" /\ n = Chats!Request(number[f], f, "bulk")
  BY DEF Chats!Request
<1>5. \A f \in FolderIds : /\ Chats!Request(number[f], f, "bulk") \in New
                           /\ Chats!Request(number[f], f, "bulk").edit = number[f]
  BY DEF Chats!Request
<1>6. New \subseteq ChatsRequestSet
  <2>1. ASSUME NEW f \in FolderIds PROVE Chats!Request(number[f], f, "bulk") \in ChatsRequestSet
    <3>1. number[f] \in Nat /\ f \in Chats!Things
      BY <1>2, <1>3 DEF Chats!Things
    <3> QED
      BY <3>1 DEF Chats!Request, ChatsRequestSet, Chats!Ways, Chats!Says
  <2> QED
    BY <2>1
<1> HIDE DEF New
<1>7. /\ Chats!Edits \subseteq Chats!Edits' /\ Chats!Values \subseteq Chats!Values' /\ ChatsLoadSet \subseteq ChatsLoadSet'
      /\ order \in 0..made' /\ accepted \subseteq Chats!Edits' /\ made' \in Nat
  BY <1>1, <1>2, <1>3, ChatsTypesGrow DEF ChatsIInv
<1>8. made + 1 .. last \subseteq Chats!Edits' /\ \A e \in made + 1 .. last : e \notin Chats!Edits /\ e \in 0..made'
  BY <1>1, <1>2, <1>3 DEF Chats!Edits
<1>9. /\ bulk.all = {} /\ bulk.ids = {} /\ bulk'.all = made + 1 .. last /\ bulk'.ids = made + 1 .. last
      /\ bulk'.failed = FALSE /\ bulk'.finished = FALSE /\ bulk'.continued = 0
  BY <1>1 DEF Chats!NoBulk
<1>10. \A r \in edits : r.edit \in Chats!Edits /\ r.by # "bulk"
  BY <1>9 DEF ChatsIInv, ChatsNumbersInv, ChatsBulkInv
<1>11. accepted \subseteq Chats!Edits
  BY DEF ChatsIInv, ChatsTypesInv
<1>12. \A n \in New : n.edit \in made + 1 .. last /\ n.thing # OrderId /\ n.edit \notin accepted
  BY <1>3, <1>4, <1>8, <1>11 DEF ChatsAssumed
<1>13. ChatsTypesInv'
  <2>1. local' \in Chats!Values'
    BY <1>1, <1>2, <1>3, <1>7, <1>8 DEF Chats!Values
  <2>2. bulk' \in [all : SUBSET Chats!Edits', ids : SUBSET Chats!Edits', failed : BOOLEAN,
                   finished : BOOLEAN, continued : {0, 1}]
    <3>1. bulk' = [all |-> made + 1 .. last, ids |-> made + 1 .. last, failed |-> FALSE,
                   finished |-> FALSE, continued |-> 0]
      BY <1>1 DEF Chats!NoBulk
    <3> QED
      BY <1>8, <3>1
  <2>3. /\ server' \in Chats!Values' /\ load' \in ChatsLoadSet' /\ edits' \subseteq ChatsRequestSet
        /\ order' \in 0..made' /\ accepted' \subseteq Chats!Edits'
    BY <1>1, <1>2, <1>6, <1>7
  <2> QED
    BY <1>1, <1>2, <1>7, <2>1, <2>2, <2>3 DEF ChatsTypesInv, ChatsLoadSet
<1>14. ChatsNumbersInv'
  <2>1. ASSUME NEW r \in edits, NEW q \in edits'
        PROVE  r.edit \in Chats!Edits' /\ (q.edit = r.edit => q = r)
    BY <1>1, <1>7, <1>8, <1>10, <1>12, <2>1 DEF ChatsIInv, ChatsNumbersInv
  <2>2. ASSUME NEW n \in New, NEW q \in edits' PROVE n.edit \in Chats!Edits' /\ (q.edit = n.edit => q = n)
    <3>1. n.edit \in Chats!Edits'
      BY <1>8, <1>12
    <3>2. CASE q \in edits
      BY <1>8, <1>10, <1>12, <3>1, <3>2
    <3>3. CASE q \in New
      BY <1>3, <1>4, <3>1, <3>3
    <3> QED
      BY <1>1, <3>2, <3>3
  <2>3. \A n \in New : n.by = "bulk" /\ n.thing # OrderId /\ n.says # "true" /\ n.edit \notin accepted
    BY <1>4, <1>12
  <2> QED
    BY <1>1, <2>1, <2>2, <2>3 DEF ChatsIInv, ChatsNumbersInv
<1>15. ChatsOrderInv'
  <2>1. \A n \in New : n.by # "order"
    BY <1>4
  <2>2. edits \subseteq edits' /\ order' = order /\ \A r \in edits' : r.by = "order" => r \in edits
    BY <1>1, <2>1
  <2> QED
    BY <2>2 DEF ChatsIInv, ChatsOrderInv
<1>16. ChatsBulkInv'
  <2>1. bulk'.ids \subseteq bulk'.all /\ bulk'.all \ bulk'.ids = {}
    BY <1>9
  <2>2. ASSUME NEW r \in edits'
        PROVE  /\ r.by = "bulk" <=> r.edit \in bulk'.ids
               /\ r.edit \in bulk'.all => r.by = "bulk"
    BY <1>1, <1>4, <1>8, <1>9, <1>10, <1>12, <2>2
  <2>3. \A e \in bulk'.ids : \E r \in edits' : r.edit = e
    BY <1>1, <1>3, <1>5, <1>9
  <2>4. bulk' # Chats!NoBulk => bulk'.all # {} /\ (bulk'.finished <=> bulk'.ids = {})
    <3>1. ASSUME bulk'.ids = {} PROVE bulk' = Chats!NoBulk
      <4>1. made + 1 .. last = {}
        BY <1>9, <3>1
      <4> QED
        BY <1>1, <4>1 DEF Chats!NoBulk
    <3> QED
      BY <1>9, <3>1
  <2> QED
    BY <1>9, <2>1, <2>2, <2>3, <2>4 DEF ChatsBulkInv
<1>17. ChatsCopyInv'
  <2>1. CASE bulk'.ids # {}
    BY <2>1 DEF ChatsCopyInv, ChatsAwaited
  <2>2. CASE bulk'.ids = {}
    <3>1. FolderIds = {}
      BY <1>3, <1>9, <2>2
    <3>2. local' = local
      BY <1>1, <1>2, <3>1 DEF Chats!Values
    <3>3. edits' = edits
      BY <1>1, <3>1 DEF New
    <3>4. \A t \in Chats!Things : ChatsAwaited(t) => ChatsAwaited(t)'
      BY <1>1, <1>9, <3>3 DEF ChatsAwaited
    <3> QED
      BY <1>1, <3>2, <3>4 DEF ChatsIInv, ChatsCopyInv
  <2> QED
    BY <2>1, <2>2
<1> QED
  BY <1>13, <1>14, <1>15, <1>16, <1>17 DEF ChatsIInv

----------------------------------------------------------------------------
(* The server handles a request *)

LEMMA ChatsHandleKeeps == ASSUME ChatsIInv, NEW r \in edits, Chats!Handle(r) PROVE ChatsIInv'
<1>1. PICK s \in {"true", "false"} :
          /\ edits' = (edits \ {r}) \cup {[r EXCEPT !.says = s]}
          /\ server' = IF s = "true" THEN [server EXCEPT ![r.thing] = r.edit] ELSE server
          /\ accepted' = IF s = "true" THEN accepted \cup {r.edit} ELSE accepted
  BY DEF Chats!Handle
<1> DEFINE h == [r EXCEPT !.says = s]
<1>2. /\ UNCHANGED <<local, made, load, reload, order, bulk, forced, lost>>
      /\ r.says = "nothing"
      /\ r.by = "order" => \A q \in edits : q.thing = OrderId /\ q.says = "nothing" => q.edit >= r.edit
  BY DEF Chats!Handle, Chats!Outstanding
<1>3. /\ r \in ChatsRequestSet /\ edits \subseteq ChatsRequestSet /\ server \in Chats!Values /\ made \in Nat
      /\ r.edit \in Chats!Edits /\ r.edit \in 0..made /\ accepted \subseteq Chats!Edits
  BY DEF ChatsIInv, ChatsTypesInv, ChatsNumbersInv, Chats!Edits
<1>4. /\ h \in ChatsRequestSet /\ h.edit = r.edit /\ h.thing = r.thing /\ h.by = r.by /\ h.says = s
      /\ edits' = (edits \ {r}) \cup {h} /\ h \in edits'
  BY <1>1, <1>3 DEF ChatsRequestSet, Chats!Says
<1> HIDE DEF h
<1>5. \A q \in edits' : q = h \/ (q \in edits /\ q # r /\ q.edit # r.edit)
  BY <1>4 DEF ChatsIInv, ChatsNumbersInv
<1>6. Chats!Edits' = Chats!Edits /\ Chats!Values' = Chats!Values
  BY <1>2 DEF Chats!Edits, Chats!Values
<1>7. ChatsTypesInv'
  <2>1. server' \in Chats!Values
    BY <1>1, <1>3 DEF Chats!Values
  <2>2. edits' \subseteq ChatsRequestSet /\ accepted' \subseteq Chats!Edits
    BY <1>1, <1>3, <1>4
  <2> QED
    BY <1>2, <1>6, <2>1, <2>2 DEF ChatsIInv, ChatsTypesInv
<1>8. \A t \in Chats!Things : t # r.thing \/ s # "true" => server'[t] = server[t]
  BY <1>1, <1>3 DEF Chats!Values
<1>9. s = "true" => server'[r.thing] = r.edit
  BY <1>1, <1>3 DEF Chats!Values, ChatsRequestSet
<1>10. ChatsNumbersInv'
  <2>1. ASSUME NEW q \in edits'
        PROVE  /\ q.edit \in Chats!Edits /\ (q.by = "order" <=> q.thing = OrderId)
               /\ (q.says = "true" <=> q.edit \in accepted')
    <3>1. CASE q = h
      BY <1>1, <1>2, <1>3, <1>4, <3>1 DEF ChatsIInv, ChatsNumbersInv
    <3>2. CASE q # h
      BY <1>1, <1>5, <3>2 DEF ChatsIInv, ChatsNumbersInv
    <3> QED
      BY <3>1, <3>2
  <2>2. ASSUME NEW q \in edits', NEW x \in edits', x.edit = q.edit PROVE x = q
    BY <1>4, <1>5, <2>2 DEF ChatsIInv, ChatsNumbersInv
  <2> QED
    BY <1>6, <2>1, <2>2 DEF ChatsNumbersInv
<1>11. ChatsOrderInv'
  <2>1. order # 0 => \E q \in edits' : q.by = "order" /\ q.edit = order
    <3>1. order # 0 => \E q \in edits : q.by = "order" /\ q.edit = order
      BY DEF ChatsIInv, ChatsOrderInv
    <3> QED
      BY <1>4, <3>1
  <2>2. ASSUME NEW q \in edits', q.by = "order"
        PROVE  (q.says = "nothing" => order # 0) /\ (order # 0 => q.edit <= order)
    BY <1>4, <1>5, <2>2 DEF ChatsIInv, ChatsOrderInv
  <2>3. ASSUME NEW q \in edits', q.by = "order", q.says # "nothing",
               NEW x \in edits', x.by = "order", x.edit < q.edit
        PROVE  x.says # "nothing"
    <3>1. CASE x = h
      BY <1>4, <3>1
    <3>2. CASE x # h /\ q # h
      BY <1>5, <2>3, <3>2 DEF ChatsIInv, ChatsOrderInv
    <3>3. CASE x # h /\ q = h
      <4>1. x \in edits /\ x.thing = OrderId /\ r.by = "order" /\ x.edit < r.edit
        BY <1>4, <1>5, <2>3, <3>3 DEF ChatsIInv, ChatsNumbersInv
      <4>2. x.edit \in Nat /\ r.edit \in Nat
        BY <1>3, <4>1 DEF ChatsRequestSet
      <4> QED
        BY <1>2, <4>1, <4>2
    <3> QED
      BY <3>1, <3>2, <3>3
  <2> QED
    BY <1>2, <2>1, <2>2, <2>3 DEF ChatsOrderInv
<1>12. ChatsBulkInv'
  <2>1. ASSUME NEW q \in edits'
        PROVE  (q.by = "bulk" <=> q.edit \in bulk.ids) /\ (q.edit \in bulk.all => q.by = "bulk")
    BY <1>4, <1>5 DEF ChatsIInv, ChatsBulkInv
  <2>2. \A e \in bulk.ids : \E q \in edits' : q.edit = e
    <3>1. \A e \in bulk.ids : \E q \in edits : q.edit = e
      BY DEF ChatsIInv, ChatsBulkInv
    <3> QED
      BY <1>4, <3>1
  <2>3. r.edit \notin bulk.all \ bulk.ids
    BY DEF ChatsIInv, ChatsBulkInv
  <2>4. \A e \in bulk.all \ bulk.ids : e \in accepted' <=> e \in accepted
    BY <1>1, <2>3
  <2> QED
    BY <1>2, <2>1, <2>2, <2>4 DEF ChatsIInv, ChatsBulkInv
<1>13. ChatsCopyInv'
  <2>1. ASSUME NEW t \in Chats!Things, ChatsAwaited(t), t # r.thing \/ s # "true" PROVE ChatsAwaited(t)'
    <3>1. CASE bulk.ids # {}
      BY <1>2, <3>1 DEF ChatsAwaited
    <3>2. CASE bulk.ids = {}
      <4>1. PICK q \in edits : /\ q.thing = t
                               /\ \/ q.by = "edit"
                                  \/ q.by = "order" /\ q.edit = order
                                  \/ q.by = "remove" /\ q.says = "true" /\ server[t] = q.edit
        BY <2>1, <3>2 DEF ChatsAwaited
      <4>2. server'[t] = server[t]
        BY <1>8, <2>1
      <4>3. CASE q = r
        BY <1>2, <1>4, <4>1, <4>3 DEF ChatsAwaited
      <4>4. CASE q # r
        BY <1>2, <1>4, <4>1, <4>2, <4>4 DEF ChatsAwaited
      <4> QED
        BY <4>3, <4>4
    <3> QED
      BY <3>1, <3>2
  <2>2. ASSUME s = "true" PROVE ChatsAwaited(r.thing)'
    <3>1. CASE r.by \in {"edit", "remove"}
      BY <1>4, <1>9, <2>2, <3>1 DEF ChatsAwaited
    <3>2. CASE r.by = "bulk"
      BY <1>2, <3>2 DEF ChatsIInv, ChatsBulkInv, ChatsAwaited
    <3>3. CASE r.by = "order"
      <4>1. PICK q \in edits' : q.by = "order" /\ q.edit = order'
        BY <1>2, <1>11, <3>3 DEF ChatsIInv, ChatsOrderInv
      <4>2. q.thing = OrderId /\ r.thing = OrderId
        BY <1>10, <3>3, <4>1 DEF ChatsIInv, ChatsNumbersInv
      <4> QED
        BY <4>1, <4>2 DEF ChatsAwaited
    <3> QED
      BY <1>3, <3>1, <3>2, <3>3 DEF ChatsRequestSet, Chats!Ways
  <2>3. ASSUME NEW t \in Chats!Things PROVE server'[t] = server[t] \/ ChatsAwaited(t)'
    BY <1>8, <2>2
  <2>4. ASSUME ~lost, load = Chats!NoLoad, NEW t \in Chats!Things PROVE local[t] = server'[t] \/ ChatsAwaited(t)'
    BY <2>1, <2>2, <2>3, <2>4 DEF ChatsIInv, ChatsCopyInv
  <2>5. ASSUME ~lost, load.state = "read", ~reload, NEW t \in Chats!Things
        PROVE  load.value[t] = server'[t] \/ ChatsAwaited(t)'
    BY <2>1, <2>2, <2>3, <2>5 DEF ChatsIInv, ChatsCopyInv
  <2> QED
    BY <1>2, <2>4, <2>5 DEF ChatsCopyInv
<1> QED
  BY <1>7, <1>10, <1>11, <1>12, <1>13 DEF ChatsIInv

----------------------------------------------------------------------------
(* The answers *)

(* What holds whatever an answer does: nothing else follows it.            *)
LEMMA ChatsAnsweredStep ==
    ASSUME ChatsIInv, NEW r \in edits, edits' = edits \ {r},
           UNCHANGED <<server, made, accepted>>,
           local' \in Chats!Values, load' \in ChatsLoadSet, reload' \in BOOLEAN, lost' \in BOOLEAN,
           order' \in {0, order}, bulk' \in [all : SUBSET Chats!Edits, ids : SUBSET Chats!Edits, failed : BOOLEAN,
                                             finished : BOOLEAN, continued : {0, 1}]
    PROVE  ChatsTypesInv' /\ ChatsNumbersInv'
<1>1. Chats!Edits' = Chats!Edits /\ Chats!Values' = Chats!Values /\ 0 \in 0..made
  BY DEF Chats!Edits, Chats!Values, ChatsIInv, ChatsTypesInv
<1>2. edits' \subseteq edits
  OBVIOUS
<1>3. ChatsTypesInv'
  BY <1>1, <1>2 DEF ChatsIInv, ChatsTypesInv, ChatsLoadSet
<1>4. ChatsNumbersInv'
  BY <1>1, <1>2 DEF ChatsIInv, ChatsNumbersInv
<1> QED
  BY <1>3, <1>4

(* An answer to another request leaves the bulk save as it is.             *)
LEMMA ChatsBulkStays ==
    ASSUME ChatsIInv, NEW r \in edits, r.by # "bulk", edits' = edits \ {r},
           UNCHANGED <<accepted, bulk>>
    PROVE  ChatsBulkInv'
<1>1. \A e \in bulk.ids : \E q \in edits' : q.edit = e
  BY DEF ChatsIInv, ChatsBulkInv
<1> QED
  BY <1>1 DEF ChatsIInv, ChatsBulkInv

(* An answer to another request leaves the latest order under way.         *)
LEMMA ChatsOrderStays ==
    ASSUME ChatsIInv, NEW r \in edits, r.by # "order" \/ r.edit # order, edits' = edits \ {r},
           order' = order
    PROVE  ChatsOrderInv'
<1>1. order # 0 => \E q \in edits' : q.by = "order" /\ q.edit = order
  BY DEF ChatsIInv, ChatsOrderInv
<1> QED
  BY <1>1 DEF ChatsIInv, ChatsOrderInv

LEMMA ChatsConstituents ==
    ASSUME ChatsIInv
    PROVE  /\ local \in Chats!Values /\ load \in ChatsLoadSet /\ reload \in BOOLEAN /\ lost \in BOOLEAN
           /\ order \in Nat /\ made \in Nat
           /\ bulk \in [all : SUBSET Chats!Edits, ids : SUBSET Chats!Edits, failed : BOOLEAN,
                        finished : BOOLEAN, continued : {0, 1}]
BY DEF ChatsIInv, ChatsTypesInv, ChatsLoadSet

LEMMA ChatsEditAnsweredKeeps == ASSUME ChatsIInv, NEW r \in edits, Chats!EditAnswered(r) PROVE ChatsIInv'
<1>1. /\ r.by = "edit" /\ edits' = edits \ {r} /\ Chats!Reload
      /\ UNCHANGED <<server, local, made, order, bulk, accepted, forced>>
  BY DEF Chats!EditAnswered, Chats!Answered
<1>2. load' \in ChatsLoadSet /\ reload' \in BOOLEAN /\ lost' \in BOOLEAN /\ ChatsCopyInv'
  <2>1. ChatsLoadSet' = ChatsLoadSet
    BY <1>1 DEF ChatsLoadSet, Chats!Values
  <2> QED
    BY <1>1, <2>1, ChatsLoadTypes DEF ChatsIInv
<1>3. ChatsOrderInv' /\ ChatsBulkInv'
  BY <1>1, ChatsOrderStays, ChatsBulkStays
<1> QED
  BY <1>1, <1>2, <1>3, ChatsConstituents, ChatsAnsweredStep DEF ChatsIInv

LEMMA ChatsOrderAnsweredKeeps == ASSUME ChatsIInv, NEW r \in edits, Chats!OrderAnswered(r) PROVE ChatsIInv'
<1>1. /\ r.by = "order" /\ r.says # "nothing" /\ edits' = edits \ {r}
      /\ UNCHANGED <<server, local, made, bulk, accepted, forced>>
  BY DEF Chats!OrderAnswered, Chats!Answered
<1>2. ChatsBulkInv'
  BY <1>1, ChatsBulkStays
<1>3. CASE r.edit = order
  <2>1. order' = 0 /\ Chats!Reload
    BY <1>3 DEF Chats!OrderAnswered
  <2>2. load' \in ChatsLoadSet /\ reload' \in BOOLEAN /\ lost' \in BOOLEAN /\ ChatsCopyInv'
    BY <2>1, ChatsLoadTypes DEF ChatsIInv
  <2>3. ChatsOrderInv'
    <3>1. ASSUME NEW q \in edits', q.by = "order" PROVE q.says # "nothing"
      <4>1. q \in edits /\ q # r /\ q.edit # r.edit /\ q.edit \in Nat /\ r.edit \in Nat
        BY <1>1, <3>1 DEF ChatsIInv, ChatsNumbersInv, ChatsTypesInv, ChatsRequestSet
      <4>2. r.edit # 0
        BY <4>1 DEF ChatsIInv, ChatsNumbersInv, Chats!Edits
      <4>3. q.edit < r.edit
        BY <1>3, <3>1, <4>1, <4>2 DEF ChatsIInv, ChatsOrderInv
      <4> QED
        BY <1>1, <3>1, <4>1, <4>3 DEF ChatsIInv, ChatsOrderInv
    <3> QED
      BY <2>1, <3>1 DEF ChatsOrderInv
  <2> QED
    BY <1>1, <1>2, <2>1, <2>2, <2>3, ChatsConstituents, ChatsAnsweredStep DEF ChatsIInv
<1>4. CASE r.edit # order
  <2>1. UNCHANGED <<order, load, reload, lost>>
    BY <1>4 DEF Chats!OrderAnswered
  <2>2. ChatsOrderInv'
    BY <1>1, <1>4, <2>1, ChatsOrderStays
  <2>3. ChatsCopyInv'
    <3>1. \A t \in Chats!Things : ChatsAwaited(t) => ChatsAwaited(t)'
      BY <1>1, <1>4, <2>1 DEF ChatsAwaited
    <3> QED
      BY <1>1, <2>1, <3>1 DEF ChatsIInv, ChatsCopyInv
  <2> QED
    BY <1>1, <1>2, <2>1, <2>2, <2>3, ChatsConstituents, ChatsAnsweredStep DEF ChatsIInv
<1> QED
  BY <1>3, <1>4

(* The copy a removal's answer leaves: the server's, or a later change of  *)
(* the folder is still to be answered, or a load is to come.               *)
LEMMA ChatsRemoveAnsweredKeeps == ASSUME ChatsIInv, NEW r \in edits, Chats!RemoveAnswered(r) PROVE ChatsIInv'
<1>1. /\ r.by = "remove" /\ edits' = edits \ {r}
      /\ UNCHANGED <<server, made, load, reload, order, bulk, accepted, forced>>
  BY DEF Chats!RemoveAnswered, Chats!Answered
<1>2. ChatsOrderInv' /\ ChatsBulkInv'
  BY <1>1, ChatsOrderStays, ChatsBulkStays
<1>3. ASSUME NEW t \in Chats!Things, ChatsAwaited(t), t # r.thing \/ r.says # "true" PROVE ChatsAwaited(t)'
  BY <1>1, <1>3 DEF ChatsAwaited
<1>4. CASE r.says = "true"
  <2>1. /\ local' = [local EXCEPT ![r.thing] = r.edit]
        /\ lost' = (lost \/ load.state = "read" \/ (load = Chats!NoLoad /\ Chats!Overtaken(r.thing)))
    BY <1>4 DEF Chats!RemoveAnswered
  <2>2. r.edit \in 0..made /\ r.thing \in Chats!Things /\ r.thing # OrderId
    BY <1>1 DEF ChatsIInv, ChatsNumbersInv, ChatsTypesInv, ChatsRequestSet, Chats!Edits
  <2>3. local' \in Chats!Values /\ lost' \in BOOLEAN
    BY <2>1, <2>2, ChatsConstituents DEF Chats!Values
  <2>4. local'[r.thing] = r.edit /\ \A t \in Chats!Things : t # r.thing => local'[t] = local[t]
    BY <2>1, <2>2, ChatsConstituents DEF Chats!Values
  <2>5. ASSUME ~Chats!Overtaken(r.thing) PROVE server[r.thing] = r.edit \/ ChatsAwaited(r.thing)'
    <3>1. PICK q \in edits : q.thing = r.thing /\ q.says = "true" /\ q.edit = server[r.thing]
      BY <2>5 DEF Chats!Overtaken, Chats!Outstanding
    <3>2. CASE q.edit = r.edit
      BY <3>1, <3>2
    <3>3. CASE q.edit # r.edit
      <4>1. q \in edits'
        BY <1>1, <3>3
      <4>2. q.by \in {"edit", "remove", "bulk"}
        BY <2>2, <3>1 DEF ChatsIInv, ChatsNumbersInv, ChatsTypesInv, ChatsRequestSet, Chats!Ways
      <4>3. CASE q.by = "bulk"
        BY <1>1, <4>3 DEF ChatsIInv, ChatsBulkInv, ChatsAwaited
      <4>4. CASE q.by \in {"edit", "remove"}
        BY <1>1, <3>1, <4>1, <4>4 DEF ChatsAwaited
      <4> QED
        BY <4>2, <4>3, <4>4
    <3> QED
      BY <3>2, <3>3
  <2>6. ChatsCopyInv'
    <3>1. CASE ~lost' /\ load = Chats!NoLoad
      <4>1. load.state # "read" /\ ~lost /\ ~Chats!Overtaken(r.thing)
        BY <2>1, <3>1 DEF Chats!NoLoad
      <4>2. \A t \in Chats!Things : local'[t] = server[t] \/ ChatsAwaited(t)'
        BY <1>3, <2>4, <2>5, <3>1, <4>1 DEF ChatsIInv, ChatsCopyInv
      <4> QED
        BY <1>1, <4>1, <4>2 DEF ChatsCopyInv
    <3>2. CASE ~lost' /\ load # Chats!NoLoad
      BY <1>1, <2>1, <3>2 DEF ChatsCopyInv
    <3>3. CASE lost'
      BY <3>3 DEF ChatsCopyInv
    <3> QED
      BY <3>1, <3>2, <3>3
  <2> QED
    BY <1>1, <1>2, <2>3, <2>6, ChatsConstituents, ChatsAnsweredStep DEF ChatsIInv
<1>5. CASE r.says # "true"
  <2>1. UNCHANGED <<local, lost>>
    BY <1>5 DEF Chats!RemoveAnswered
  <2>2. ChatsCopyInv'
    BY <1>1, <1>3, <1>5, <2>1 DEF ChatsIInv, ChatsCopyInv
  <2> QED
    BY <1>1, <1>2, <2>1, <2>2, ChatsConstituents, ChatsAnsweredStep DEF ChatsIInv
<1> QED
  BY <1>4, <1>5

LEMMA ChatsBulkAnsweredKeeps == ASSUME ChatsIInv, NEW r \in edits, Chats!BulkAnswered(r) PROVE ChatsIInv'
<1> DEFINE left   == bulk.ids \ {r.edit}
           failed == bulk.failed \/ r.says = "false"
<1>1. /\ r.by = "bulk" /\ r.says # "nothing" /\ edits' = edits \ {r}
      /\ UNCHANGED <<server, local, made, order, accepted, forced>>
  BY DEF Chats!BulkAnswered, Chats!Answered
<1>2. /\ r.edit \in bulk.ids /\ bulk # Chats!NoBulk /\ bulk.finished = FALSE /\ bulk.all # {}
      /\ bulk.all \ left = (bulk.all \ bulk.ids) \cup {r.edit}
  <2>1. r.edit \in bulk.ids
    BY <1>1 DEF ChatsIInv, ChatsBulkInv
  <2>2. bulk # Chats!NoBulk
    BY <2>1 DEF Chats!NoBulk
  <2>3. bulk.finished \in BOOLEAN /\ ~bulk.finished
    BY <2>1, <2>2, ChatsConstituents DEF ChatsIInv, ChatsBulkInv
  <2> QED
    BY <2>1, <2>2, <2>3 DEF ChatsIInv, ChatsBulkInv
<1>3. ChatsOrderInv'
  BY <1>1, ChatsOrderStays
<1>4. failed \in BOOLEAN /\ (failed <=> \E e \in bulk.all \ left : e \notin accepted)
  <2>1. r.says = "false" <=> r.edit \notin accepted
    BY <1>1 DEF ChatsIInv, ChatsNumbersInv, ChatsTypesInv, ChatsRequestSet, Chats!Says
  <2> QED
    BY <1>2, <2>1 DEF ChatsIInv, ChatsBulkInv
<1>5. /\ left \subseteq bulk.all
      /\ \A q \in edits' : (q.by = "bulk" <=> q.edit \in left) /\ (q.edit \in bulk.all => q.by = "bulk")
      /\ \A e \in left : \E q \in edits' : q.edit = e
  BY <1>1 DEF ChatsIInv, ChatsBulkInv, ChatsNumbersInv
<1>6. left \subseteq Chats!Edits /\ bulk.continued = 0
  BY <1>2, ChatsConstituents DEF ChatsIInv, ChatsBulkInv
<1>7. CASE left # {}
  <2>1. bulk' = [bulk EXCEPT !.ids = left, !.failed = failed] /\ UNCHANGED <<load, reload, lost>>
    BY <1>7 DEF Chats!BulkAnswered
  <2> HIDE DEF left, failed
  <2>2. /\ bulk'.all = bulk.all /\ bulk'.ids = left /\ bulk'.continued = bulk.continued
        /\ bulk'.finished = bulk.finished
        /\ bulk' \in [all : SUBSET Chats!Edits, ids : SUBSET Chats!Edits, failed : BOOLEAN,
                      finished : BOOLEAN, continued : {0, 1}]
    BY <1>4, <1>6, <2>1, ChatsConstituents
  <2>3. bulk'.failed = failed
    BY <1>4, <2>1, ChatsConstituents
  <2>4. ChatsBulkInv'
    BY <1>1, <1>2, <1>4, <1>5, <1>6, <1>7, <2>2, <2>3 DEF ChatsBulkInv
  <2>5. ChatsCopyInv'
    BY <1>7, <2>2 DEF ChatsCopyInv, ChatsAwaited
  <2> QED
    BY <1>1, <1>3, <2>1, <2>2, <2>4, <2>5, ChatsConstituents, ChatsAnsweredStep DEF ChatsIInv
<1>8. CASE left = {}
  <2>1. bulk' = [bulk EXCEPT !.ids = left, !.failed = failed, !.finished = TRUE,
                             !.continued = IF failed THEN @ ELSE @ + 1] /\ Chats!Reload
    BY <1>2, <1>8 DEF Chats!BulkAnswered
  <2> HIDE DEF left, failed
  <2>2. (IF failed THEN bulk.continued ELSE bulk.continued + 1) = IF failed THEN 0 ELSE 1
    BY <1>6
  <2>3. bulk' = [bulk EXCEPT !.ids = left, !.failed = failed, !.finished = TRUE,
                             !.continued = IF failed THEN 0 ELSE 1]
    BY <2>1, <2>2
  <2>4. /\ bulk'.all = bulk.all /\ bulk'.ids = left /\ bulk'.continued = IF failed THEN 0 ELSE 1
        /\ bulk' \in [all : SUBSET Chats!Edits, ids : SUBSET Chats!Edits, failed : BOOLEAN,
                      finished : BOOLEAN, continued : {0, 1}]
    BY <1>4, <1>6, <2>3, ChatsConstituents
  <2>5. bulk'.failed = failed /\ bulk'.finished = TRUE
    BY <1>4, <2>3, ChatsConstituents
  <2>6. ChatsBulkInv'
    BY <1>1, <1>2, <1>4, <1>5, <1>8, <2>4, <2>5 DEF ChatsBulkInv
  <2>7. load' \in ChatsLoadSet /\ reload' \in BOOLEAN /\ lost' \in BOOLEAN /\ ChatsCopyInv'
    <3>1. ChatsLoadSet' = ChatsLoadSet
      BY <1>1 DEF ChatsLoadSet, Chats!Values
    <3> QED
      BY <2>1, <3>1, ChatsLoadTypes DEF ChatsIInv
  <2> QED
    BY <1>1, <1>3, <2>4, <2>6, <2>7, ChatsConstituents, ChatsAnsweredStep DEF ChatsIInv
<1> QED
  BY <1>7, <1>8

----------------------------------------------------------------------------
(* The invariant and the theorems *)

LEMMA ChatsNextPreserves == ASSUME ChatsAssumed, ChatsIInv, [Chats!Next]_(Chats!vars) PROVE ChatsIInv'
<1>1. CASE Chats!User
  BY <1>1, ChatsEditsKeep, ChatsSaveAllKeeps, ChatsLoadsKeep DEF Chats!User
<1>2. CASE Chats!Network
  BY <1>2, ChatsHandleKeeps, ChatsEditAnsweredKeeps, ChatsOrderAnsweredKeeps,
     ChatsRemoveAnsweredKeeps, ChatsBulkAnsweredKeeps, ChatsLoadsKeep DEF Chats!Network
<1>3. CASE UNCHANGED Chats!vars
  <2>1. Chats!Edits' = Chats!Edits /\ Chats!Values' = Chats!Values /\ UNCHANGED <<server, made, edits, order, bulk, accepted>>
        /\ UNCHANGED <<local, load, reload, lost>>
    BY <1>3 DEF Chats!vars, Chats!Edits, Chats!Values
  <2>2. ChatsCopyInv'
    BY <2>1 DEF ChatsIInv, ChatsCopyInv, ChatsAwaited
  <2> QED
    BY <2>1, <2>2, ChatsConstituents, ChatsLoadStep
<1> QED
  BY <1>1, <1>2, <1>3 DEF Chats!Next

(* Reconciled: for any folders and edits, once everything is answered the  *)
(* client shows what the server holds, unless a load was lost.             *)
THEOREM ChatsAlwaysReconciled == ASSUME ChatsAssumed PROVE Chats!Spec => []Chats!Reconciled
<1>1. Chats!Init => ChatsIInv
  BY ChatsInitSound
<1>2. ChatsIInv /\ [Chats!Next]_(Chats!vars) => ChatsIInv'
  BY ChatsNextPreserves
<1>3. ChatsIInv => Chats!Reconciled
  <2> SUFFICES ASSUME ChatsIInv, Chats!Quiet, ~lost PROVE local = server
    BY DEF Chats!Reconciled
  <2>1. bulk.ids = {}
    BY DEF Chats!Quiet, ChatsIInv, ChatsBulkInv
  <2>2. \A t \in Chats!Things : local[t] = server[t]
    BY <2>1 DEF Chats!Quiet, ChatsIInv, ChatsCopyInv, ChatsAwaited
  <2>3. local \in [Chats!Things -> 0..made] /\ server \in [Chats!Things -> 0..made]
    BY DEF ChatsIInv, ChatsTypesInv, Chats!Values
  <2> QED
    BY <2>2, <2>3
<1> QED
  BY <1>1, <1>2, <1>3, PTL DEF Chats!Spec

(* BulkHonest: for any folders, the settings go on once and only if the    *)
(* server accepted every change, and never wait for an answer that came.   *)
THEOREM ChatsBulkAlwaysHonest == ASSUME ChatsAssumed PROVE Chats!Spec => []Chats!BulkHonest
<1>1. Chats!Init => ChatsIInv
  BY ChatsInitSound
<1>2. ChatsIInv /\ [Chats!Next]_(Chats!vars) => ChatsIInv'
  BY ChatsNextPreserves
<1>3. ChatsIInv => Chats!BulkHonest
  <2> SUFFICES ASSUME ChatsIInv PROVE Chats!BulkHonest
    OBVIOUS
  <2>1. Chats!TypeOK
    <3>1. edits \subseteq [edit : Chats!Edits, thing : Chats!Things, by : Chats!Ways, says : Chats!Says]
      BY DEF ChatsIInv, ChatsTypesInv, ChatsNumbersInv, ChatsRequestSet
    <3>2. bulk.ids \subseteq bulk.all /\ bulk.all \subseteq Chats!Edits /\ bulk.continued \in 0..made
      <4>1. bulk.continued \in {0, 1} /\ bulk.all \subseteq Chats!Edits /\ made \in Nat /\ bulk.ids \subseteq bulk.all
        BY ChatsConstituents DEF ChatsIInv, ChatsBulkInv
      <4>2. made = 0 => bulk.continued = 0
        <5>1. CASE bulk = Chats!NoBulk
          BY <5>1 DEF Chats!NoBulk
        <5>2. CASE bulk # Chats!NoBulk /\ bulk.continued = 1 /\ made = 0
          <6>1. bulk.all = {}
            BY <4>1, <5>2 DEF Chats!Edits
          <6> QED
            BY <5>2, <6>1 DEF ChatsIInv, ChatsBulkInv
        <5> QED
          BY <4>1, <5>1, <5>2
      <4> QED
        BY <4>1, <4>2
    <3> QED
      BY <3>1, <3>2 DEF ChatsIInv, ChatsTypesInv, Chats!TypeOK
  <2>2. bulk.continued = (IF bulk.finished /\ bulk.all \subseteq accepted THEN 1 ELSE 0)
    <3>1. CASE bulk.finished
      <4>1. bulk.ids = {}
        BY <3>1 DEF ChatsIInv, ChatsBulkInv, Chats!NoBulk
      <4>2. bulk.failed <=> ~(bulk.all \subseteq accepted)
        BY <4>1 DEF ChatsIInv, ChatsBulkInv
      <4> QED
        BY <3>1, <4>2 DEF ChatsIInv, ChatsBulkInv
    <3>2. CASE ~bulk.finished
      BY <3>2 DEF ChatsIInv, ChatsBulkInv
    <3> QED
      BY <3>1, <3>2
  <2>3. bulk.ids = {r.edit : r \in {q \in edits : q.by = "bulk"}}
    BY DEF ChatsIInv, ChatsBulkInv
  <2> QED
    BY <2>1, <2>2, <2>3 DEF ChatsIInv, ChatsBulkInv, Chats!BulkHonest
<1> QED
  BY <1>1, <1>2, <1>3, PTL DEF Chats!Spec

(* Whichever part of the client runs, the folders shown are the server's   *)
(* once everything is answered.                                            *)
THEOREM ClientReconciles == ASSUME ChatsAssumed PROVE ClientSpec => []Reconciled
<1>1. ClientInit => Chats!Init
  BY DEF ClientInit
<1>2. [ClientNext]_<<vars, folderVars, readVars, part>> => [Chats!Next]_(Chats!vars)
  BY DEF ClientNext, folderVars, Chats!vars
<1>3. Chats!Spec => []Chats!Reconciled
  BY ChatsAlwaysReconciled
<1>4. Chats!Reconciled => Reconciled
  BY DEF Reconciled
<1> QED
  BY <1>1, <1>2, <1>3, <1>4, PTL DEF ClientSpec, Chats!Spec

(* Whichever part of the client runs, the settings go on after a bulk save *)
(* once, and only if every folder of it was saved.                         *)
THEOREM ClientBulkHonest == ASSUME ChatsAssumed PROVE ClientSpec => []BulkHonest
<1>1. ClientInit => Chats!Init
  BY DEF ClientInit
<1>2. [ClientNext]_<<vars, folderVars, readVars, part>> => [Chats!Next]_(Chats!vars)
  BY DEF ClientNext, folderVars, Chats!vars
<1>3. Chats!Spec => []Chats!BulkHonest
  BY ChatsBulkAlwaysHonest
<1>4. Chats!BulkHonest => BulkHonest
  BY DEF BulkHonest
<1> QED
  BY <1>1, <1>2, <1>3, <1>4, PTL DEF ClientSpec, Chats!Spec

-----------------------------------------------------------------------------
(* Silent reading *)

ReadingBoundsOK == MaxReads \in Nat /\ MaxSessions \in Nat

ReadingReads(n) == [explicit : BOOLEAN, session : 1..n, silent : BOOLEAN, sent : BOOLEAN,
             handler : {"held", "network", "called", "cancelled"}]

----------------------------------------------------------------------------
(* The inductive invariant *)

ReadingTypesInv ==
    /\ session \in {0, started} /\ started \in 0..MaxSessions
    /\ setting \in BOOLEAN /\ later \in BOOLEAN
    /\ policy \in [silent : BOOLEAN, permit : 0..Len(reads)]
    /\ box \in [session : 0..started, silent : BOOLEAN, pending : BOOLEAN, request : 0..Len(reads)]
    /\ reads \in Seq(ReadingReads(started))

ReadingPolicyInv == policy.permit = 0 /\ (session # 0 => policy.silent = setting)

ReadingSessionInv == (later => session # 0) /\ box.session \in {0, session}

ReadingBoxInv == box.request # 0 =>
    /\ box.session # 0
    /\ reads[box.request].explicit
    /\ reads[box.request].session = box.session

ReadingIInv == ReadingTypesInv /\ Reading!SilentHolds /\ Reading!BoxHonest /\ ReadingPolicyInv /\ ReadingSessionInv /\ ReadingBoxInv

----------------------------------------------------------------------------
LEMMA ReadingInitSound == ReadingBoundsOK /\ Reading!Init => ReadingIInv
<1> SUFFICES ASSUME ReadingBoundsOK, Reading!Init PROVE ReadingIInv
  OBVIOUS
<1>1. reads \in Seq(ReadingReads(started)) /\ Len(reads) = 0
  BY EmptySeq DEF Reading!Init
<1>2. ReadingTypesInv
  <2>1. session \in {0, started} /\ started \in 0..MaxSessions
    BY DEF Reading!Init, ReadingBoundsOK
  <2>4. setting \in BOOLEAN /\ later \in BOOLEAN
    BY Zenon DEF Reading!Init
  <2>2. policy \in [silent : BOOLEAN, permit : 0..Len(reads)]
    BY <1>1 DEF Reading!Init
  <2>3. box \in [session : 0..started, silent : BOOLEAN, pending : BOOLEAN, request : 0..Len(reads)]
    BY <1>1 DEF Reading!Init, Reading!NoBox
  <2> QED
    BY <1>1, <2>1, <2>2, <2>3, <2>4 DEF ReadingTypesInv
<1>3. Reading!Ids = {}
  BY <1>1 DEF Reading!Ids
<1>4. box.request = 0 /\ box.pending = FALSE /\ box.session = 0 /\ session = 0
      /\ policy.permit = 0 /\ later = FALSE
  BY DEF Reading!Init, Reading!NoBox
<1>5. Reading!SilentHolds
  BY <1>3, Zenon DEF Reading!SilentHolds
<1>6. Reading!BoxHonest
  <2>1. \A id \in Reading!Ids : reads[id].explicit =>
           (Reading!Outstanding(reads[id]) <=> box.request = id /\ box.session = reads[id].session)
    BY <1>3, Zenon
  <2>2. box.pending <=> box.request # 0
    BY <1>4
  <2> QED
    BY <2>1, <2>2, Zenon DEF Reading!BoxHonest
<1>7. ReadingPolicyInv /\ ReadingSessionInv /\ ReadingBoxInv
  BY <1>4 DEF ReadingPolicyInv, ReadingSessionInv, ReadingBoxInv
<1> QED
  BY <1>2, <1>5, <1>6, <1>7 DEF ReadingIInv

(* What the gate does with one request, explicit exactly with its permit.  *)
LEMMA ReadingSendEffect ==
    ASSUME ReadingBoundsOK, ReadingTypesInv, ReadingPolicyInv, session # 0,
           NEW explicit \in BOOLEAN, NEW permit \in Nat,
           explicit => permit = Len(reads) + 1,
           ~explicit => permit = 0,
           Reading!Send(explicit, permit)
    PROVE  /\ Len(reads) \in Nat /\ Len(reads') = Len(reads) + 1
           /\ reads' \in Seq(ReadingReads(started))
           /\ \A i \in Reading!Ids : reads'[i] = reads[i]
           /\ reads'[Len(reads) + 1].explicit = explicit
           /\ reads'[Len(reads) + 1].session = session
           /\ reads'[Len(reads) + 1].sent <=> explicit \/ ~reads'[Len(reads) + 1].silent
           /\ Reading!Outstanding(reads'[Len(reads) + 1])
           /\ policy' = policy
<1> DEFINE new == [explicit |-> explicit, session |-> session, silent |-> setting,
                   sent |-> ~Reading!Suppress(Len(reads) + 1, permit),
                   handler |-> IF Reading!Suppress(Len(reads) + 1, permit) THEN "held" ELSE "network"]
<1>1. reads \in Seq(ReadingReads(started)) /\ Len(reads) \in Nat
  BY LenProperties DEF ReadingTypesInv
<1>2. session \in 1..started /\ setting \in BOOLEAN /\ policy.silent = setting
      /\ policy \in [silent : BOOLEAN, permit : 0..Len(reads)]
  BY DEF ReadingBoundsOK, ReadingTypesInv, ReadingPolicyInv
<1>3. Reading!Suppress(Len(reads) + 1, permit) = (policy.silent /\ ~explicit)
  BY <1>1, <1>2 DEF Reading!Suppress
<1>4. new \in ReadingReads(started)
  BY <1>2, <1>3 DEF ReadingReads
<1>5. reads' = Append(reads, new) /\ policy' = [policy EXCEPT !.permit = IF permit = Len(reads) + 1 THEN 0 ELSE permit]
  BY DEF Reading!Send
<1>6. /\ reads' \in Seq(ReadingReads(started)) /\ Len(reads') = Len(reads) + 1
      /\ \A i \in 1..Len(reads) : reads'[i] = reads[i]
      /\ reads'[Len(reads) + 1] = new
  BY <1>1, <1>4, <1>5 DEF new
<1>7. policy' = policy
  BY <1>1, <1>2, <1>5 DEF ReadingPolicyInv
<1>8. new.explicit = explicit /\ new.session = session /\ new.silent = setting
      /\ new.sent = ~Reading!Suppress(Len(reads) + 1, permit)
      /\ new.handler \in {"held", "network"}
  OBVIOUS
<1>9. new.sent <=> explicit \/ ~new.silent
  BY <1>2, <1>3, <1>8
<1> HIDE DEF new
<1> QED
  BY <1>1, <1>6, <1>7, <1>8, <1>9 DEF Reading!Ids, Reading!Outstanding

(* Cancelling takes the handlers of some requests away.                    *)
LEMMA ReadingCancelEffect ==
    ASSUME NEW n \in Nat, NEW rs \in Seq(ReadingReads(n)), NEW ids
    PROVE  /\ Reading!Cancelled(rs, ids) \in Seq(ReadingReads(n)) /\ Len(Reading!Cancelled(rs, ids)) = Len(rs)
           /\ \A i \in 1..Len(rs) :
                /\ Reading!Cancelled(rs, ids)[i].explicit = rs[i].explicit
                /\ Reading!Cancelled(rs, ids)[i].session = rs[i].session
                /\ Reading!Cancelled(rs, ids)[i].silent = rs[i].silent
                /\ Reading!Cancelled(rs, ids)[i].sent = rs[i].sent
                /\ Reading!Outstanding(Reading!Cancelled(rs, ids)[i]) <=> Reading!Outstanding(rs[i]) /\ i \notin ids
<1>1. Len(rs) \in Nat /\ DOMAIN rs = 1..Len(rs) /\ \A i \in 1..Len(rs) : rs[i] \in ReadingReads(n)
  BY LenProperties, ElementOfSeq
<1>2. \A i \in 1..Len(rs) : Reading!Cancelled(rs, ids)[i] \in ReadingReads(n)
  BY <1>1 DEF Reading!Cancelled, ReadingReads
<1>3. Reading!Cancelled(rs, ids) \in [1..Len(rs) -> ReadingReads(n)]
  BY <1>1, <1>2 DEF Reading!Cancelled
<1>4. Reading!Cancelled(rs, ids) \in Seq(ReadingReads(n)) /\ Len(Reading!Cancelled(rs, ids)) = Len(rs)
  BY <1>1, <1>3, SeqDef
<1>5. ASSUME NEW i \in 1..Len(rs)
      PROVE  /\ Reading!Cancelled(rs, ids)[i].explicit = rs[i].explicit
             /\ Reading!Cancelled(rs, ids)[i].session = rs[i].session
             /\ Reading!Cancelled(rs, ids)[i].silent = rs[i].silent
             /\ Reading!Cancelled(rs, ids)[i].sent = rs[i].sent
             /\ Reading!Outstanding(Reading!Cancelled(rs, ids)[i]) <=> Reading!Outstanding(rs[i]) /\ i \notin ids
  BY <1>1, <1>5 DEF Reading!Cancelled, ReadingReads, Reading!Outstanding
<1> QED
  BY <1>4, <1>5
----------------------------------------------------------------------------
(* A step that sends one request, and leaves the setting alone.            *)
LEMMA ReadingSendPreserves ==
    ASSUME ReadingBoundsOK, ReadingIInv, session # 0, NEW explicit \in BOOLEAN, NEW permit \in Nat,
           explicit => permit = Len(reads) + 1 /\ box.session # 0 /\ ~box.pending,
           ~explicit => permit = 0,
           Reading!Send(explicit, permit),
           box' = IF explicit THEN [box EXCEPT !.pending = TRUE, !.request = Len(reads) + 1] ELSE box,
           later' \in BOOLEAN,
           UNCHANGED <<session, started, setting>>
    PROVE  ReadingIInv'
<1> DEFINE new == Len(reads) + 1
<1>1. /\ Len(reads) \in Nat /\ Len(reads') = new
      /\ reads' \in Seq(ReadingReads(started))
      /\ \A i \in Reading!Ids : reads'[i] = reads[i]
      /\ reads'[new].explicit = explicit
      /\ reads'[new].session = session
      /\ reads'[new].sent <=> explicit \/ ~reads'[new].silent
      /\ Reading!Outstanding(reads'[new])
      /\ policy' = policy
  BY ReadingSendEffect DEF ReadingIInv
<1> HIDE DEF new
<1>2. Reading!Ids' = Reading!Ids \cup {new} /\ new \notin Reading!Ids /\ new \in Nat \ {0}
  BY <1>1 DEF Reading!Ids, new
<1>3. box \in [session : 0..started, silent : BOOLEAN, pending : BOOLEAN, request : 0..Len(reads)]
      /\ started \in Nat /\ (box.session # 0 => box.session = session)
  BY DEF ReadingIInv, ReadingTypesInv, ReadingSessionInv, ReadingBoundsOK
<1>4. ReadingTypesInv'
  <2>1. box' \in [session : 0..started, silent : BOOLEAN, pending : BOOLEAN, request : 0..Len(reads')]
    <3>1. CASE explicit
      <4>1. box' = [box EXCEPT !.pending = TRUE, !.request = new]
        BY <3>1 DEF new
      <4>2. new \in 0..Len(reads')
        BY <1>1, <1>2
      <4> QED
        BY <1>3, <4>1, <4>2
    <3>2. CASE ~explicit
      <4>1. 0..Len(reads) \subseteq 0..Len(reads')
        BY <1>1 DEF new
      <4> QED
        BY <1>3, <3>2, <4>1
    <3> QED
      BY <3>1, <3>2
  <2>2. policy' \in [silent : BOOLEAN, permit : 0..Len(reads')]
    BY <1>1, <1>2 DEF ReadingIInv, ReadingTypesInv, new
  <2> QED
    BY <1>1, <2>1, <2>2 DEF ReadingIInv, ReadingTypesInv
<1>5. Reading!SilentHolds'
  BY <1>1, <1>2 DEF ReadingIInv, Reading!SilentHolds
<1>6. CASE ~explicit
  <2>1. box' = box /\ ~reads'[new].explicit
    BY <1>1, <1>6
  <2>2. Reading!BoxHonest'
    BY <1>1, <1>2, <2>1 DEF ReadingIInv, Reading!BoxHonest
  <2>3. ReadingBoxInv'
    <3>1. box.request # 0 => box.request \in Reading!Ids
      BY <1>1, <1>3 DEF Reading!Ids
    <3> QED
      BY <1>1, <2>1, <3>1 DEF ReadingIInv, ReadingBoxInv
  <2> QED
    BY <1>1, <1>4, <1>5, <2>1, <2>2, <2>3 DEF ReadingIInv, ReadingPolicyInv, ReadingSessionInv
<1>7. CASE explicit
  <2>1. box'.request = new /\ box'.pending = TRUE /\ box'.session = box.session
        /\ box.session = session /\ box.request = 0
    BY <1>3, <1>7 DEF ReadingIInv, Reading!BoxHonest, new
  <2>2. \A i \in Reading!Ids : reads[i].explicit => ~Reading!Outstanding(reads[i])
    BY <1>2, <2>1 DEF ReadingIInv, Reading!BoxHonest, Reading!Ids
  <2>3. Reading!BoxHonest' /\ ReadingBoxInv'
    BY <1>1, <1>2, <1>7, <2>1, <2>2 DEF Reading!BoxHonest, ReadingBoxInv
  <2> QED
    BY <1>1, <1>4, <1>5, <2>1, <2>3 DEF ReadingIInv, ReadingPolicyInv, ReadingSessionInv
<1> QED
  BY <1>6, <1>7

LEMMA ReadingSendAutomatic ==
    ASSUME ReadingBoundsOK, ReadingIInv, session # 0, Reading!Send(FALSE, policy.permit),
           later' \in BOOLEAN, UNCHANGED <<session, started, setting, box>>
    PROVE  ReadingIInv'
<1>1. policy.permit = 0
  BY DEF ReadingIInv, ReadingPolicyInv
<1>2. Reading!Send(FALSE, 0)
  BY <1>1, Zenon
<1>3. box' = IF FALSE THEN [box EXCEPT !.pending = TRUE, !.request = Len(reads) + 1] ELSE box
  BY Zenon
<1>4. UNCHANGED <<session, started, setting>>
  OBVIOUS
<1> QED
  BY <1>2, <1>3, <1>4, ReadingSendPreserves, Zenon

LEMMA ReadingSendExplicitly ==
    ASSUME ReadingBoundsOK, ReadingIInv, box.session # 0, ~box.pending, Reading!Send(TRUE, Len(reads) + 1),
           box' = [box EXCEPT !.pending = TRUE, !.request = Len(reads) + 1],
           UNCHANGED <<session, started, setting, later>>
    PROVE  ReadingIInv'
<1>1. session # 0 /\ Len(reads) + 1 \in Nat /\ later' \in BOOLEAN
  BY LenProperties DEF ReadingIInv, ReadingTypesInv, ReadingSessionInv
<1>2. box' = IF TRUE THEN [box EXCEPT !.pending = TRUE, !.request = Len(reads) + 1] ELSE box
  BY Zenon
<1>3. UNCHANGED <<session, started, setting>>
  OBVIOUS
<1> QED
  BY <1>1, <1>2, <1>3, ReadingSendPreserves, Zenon

----------------------------------------------------------------------------
(* A step that cancels some requests and perhaps closes the box.           *)
LEMMA ReadingCancelPreserves ==
    ASSUME ReadingBoundsOK, ReadingIInv, NEW ids,
           reads' = Reading!Cancelled(reads, ids),
           \/ box' = box /\ session' = session /\ \A i \in ids : i \in Reading!Ids /\ ~reads[i].explicit
           \/ box' = Reading!NoBox /\ (box.request # 0 => box.request \in ids),
           \/ UNCHANGED <<session, policy>> /\ later' \in {FALSE, later}
           \/ session' = 0 /\ later' = FALSE /\ policy' = [silent |-> FALSE, permit |-> 0],
           UNCHANGED <<started, setting>>
    PROVE  ReadingIInv'
<1>1. /\ Len(reads') = Len(reads) /\ reads' \in Seq(ReadingReads(started))
      /\ started \in Nat /\ Len(reads) \in Nat
      /\ \A i \in Reading!Ids : /\ reads'[i].explicit = reads[i].explicit
                                /\ reads'[i].session = reads[i].session
                                /\ reads'[i].silent = reads[i].silent
                                /\ reads'[i].sent = reads[i].sent
                                /\ Reading!Outstanding(reads'[i]) <=> Reading!Outstanding(reads[i]) /\ i \notin ids
  <2>1. reads \in Seq(ReadingReads(started)) /\ started \in Nat
    BY DEF ReadingIInv, ReadingTypesInv, ReadingBoundsOK
  <2> QED
    BY <2>1, ReadingCancelEffect, LenProperties DEF Reading!Ids
<1>2. Reading!Ids' = Reading!Ids
  BY <1>1 DEF Reading!Ids
<1>3. Reading!SilentHolds'
  BY <1>1, <1>2 DEF ReadingIInv, Reading!SilentHolds
<1> DEFINE Leaves == session' = 0 /\ later' = FALSE /\ policy' = [silent |-> FALSE, permit |-> 0]
           Goes == session' = session /\ policy' = policy /\ later' \in {FALSE, later}
<1>a. Leaves \/ Goes
  OBVIOUS
<1>4. later' \in BOOLEAN /\ (later' => session' # 0)
  <2>1. CASE Leaves
    BY <2>1, Zenon
  <2>2. CASE Goes
    <3>1. later \in BOOLEAN /\ (later => session # 0)
      BY Zenon DEF ReadingIInv, ReadingTypesInv, ReadingSessionInv
    <3>2. later' = FALSE \/ later' = later
      BY <2>2, Zenon
    <3>3. session' = session
      BY <2>2, Zenon
    <3>4. CASE later' = FALSE
      BY <3>4
    <3>5. CASE later' = later
      BY <3>1, <3>3, <3>5
    <3> QED
      BY <3>2, <3>4, <3>5
  <2> QED
    BY <1>a, <2>1, <2>2
<1>5. /\ session' \in {0, started}
      /\ policy' \in [silent : BOOLEAN, permit : 0..Len(reads')]
      /\ ReadingPolicyInv'
  <2>1. CASE Leaves
    BY <1>1, <2>1 DEF ReadingPolicyInv
  <2>2. CASE Goes
    BY <1>1, <2>2 DEF ReadingIInv, ReadingTypesInv, ReadingPolicyInv
  <2> QED
    BY <1>a, <2>1, <2>2
<1>6. /\ box' \in [session : 0..started, silent : BOOLEAN, pending : BOOLEAN, request : 0..Len(reads')]
      /\ box'.session \in {0, session'}
  <2>1. CASE box' = box /\ session' = session
    BY <1>1, <2>1 DEF ReadingIInv, ReadingTypesInv, ReadingSessionInv
  <2>2. CASE box' = Reading!NoBox
    BY <1>1, <2>2 DEF Reading!NoBox
  <2> QED
    BY <2>1, <2>2
<1>7. Reading!BoxHonest' /\ ReadingBoxInv'
  <2>1. CASE box' = box /\ \A i \in ids : i \in Reading!Ids /\ ~reads[i].explicit
    <3>1. \A i \in Reading!Ids : reads[i].explicit => (Reading!Outstanding(reads'[i]) <=> Reading!Outstanding(reads[i]))
      BY <1>1, <2>1
    <3>2. box.request # 0 => box.request \in Reading!Ids
      BY <1>1 DEF ReadingIInv, ReadingTypesInv, Reading!Ids
    <3> QED
      BY <1>1, <1>2, <2>1, <3>1, <3>2 DEF ReadingIInv, Reading!BoxHonest, ReadingBoxInv
  <2>2. CASE box' = Reading!NoBox /\ (box.request # 0 => box.request \in ids)
    <3>1. \A i \in Reading!Ids : reads'[i].explicit => ~Reading!Outstanding(reads'[i])
      BY <1>1, <2>2 DEF ReadingIInv, Reading!BoxHonest, Reading!Ids
    <3>2. box'.request = 0 /\ box'.pending = FALSE /\ box'.session = 0 /\ 0 \notin Reading!Ids
      BY <2>2 DEF Reading!NoBox, Reading!Ids
    <3> QED
      BY <1>2, <3>1, <3>2 DEF Reading!BoxHonest, ReadingBoxInv
  <2> QED
    BY <2>1, <2>2
<1>8. ReadingTypesInv'
  BY <1>1, <1>4, <1>5, <1>6 DEF ReadingIInv, ReadingTypesInv
<1> QED
  BY <1>3, <1>4, <1>5, <1>6, <1>7, <1>8 DEF ReadingIInv, ReadingSessionInv

(* A handler is called, and its box hears of it.                           *)
LEMMA ReadingCallPreserves ==
    ASSUME ReadingBoundsOK, ReadingIInv, NEW id \in Reading!Ids,
           Reading!CapyReadSuppressed(id) \/ Reading!Answer(id)
    PROVE  ReadingIInv'
<1>1. /\ Reading!Outstanding(reads[id])
      /\ reads' = [reads EXCEPT ![id].handler = "called"]
      /\ box' = Reading!Finish(id)
      /\ UNCHANGED <<session, started, setting, policy, later>>
  BY DEF Reading!CapyReadSuppressed, Reading!Answer, Reading!Outstanding
<1>2. /\ reads \in Seq(ReadingReads(started)) /\ started \in Nat /\ Len(reads) \in Nat
      /\ DOMAIN reads = Reading!Ids /\ \A i \in Reading!Ids : reads[i] \in ReadingReads(started)
  BY LenProperties, ElementOfSeq DEF ReadingIInv, ReadingTypesInv, ReadingBoundsOK, Reading!Ids
<1>3. [reads[id] EXCEPT !.handler = "called"] \in ReadingReads(started)
  BY <1>2 DEF ReadingReads
<1>4. /\ reads' \in Seq(ReadingReads(started)) /\ Len(reads') = Len(reads)
      /\ \A i \in Reading!Ids : reads'[i] = IF i = id THEN [reads[id] EXCEPT !.handler = "called"] ELSE reads[i]
  BY <1>1, <1>2, <1>3, ExceptSeq DEF Reading!Ids
<1>5. /\ Reading!Ids' = Reading!Ids
      /\ \A i \in Reading!Ids : /\ reads'[i].explicit = reads[i].explicit
                                /\ reads'[i].session = reads[i].session
                                /\ reads'[i].silent = reads[i].silent
                                /\ reads'[i].sent = reads[i].sent
                                /\ Reading!Outstanding(reads'[i]) <=> Reading!Outstanding(reads[i]) /\ i # id
  BY <1>2, <1>4 DEF Reading!Ids, ReadingReads, Reading!Outstanding
<1>6. box \in [session : 0..started, silent : BOOLEAN, pending : BOOLEAN, request : 0..Len(reads)]
  BY DEF ReadingIInv, ReadingTypesInv
<1>7. /\ box' \in [session : 0..started, silent : BOOLEAN, pending : BOOLEAN, request : 0..Len(reads)]
      /\ box'.session = box.session
      /\ (box.request = id => ~box'.pending)
      /\ (box.request # id => box'.pending = box.pending)
      /\ box'.request = IF box.request = id THEN 0 ELSE box.request
  <2>1. id # 0 /\ (box.pending <=> box.request # 0)
    BY <1>2 DEF ReadingIInv, Reading!BoxHonest, Reading!Ids
  <2>2. CASE box.request = id
    <3>1. box' = [box EXCEPT !.pending = FALSE, !.request = 0]
      BY <1>1, <2>2 DEF Reading!Finish
    <3>2. /\ box' \in [session : 0..started, silent : BOOLEAN, pending : BOOLEAN, request : 0..Len(reads)]
          /\ box'.session = box.session /\ ~box'.pending /\ box'.request = 0
      <4>1. 0 \in 0..Len(reads)
        BY <1>2
      <4>2. box' \in [session : 0..started, silent : BOOLEAN, pending : BOOLEAN, request : 0..Len(reads)]
        BY <1>6, <3>1, <4>1
      <4>3. box'.session = box.session /\ box'.request = 0
        BY <1>6, <3>1
      <4>4. box'.pending = FALSE
        BY <1>6, <3>1
      <4> QED
        BY <4>2, <4>3, <4>4
    <3>3. box'.request = IF box.request = id THEN 0 ELSE box.request
      BY <2>2, <3>2, Zenon
    <3>4. ~(box.request # id)
      BY <2>2
    <3> QED
      BY <3>2, <3>3, <3>4
  <2>3. CASE box.request # id
    <3>1. box' = box
      BY <1>1, <2>3 DEF Reading!Finish
    <3> QED
      BY <1>6, <2>3, <3>1
  <2> QED
    BY <2>2, <2>3
<1>8. ReadingTypesInv' /\ Reading!SilentHolds' /\ ReadingPolicyInv' /\ ReadingSessionInv'
  BY <1>1, <1>4, <1>5, <1>7 DEF ReadingIInv, ReadingTypesInv, Reading!SilentHolds,
     ReadingPolicyInv, ReadingSessionInv
<1>9. ReadingBoxInv'
  BY <1>2, <1>5, <1>6, <1>7 DEF ReadingIInv, ReadingBoxInv, Reading!Ids
<1>10. Reading!BoxHonest'
  <2>1. box'.pending <=> box'.request # 0
    BY <1>2, <1>7 DEF ReadingIInv, Reading!BoxHonest, Reading!Ids
  <2>2. ASSUME NEW i \in Reading!Ids, reads[i].explicit
        PROVE  Reading!Outstanding(reads'[i]) <=> box'.request = i /\ box'.session = reads[i].session
    BY <1>2, <1>5, <1>7, <2>2 DEF ReadingIInv, Reading!BoxHonest, Reading!Ids
  <2> QED
    BY <1>5, <2>1, <2>2 DEF Reading!BoxHonest
<1> QED
  BY <1>8, <1>9, <1>10 DEF ReadingIInv

----------------------------------------------------------------------------
LEMMA ReadingNextPreserves == ReadingBoundsOK /\ ReadingIInv /\ [Reading!Next]_(Reading!vars) => ReadingIInv'
<1> SUFFICES ASSUME ReadingBoundsOK, ReadingIInv, [Reading!Next]_(Reading!vars) PROVE ReadingIInv'
  OBVIOUS
<1>0. /\ Len(reads) \in Nat /\ started \in Nat
      /\ box \in [session : 0..started, silent : BOOLEAN, pending : BOOLEAN, request : 0..Len(reads)]
      /\ setting \in BOOLEAN /\ policy.permit = 0 /\ (box.session # 0 => session # 0)
  BY LenProperties DEF ReadingIInv, ReadingTypesInv, ReadingPolicyInv, ReadingSessionInv,
     ReadingBoundsOK
<1>1. CASE Reading!StartSession
  <2>1. /\ session = 0 /\ session' = started + 1 /\ started' = started + 1 /\ started' \in 0..MaxSessions
        /\ policy' = [silent |-> setting, permit |-> 0]
        /\ UNCHANGED <<setting, later, reads, box>>
    BY <1>0, <1>1 DEF Reading!StartSession, ReadingBoundsOK
  <2>2. reads \in Seq(ReadingReads(started'))
    <3>1. ReadingReads(started) \subseteq ReadingReads(started')
      BY <1>0, <2>1 DEF ReadingReads
    <3> QED
      BY <3>1, SeqMonotonic DEF ReadingIInv, ReadingTypesInv
  <2>3. box.session = 0 /\ ~later
    BY <2>1 DEF ReadingIInv, ReadingSessionInv
  <2>4. ReadingTypesInv'
    <3>1. box' \in [session : 0..started', silent : BOOLEAN, pending : BOOLEAN, request : 0..Len(reads')]
      BY <1>0, <2>1
    <3>2. policy' \in [silent : BOOLEAN, permit : 0..Len(reads')]
      BY <1>0, <2>1
    <3> QED
      BY <2>1, <2>2, <3>1, <3>2 DEF ReadingIInv, ReadingTypesInv
  <2>5. Reading!SilentHolds' /\ Reading!BoxHonest' /\ ReadingBoxInv'
    BY <2>1 DEF ReadingIInv, Reading!SilentHolds, Reading!BoxHonest, ReadingBoxInv, Reading!Ids
  <2> QED
    BY <2>1, <2>3, <2>4, <2>5 DEF ReadingIInv, ReadingPolicyInv, ReadingSessionInv
<1>2. CASE Reading!DestroySession
  <2>1. box.request # 0 => box.request \in Reading!Ids
    BY <1>0 DEF Reading!Ids
  <2> QED
    BY <1>2, <2>1, ReadingCancelPreserves DEF Reading!DestroySession
<1>3. CASE Reading!SendRead
  BY <1>3, ReadingSendAutomatic DEF Reading!SendRead, ReadingIInv, ReadingTypesInv
<1>4. CASE Reading!ReadInbox
  BY <1>4 DEF Reading!ReadInbox, ReadingIInv, ReadingTypesInv, Reading!SilentHolds,
     Reading!BoxHonest, ReadingPolicyInv, ReadingSessionInv, ReadingBoxInv, Reading!Ids
<1>5. CASE Reading!SendReadRequest
  <2>1. session # 0
    BY <1>5 DEF Reading!SendReadRequest, ReadingIInv, ReadingSessionInv
  <2>2. CASE policy.silent
    BY <1>5, <2>2 DEF Reading!SendReadRequest, ReadingIInv, ReadingTypesInv,
       Reading!SilentHolds, Reading!BoxHonest, ReadingPolicyInv, ReadingSessionInv,
       ReadingBoxInv, Reading!Ids
  <2>3. CASE ~policy.silent
    BY <1>5, <2>1, <2>3, ReadingSendAutomatic DEF Reading!SendReadRequest
  <2> QED
    BY <2>2, <2>3
<1>6. CASE Reading!SendReadTillRequest
  <2>1. session # 0
    BY <1>6 DEF Reading!SendReadTillRequest, ReadingIInv, ReadingSessionInv
  <2>2. CASE policy.silent
    BY <1>6, <2>2, ReadingCancelPreserves DEF Reading!SendReadTillRequest
  <2>3. CASE ~policy.silent
    BY <1>6, <2>1, <2>3, ReadingSendAutomatic DEF Reading!SendReadTillRequest
  <2> QED
    BY <2>2, <2>3
<1>7. CASE \E id \in Reading!Ids : Reading!CapyReadSuppressed(id) \/ Reading!Answer(id)
  BY <1>7, ReadingCallPreserves
<1>8. CASE Reading!ShowReadMode
  <2>1. /\ session # 0 /\ box.session = 0 /\ box' = [session |-> session, silent |-> setting, pending |-> FALSE, request |-> 0]
        /\ UNCHANGED <<session, started, setting, policy, later, reads>>
    BY <1>8 DEF Reading!ShowReadMode, Reading!Open, Reading!NoBox
  <2>2. session \in 0..started /\ setting \in BOOLEAN
    BY <1>0 DEF ReadingIInv, ReadingTypesInv
  <2>3. /\ box' \in [session : 0..started, silent : BOOLEAN, pending : BOOLEAN, request : 0..Len(reads)]
        /\ box'.session = session /\ ~box'.pending /\ box'.request = 0
    BY <1>0, <2>1, <2>2
  <2>4. box.request = 0
    BY <2>1 DEF ReadingIInv, ReadingBoxInv
  <2>5. Reading!BoxHonest' /\ ReadingBoxInv'
    BY <1>0, <2>1, <2>3, <2>4 DEF ReadingIInv, Reading!BoxHonest, ReadingBoxInv, Reading!Ids
  <2> QED
    BY <2>1, <2>3, <2>5 DEF ReadingIInv, ReadingTypesInv, Reading!SilentHolds,
       ReadingPolicyInv, ReadingSessionInv, Reading!Ids
<1>9. CASE Reading!Toggle
  <2>1. /\ box.session # 0 /\ ~box.pending /\ box' = Reading!NoBox
        /\ setting' = ~box.silent /\ policy' = [silent |-> ~box.silent, permit |-> 0]
        /\ UNCHANGED <<session, started, later, reads>>
    BY <1>9 DEF Reading!Toggle, Reading!Open
  <2>2. /\ box' \in [session : 0..started, silent : BOOLEAN, pending : BOOLEAN, request : 0..Len(reads)]
        /\ box'.session = 0 /\ ~box'.pending /\ box'.request = 0 /\ box.request = 0
    BY <1>0, <2>1 DEF Reading!NoBox, ReadingIInv, Reading!BoxHonest
  <2>3. Reading!BoxHonest' /\ ReadingBoxInv'
    BY <1>0, <2>1, <2>2 DEF ReadingIInv, Reading!BoxHonest, ReadingBoxInv, Reading!Ids
  <2>4. setting' \in BOOLEAN /\ policy' \in [silent : BOOLEAN, permit : 0..Len(reads')] /\ ReadingPolicyInv'
    BY <1>0, <2>1 DEF ReadingPolicyInv
  <2> QED
    BY <2>1, <2>2, <2>3, <2>4 DEF ReadingIInv, ReadingTypesInv, Reading!SilentHolds,
       ReadingSessionInv, Reading!Ids
<1>10. CASE Reading!ExplicitRead
  BY <1>10, ReadingSendExplicitly DEF Reading!ExplicitRead, Reading!Open
<1>11. CASE Reading!CloseBox
  <2>1. box.request # 0 => box.request \in {box.request}
    OBVIOUS
  <2> QED
    BY <1>11, <2>1, ReadingCancelPreserves DEF Reading!CloseBox
<1>12. CASE UNCHANGED Reading!vars
  BY <1>12 DEF Reading!vars, ReadingIInv, ReadingTypesInv, Reading!SilentHolds,
     Reading!BoxHonest, ReadingPolicyInv, ReadingSessionInv, ReadingBoxInv, Reading!Ids
<1> QED
  BY <1>1, <1>2, <1>3, <1>4, <1>5, <1>6, <1>7, <1>8, <1>9, <1>10, <1>11, <1>12 DEF Reading!Next

----------------------------------------------------------------------------
(* The state keeps its types; a read leaves while the setting says silent  *)
(* exactly if the user confirmed it; and the box waits for its own read    *)
(* alone, and for no read of a session that is gone.                       *)
THEOREM SilentReadingHonoured == ASSUME ReadingBoundsOK PROVE Reading!Spec => []Reading!ReadsSound
<1>1. Reading!Init => ReadingIInv
  BY ReadingInitSound
<1>2. ReadingIInv /\ [Reading!Next]_(Reading!vars) => ReadingIInv'
  BY ReadingNextPreserves
<1>3. ReadingIInv => Reading!ReadsSound
  <2>1. ReadingTypesInv => Reading!TypeOK
    BY Zenon DEF ReadingTypesInv, Reading!TypeOK, ReadingReads
  <2> QED
    BY <2>1 DEF ReadingIInv, Reading!ReadsSound
<1> QED
  BY <1>1, <1>2, <1>3, PTL DEF Reading!Spec

(* Whichever part of the client runs, silent reading is honoured and its   *)
(* answers reach whoever asked.                                            *)
THEOREM ClientReadsSilently == ASSUME ReadingBoundsOK PROVE ClientSpec => []ReadsSound
<1>1. ClientInit => Reading!Init
  BY DEF ClientInit
<1>2. [ClientNext]_<<vars, folderVars, readVars, part>> => [Reading!Next]_(Reading!vars)
  BY DEF ClientNext, readVars, Reading!vars
<1>3. Reading!Spec => []Reading!ReadsSound
  BY SilentReadingHonoured
<1>4. Reading!ReadsSound => ReadsSound
  BY DEF ReadsSound
<1> QED
  BY <1>1, <1>2, <1>3, <1>4, PTL DEF ClientSpec, Reading!Spec
=============================================================================
