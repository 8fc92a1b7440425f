----------------------- MODULE AndroidRequests_proofs -----------------------
(***************************************************************************)
(* Theorems about AndroidRequests: for any users and any number of logins  *)
(* and requests, receipts leave only where they may, and reports, checked  *)
(* answers, what notifications do and modes stay with their user.          *)
(*                                                                         *)
(* The argument: session numbers only grow, a session that was left behind *)
(* never returns, and one in force was made in the login in force          *)
(* (AccountInv).  So a request whose session is still current belongs to   *)
(* the login in force and to its user (Belongs).                           *)
(*                                                                         *)
(* The second part is about AndroidVault, which MCAndroidVault takes as    *)
(* Vault: a token of the epoch in force is of the login in force           *)
(* (VaultTokenInv), what it reads is the generation the preferences refer  *)
(* to (VaultBound, VaultMailInv, VaultServeInv), a generation being made   *)
(* is known to nobody (VaultNewInv) and one being destroyed is of no       *)
(* valid reply (VaultDestroyInv).  Where every tombstone and every removal *)
(* reached the disk, memory and disk tell of a generation what a restart   *)
(* needs (VaultDiskInv); and whatever is retired somebody is going to      *)
(* destroy (VaultAwaitInv).                                                *)
(***************************************************************************)
EXTENDS MCAndroidVault, TLAPS, SequenceTheorems

Assumed == None \notin Users /\ MaxLogins \in Nat

----------------------------------------------------------------------------
(* The inductive invariant *)

People == Users \cup {None}

Slots(n) == [id : 0..n, owner : People, silent : BOOLEAN, retired : BOOLEAN]

Dialogs(n) == [session : 0..n, user : People, silent : BOOLEAN,
               doing : {"closed", "open", "toggle", "read"}]

Requests == [kind : Kinds, user : People, identity : Nat, session : Nat, hushed : BOOLEAN,
             state : {"shown", "taken", "global", "ui", "queued", "sent", "failed", "done"},
             bound : People, madeIn : Nat, quiet : BOOLEAN, sentIn : Nat, sentAs : People, allowed : BOOLEAN,
             usedIn : Nat, usedAs : People]

AccountTypes ==
    /\ owner \in People /\ logins \in 0..MaxLogins /\ made \in Nat
    /\ life \in {"out", "arriving", "in", "leaving"}
    /\ slot \in Slots(made) /\ mode \in [Users -> BOOLEAN] /\ reporting \in [Users -> BOOLEAN]
    /\ dialog \in Dialogs(made)

StageTypes ==
    /\ requests \in Seq(Requests)
    /\ stage \in Seq([id : Nat, what : {"gate", "fail"}])
    /\ \A i \in DOMAIN stage : stage[i].id \in Ids /\ requests[stage[i].id].kind \notin Actions

(* Where a login is, and whose session the slot may hold meanwhile.        *)
AccountInv ==
    /\ owner = None <=> life = "out"
    /\ slot.id = 0 => slot = NoSession
    /\ slot.retired => slot.silent
    /\ life = "out" => slot.id = 0 \/ slot.owner = None \/ slot.retired
    /\ life = "in" => slot.id = 0 \/ slot.owner = owner
    /\ life = "leaving" => slot.id # 0 /\ slot.owner = owner /\ slot.retired

DialogInv ==
    /\ slot.id # 0 => dialog.session <= slot.id
    /\ slot.id # 0 /\ dialog.session = slot.id => dialog.user = slot.owner

(* A reply is bound to its user, if at all; a callback did nothing before. *)
Fresh(r) ==
    /\ r.kind = "reply" => r.bound \in {r.user, None}
    /\ r.kind = "callback" /\ r.state \in {"shown", "taken"} => r.sentAs = None /\ r.usedAs = None

(* Request r, seen with the slot s, the owner o and the login l in force.  *)
Belongs(r, s, n, o, l) ==
    /\ r.session \in 1..n /\ r.identity <= r.session
    /\ r.kind \in {"read", "secret", "report"} => r.identity = r.session
    /\ r.kind \in Actions => r.identity = 0
    /\ Fresh(r)
    /\ s.id # 0 => r.session <= s.id
    /\ s.id # 0 /\ r.identity = s.id => r.user = s.owner
    /\ s.id # 0 /\ r.session = s.id /\ s.owner = o /\ o # None /\ ~s.retired => r.madeIn = l
    /\ r.kind \in {"read", "secret"} /\ ~r.hushed => ~r.quiet

RequestsInv == \A i \in Ids : Belongs(requests[i], slot, made, owner, Login)

IInv == /\ AccountTypes /\ StageTypes /\ AccountInv /\ DialogInv /\ ModeKept
        /\ RequestsInv /\ ActsAsUser /\ ReceiptsPermitted

----------------------------------------------------------------------------
(* Requests one at a time *)

Acts(r) ==
    /\ r.kind \in {"reply", "report"} => r.sentAs \in {r.user, None}
    /\ r.kind = "callback" => {r.sentAs, r.usedAs} \subseteq {r.bound, None}
    /\ r.kind = "report" /\ r.sentAs # None => r.sentIn = r.madeIn /\ r.allowed
    /\ r.kind \in {"explicit", "report"} /\ r.usedAs # None =>
           r.usedAs = r.user /\ r.usedIn = r.madeIn

Permitted(r) ==
    r.kind \in Receipts /\ r.sentAs # None =>
        /\ r.sentAs = r.user /\ r.allowed
        /\ r.kind # "explicit" => r.sentIn = r.madeIn /\ ~r.quiet

LEMMA OneByOne ==
    /\ ActsAsUser <=> \A i \in Ids : Acts(requests[i])
    /\ ReceiptsPermitted <=> \A i \in Ids : Permitted(requests[i])
BY DEF ActsAsUser, ReceiptsPermitted, Acts, Permitted

LEMMA RequestTypes == ASSUME StageTypes
                      PROVE  /\ Len(requests) \in Nat /\ DOMAIN requests = Ids
                             /\ \A i \in Ids : requests[i] \in Requests
BY LenProperties, ElementOfSeq DEF StageTypes, Ids

----------------------------------------------------------------------------
(* The session that a look at the slot finds: the slot's, or a new one.    *)
LEMMA FoundFacts ==
    ASSUME Assumed, IInv
    PROVE  /\ Found \in Slots(made + 1) /\ Found.owner = owner /\ Found.id \in 1..made + 1
           /\ slot.id # 0 /\ slot.owner = owner => Found = slot
           /\ slot.id = 0 \/ slot.owner # owner => Found.id = made + 1 /\ ~Found.retired
           /\ Found.retired => Found.silent
           /\ ~Found.retired => Found.silent = Silent(owner)
           /\ slot.id \in 0..made
<1>1. /\ made \in Nat /\ slot \in Slots(made) /\ owner \in People /\ Silent(owner) \in BOOLEAN
      /\ slot.id \in 0..made /\ slot.owner \in People /\ slot.silent \in BOOLEAN /\ slot.retired \in BOOLEAN
  BY DEF IInv, AccountTypes, Slots, Silent
<1>2. CASE slot.id # 0 /\ slot.owner = owner
  <2>1. Found = slot
    BY <1>2 DEF Found
  <2>2. slot.retired => slot.silent
    BY DEF IInv, AccountInv
  <2>3. ~slot.retired => slot.silent = Silent(owner)
    BY <1>2 DEF IInv, ModeKept
  <2>4. slot \in Slots(made + 1) /\ slot.id \in 1..made + 1
    BY <1>1, <1>2 DEF Slots
  <2> QED
    BY <1>1, <1>2, <2>1, <2>2, <2>3, <2>4
<1>3. CASE ~(slot.id # 0 /\ slot.owner = owner)
  <2>1. Found = [id |-> made + 1, owner |-> owner, silent |-> Silent(owner), retired |-> FALSE]
    BY <1>3 DEF Found
  <2>2. Found.id = made + 1 /\ Found.owner = owner
    BY <2>1
  <2>3. Found.retired = FALSE /\ Found.silent = Silent(owner)
    BY <2>1, Zenon
  <2>4. made + 1 \in 0..made + 1 /\ made + 1 \in 1..made + 1
    BY <1>1
  <2>5. Found \in Slots(made + 1)
    BY <1>1, <2>1, <2>4, Zenon DEF Slots
  <2> QED
    BY <1>1, <1>3, <2>2, <2>3, <2>4, <2>5
<1> QED
  BY <1>2, <1>3

(* A session in force is the slot's, and so of the login in force.         *)
LEMMA CurrentFacts ==
    ASSUME Assumed, IInv, NEW n \in Nat, IsCurrent(n), n <= made
    PROVE  /\ n # 0 /\ slot.id = n /\ slot.owner = owner /\ owner # None /\ ~slot.retired
           /\ Found = slot /\ slot.silent = Silent(owner)
<1>1. Found.id = n /\ Found.owner # None /\ ~Found.retired
  BY DEF IsCurrent, Usable
<1>2. made \in Nat
  BY DEF IInv, AccountTypes
<1> QED
  BY <1>1, <1>2, FoundFacts

(* A handler looks at the slot, or not at all.                             *)
Glance == Look \/ UNCHANGED <<slot, made>>

LEMMA GlanceKeeps ==
    ASSUME Assumed, IInv, Glance, UNCHANGED <<owner, life, logins, mode>>
    PROVE  /\ made' \in Nat /\ made' >= made /\ slot' \in Slots(made')
           /\ AccountInv' /\ ModeKept' /\ Login' = Login
           /\ \A r \in Requests : Belongs(r, slot, made, owner, Login)
                                      => Belongs(r, slot', made', owner, Login)
           /\ slot'.id # 0 => dialog.session <= slot'.id
           /\ slot'.id # 0 /\ dialog.session = slot'.id => dialog.user = slot'.owner
<1>1. /\ made \in Nat /\ slot \in Slots(made) /\ owner \in People /\ slot.id \in 0..made
      /\ dialog.session \in 0..made
  BY DEF IInv, AccountTypes, Slots, Dialogs
<1>2. Login' = Login
  BY DEF Login
<1>3. CASE UNCHANGED <<slot, made>>
  BY <1>1, <1>2, <1>3 DEF IInv, AccountInv, ModeKept, Silent, DialogInv
<1>4. CASE Look
  <2>1. slot' = Found /\ made' = IF Found.id > made THEN Found.id ELSE made
    BY <1>4 DEF Look, Keep
  <2>2. CASE slot.id # 0 /\ slot.owner = owner
    <3>1. slot' = slot /\ made' = made
      BY <1>1, <2>1, <2>2, FoundFacts
    <3> QED
      BY <1>3, <3>1
  <2>3. CASE slot.id = 0 \/ slot.owner # owner
    <3>1. /\ slot'.id = made + 1 /\ made' = made + 1 /\ slot'.owner = owner
          /\ slot' \in Slots(made + 1) /\ ~slot'.retired
      BY <1>1, <2>1, <2>3, FoundFacts
    <3>2. slot'.silent = Silent(owner)
      BY <2>1, <2>3, FoundFacts
    <3>3. AccountInv'
      BY <1>1, <2>3, <3>1 DEF IInv, AccountInv
    <3>4. ModeKept'
      BY <3>1, <3>2 DEF ModeKept, Silent
    <3>5. ASSUME NEW r \in Requests, Belongs(r, slot, made, owner, Login)
          PROVE  Belongs(r, slot', made', owner, Login)
      BY <1>1, <3>1, <3>5 DEF Belongs, Requests
    <3> QED
      BY <1>1, <1>2, <3>1, <3>3, <3>4, <3>5
  <2> QED
    BY <2>2, <2>3
<1> QED
  BY <1>3, <1>4 DEF Glance

----------------------------------------------------------------------------
(* What a handler may do to the requests: make one, or carry one on.       *)

LEMMA MakeKeeps ==
    ASSUME Assumed, IInv, NEW kind \in Kinds, NEW user \in People, NEW identity \in Nat,
           Make(kind, user, identity), Look, UNCHANGED <<owner, life, logins, mode>>,
           kind \in {"read", "secret", "report"} => identity = Found.id /\ user = owner,
           kind = "explicit" => identity = dialog.session /\ user = dialog.user,
           kind \in Actions => identity = 0
    PROVE  /\ requests' \in Seq(Requests) /\ Len(requests') = Len(requests) + 1
           /\ \A i \in Ids : requests'[i] = requests[i]
           /\ requests'[Len(requests) + 1].kind = kind
           /\ RequestsInv' /\ ActsAsUser' /\ ReceiptsPermitted'
<1> DEFINE q == [kind |-> kind, user |-> user, identity |-> identity, session |-> Found.id,
                 hushed |-> kind # "explicit" /\ Found.silent,
                 state |-> IF kind \in Actions THEN "shown" ELSE "queued", bound |-> None,
                 madeIn |-> Login, quiet |-> Silent(owner), sentIn |-> 0, sentAs |-> None,
                 allowed |-> TRUE, usedIn |-> 0, usedAs |-> None]
<1>1. requests' = Append(requests, q)
  BY DEF Make
<1>2. /\ made \in Nat /\ owner \in People /\ Silent(owner) \in BOOLEAN /\ logins \in Nat /\ Login \in Nat
      /\ Found \in Slots(made + 1) /\ Found.owner = owner /\ Found.id \in 1..made + 1
      /\ Found.id \in Nat /\ Found.silent \in BOOLEAN
  BY FoundFacts DEF IInv, AccountTypes, Silent, Login, Slots, Assumed
<1>3. /\ q.kind = kind /\ q.user = user /\ q.identity = identity /\ q.session = Found.id
      /\ q.madeIn = Login /\ q.sentAs = None /\ q.usedIn = 0 /\ q.usedAs = None /\ q.bound = None
  OBVIOUS
<1>4. q.hushed = (kind # "explicit" /\ Found.silent)
  BY Zenon
<1>5. q.quiet = Silent(owner)
  BY Zenon
<1>6. q \in Requests
  <2>1. (kind # "explicit" /\ Found.silent) \in BOOLEAN
    BY Zenon
  <2>2. (IF kind \in Actions THEN "shown" ELSE "queued")
            \in {"shown", "taken", "global", "ui", "queued", "sent", "failed", "done"}
    OBVIOUS
  <2>3. 0 \in Nat /\ None \in People /\ TRUE \in BOOLEAN
    BY DEF People
  <2> QED
    BY <1>2, <2>1, <2>2, <2>3, Zenon DEF Requests
<1> HIDE DEF q
<1>7. /\ requests' \in Seq(Requests) /\ Len(requests') = Len(requests) + 1
      /\ \A i \in 1..Len(requests) : requests'[i] = requests[i]
      /\ requests'[Len(requests) + 1] = q
  BY <1>1, <1>6, AppendProperties DEF IInv, StageTypes
<1>8. slot' = Found /\ made' = IF Found.id > made THEN Found.id ELSE made
  BY DEF Look, Keep
<1>9. Belongs(q, slot', made', owner, Login)
  <2>1. /\ q.session \in 1..made' /\ slot'.id = q.session /\ slot'.owner = owner
    BY <1>2, <1>3, <1>8
  <2>2. q.identity <= q.session
    BY <1>2, <1>3, <2>1, GlanceKeeps DEF Glance, Kinds, Receipts, Actions
  <2>3. q.kind \in {"read", "secret", "report"} => q.identity = q.session
    BY <1>3
  <2>4. (q.kind \in Actions => q.identity = 0) /\ Fresh(q)
    BY <1>3 DEF Fresh
  <2>5. slot'.id # 0 /\ q.identity = slot'.id => q.user = slot'.owner
    BY <1>2, <1>3, <2>1, GlanceKeeps DEF Glance, Kinds, Receipts, Actions
  <2>6. q.kind \in {"read", "secret"} /\ ~q.hushed => ~q.quiet
    BY <1>3, <1>4, <1>5, FoundFacts
  <2> QED
    BY <1>2, <1>3, <2>1, <2>2, <2>3, <2>4, <2>5, <2>6 DEF Belongs
<1>10. /\ Len(requests) \in Nat
       /\ \A i \in Ids : requests[i] \in Requests
       /\ Ids' = Ids \cup {Len(requests) + 1}
  BY <1>7, RequestTypes DEF IInv, Ids
<1>11. RequestsInv'
  <2>1. \A i \in Ids : Belongs(requests[i], slot', made', owner, Login)
    BY <1>10, GlanceKeeps DEF Glance, IInv, RequestsInv
  <2>2. owner' = owner /\ Login' = Login
    BY DEF Login
  <2> QED
    BY <1>7, <1>9, <1>10, <2>1, <2>2 DEF RequestsInv, Ids
<1>12. Acts(q) /\ Permitted(q)
  BY <1>3 DEF Acts, Permitted
<1>13. \A i \in Ids' : Acts(requests'[i]) /\ Permitted(requests'[i])
  <2>1. \A i \in Ids : Acts(requests[i]) /\ Permitted(requests[i])
    BY OneByOne DEF IInv
  <2> QED
    BY <1>7, <1>10, <1>12, <2>1 DEF Ids
<1>14. ActsAsUser' /\ ReceiptsPermitted'
  BY <1>13 DEF ActsAsUser, ReceiptsPermitted, Acts, Permitted
<1> QED
  BY <1>3, <1>7, <1>11, <1>14 DEF Ids

(* A request is carried on: only what became of it changes.                *)
Same(q, r) ==
    /\ q.kind = r.kind /\ q.user = r.user /\ q.identity = r.identity /\ q.session = r.session
    /\ q.madeIn = r.madeIn /\ q.hushed = r.hushed /\ q.quiet = r.quiet

LEMMA CarryKeeps ==
    ASSUME Assumed, IInv, NEW id \in Ids, NEW q \in Requests,
           requests' = [requests EXCEPT ![id] = q], Same(q, requests[id]), Acts(q), Permitted(q), Fresh(q),
           Glance, UNCHANGED <<owner, life, logins, mode>>
    PROVE  /\ requests' \in Seq(Requests) /\ Ids' = Ids
           /\ \A i \in Ids : requests'[i].kind = requests[i].kind
           /\ RequestsInv' /\ ActsAsUser' /\ ReceiptsPermitted'
<1>1. /\ Len(requests) \in Nat /\ DOMAIN requests = Ids /\ requests \in Seq(Requests)
      /\ \A i \in Ids : requests[i] \in Requests
  BY RequestTypes DEF IInv, StageTypes
<1>2. /\ requests' \in Seq(Requests) /\ Len(requests') = Len(requests)
      /\ \A i \in Ids : requests'[i] = IF i = id THEN q ELSE requests[i]
  BY <1>1, ExceptSeq DEF Ids
<1>3. Ids' = Ids
  BY <1>2 DEF Ids
<1>4. \A i \in Ids : Belongs(requests[i], slot', made', owner, Login)
  BY <1>1, GlanceKeeps DEF IInv, RequestsInv
<1>5. Belongs(q, slot', made', owner, Login)
  BY <1>4 DEF Belongs, Same
<1>6. owner' = owner /\ Login' = Login
  BY DEF Login
<1>7. RequestsInv'
  BY <1>2, <1>3, <1>4, <1>5, <1>6 DEF RequestsInv
<1>8. \A i \in Ids : Acts(requests[i]) /\ Permitted(requests[i])
  BY OneByOne DEF IInv
<1>9. \A i \in Ids' : Acts(requests'[i]) /\ Permitted(requests'[i])
  BY <1>2, <1>3, <1>8
<1>10. ActsAsUser' /\ ReceiptsPermitted'
  BY <1>9 DEF ActsAsUser, ReceiptsPermitted, Acts, Permitted
<1> QED
  BY <1>2, <1>3, <1>7, <1>10 DEF Same

----------------------------------------------------------------------------
(* The queue keeps naming requests that exist.                             *)

LEMMA PostKeeps ==
    ASSUME StageTypes, NEW id \in Nat, NEW what \in {"gate", "fail"}, Post(id, what),
           requests' \in Seq(Requests), Len(requests') >= Len(requests), id \in Ids',
           \A i \in Ids : requests'[i].kind = requests[i].kind, requests'[id].kind \notin Actions
    PROVE  StageTypes'
<1> DEFINE e == [id |-> id, what |-> what]
<1>1. e \in [id : Nat, what : {"gate", "fail"}] /\ e.id = id
  OBVIOUS
<1> HIDE DEF e
<1>2. stage' = Append(stage, e)
  BY DEF Post, e
<1>3. /\ stage' \in Seq([id : Nat, what : {"gate", "fail"}]) /\ Len(stage') = Len(stage) + 1
      /\ Len(stage) \in Nat /\ DOMAIN stage = 1..Len(stage) /\ DOMAIN stage' = 1..Len(stage')
      /\ \A i \in 1..Len(stage) : stage'[i] = stage[i]
      /\ stage'[Len(stage) + 1] = e
  BY <1>1, <1>2, AppendProperties, LenProperties DEF StageTypes
<1>4. Len(requests) \in Nat /\ Len(requests') \in Nat
  BY LenProperties DEF StageTypes
<1>5. Ids \subseteq Ids'
  BY <1>4 DEF Ids
<1>6. ASSUME NEW i \in DOMAIN stage'
      PROVE  stage'[i].id \in Ids' /\ requests'[stage'[i].id].kind \notin Actions
  <2>1. CASE i \in 1..Len(stage)
    BY <1>3, <1>5, <2>1 DEF StageTypes
  <2>2. CASE i = Len(stage) + 1
    BY <1>1, <1>3, <2>2
  <2> QED
    BY <1>3, <2>1, <2>2
<1> QED
  BY <1>3, <1>6 DEF StageTypes

LEMMA TailKeeps ==
    ASSUME StageTypes, stage # <<>>, requests' \in Seq(Requests), Ids' = Ids, stage' = Tail(stage),
           \A i \in Ids : requests'[i].kind = requests[i].kind
    PROVE  StageTypes'
<1>1. /\ stage' \in Seq([id : Nat, what : {"gate", "fail"}]) /\ Len(stage') = Len(stage) - 1
      /\ Len(stage) \in Nat /\ DOMAIN stage = 1..Len(stage) /\ DOMAIN stage' = 1..Len(stage')
      /\ \A i \in 1..Len(stage') : stage'[i] = stage[i + 1]
  BY HeadTailProperties, LenProperties DEF StageTypes
<1>2. ASSUME NEW i \in DOMAIN stage'
      PROVE  stage'[i].id \in Ids' /\ requests'[stage'[i].id].kind \notin Actions
  <2>1. stage'[i] = stage[i + 1] /\ i + 1 \in DOMAIN stage
    BY <1>1
  <2>2. stage[i + 1].id \in Ids /\ requests[stage[i + 1].id].kind \notin Actions
    BY <2>1 DEF StageTypes
  <2> QED
    BY <2>1, <2>2
<1> QED
  BY <1>1, <1>2 DEF StageTypes

LEMMA HeadNames == ASSUME StageTypes, stage # <<>>
                   PROVE  /\ Head(stage).id \in Ids /\ Head(stage).what \in {"gate", "fail"}
                          /\ requests[Head(stage).id].kind \notin Actions
                          /\ Ids \subseteq Nat /\ Len(stage) \in Nat \ {0}
<1>1. Len(stage) \in Nat \ {0} /\ DOMAIN stage = 1..Len(stage)
  BY LenProperties, EmptySeq DEF StageTypes
<1>4. Head(stage) \in [id : Nat, what : {"gate", "fail"}]
  BY HeadTailProperties DEF StageTypes
<1>5. Head(stage) = stage[1]
  BY <1>1
<1>2. 1 \in DOMAIN stage
  BY <1>1
<1>3. Ids \subseteq Nat
  BY LenProperties DEF StageTypes, Ids
<1> QED
  BY <1>1, <1>2, <1>3, <1>4, <1>5 DEF StageTypes

(* What is left to show of a handler that looks at the slot or does not.   *)
LEMMA GlanceStep ==
    ASSUME Assumed, IInv, Glance, UNCHANGED <<owner, life, logins, mode>>,
           reporting' \in [Users -> BOOLEAN],
           dialog' \in Dialogs(made'), DialogInv',
           StageTypes', RequestsInv', ActsAsUser', ReceiptsPermitted'
    PROVE  IInv'
<1>1. /\ owner' \in People /\ logins' \in 0..MaxLogins /\ life' \in {"out", "arriving", "in", "leaving"}
      /\ mode' \in [Users -> BOOLEAN] /\ made' \in Nat /\ slot' \in Slots(made')
  BY GlanceKeeps DEF IInv, AccountTypes
<1>2. AccountTypes'
  BY <1>1 DEF AccountTypes
<1> QED
  BY <1>2, GlanceKeeps DEF IInv

LEMMA DialogKeeps ==
    ASSUME Assumed, IInv, Glance, UNCHANGED <<owner, life, logins, mode>>,
           \/ dialog' = dialog
           \/ dialog' = NoDialog
           \/ \E doing \in {"toggle", "read"} : dialog' = [dialog EXCEPT !.doing = doing]
    PROVE  dialog' \in Dialogs(made') /\ DialogInv'
<1>1. /\ made \in Nat /\ made' \in Nat /\ made' >= made /\ slot' \in Slots(made') /\ slot'.id \in Nat
      /\ dialog \in Dialogs(made)
      /\ slot'.id # 0 => dialog.session <= slot'.id
      /\ slot'.id # 0 /\ dialog.session = slot'.id => dialog.user = slot'.owner
  BY GlanceKeeps DEF IInv, AccountTypes, Slots
<1>2. CASE dialog' = dialog
  BY <1>1, <1>2 DEF Dialogs, DialogInv
<1>3. CASE dialog' = NoDialog
  <2>1. dialog'.session = 0
    BY <1>3 DEF NoDialog
  <2>2. 0 \in 0..made' /\ None \in People
    BY <1>1 DEF People
  <2>3. dialog' \in Dialogs(made')
    BY <1>3, <2>2 DEF NoDialog, Dialogs
  <2> QED
    BY <1>1, <2>1, <2>3 DEF DialogInv
<1>4. CASE \E doing \in {"toggle", "read"} : dialog' = [dialog EXCEPT !.doing = doing]
  <2>1. PICK doing \in {"toggle", "read"} : dialog' = [dialog EXCEPT !.doing = doing]
    BY <1>4
  <2>2. dialog.session \in 0..made'
    BY <1>1 DEF Dialogs
  <2>3. dialog' \in Dialogs(made') /\ dialog'.session = dialog.session /\ dialog'.user = dialog.user
    BY <1>1, <2>1, <2>2 DEF Dialogs
  <2> QED
    BY <1>1, <2>3 DEF DialogInv
<1> QED
  BY <1>2, <1>3, <1>4

(* The requests and the queue are left alone.                              *)
LEMMA StillKeeps ==
    ASSUME Assumed, IInv, Glance, UNCHANGED <<owner, life, logins, mode, requests, stage>>
    PROVE  StageTypes' /\ RequestsInv' /\ ActsAsUser' /\ ReceiptsPermitted'
<1>1. Ids' = Ids /\ owner' = owner /\ Login' = Login
  BY DEF Ids, Login
<1>2. RequestsInv'
  BY <1>1, GlanceKeeps, RequestTypes DEF IInv, RequestsInv
<1>3. StageTypes' /\ ActsAsUser' /\ ReceiptsPermitted'
  BY <1>1 DEF IInv, StageTypes, ActsAsUser, ReceiptsPermitted
<1> QED
  BY <1>2, <1>3

----------------------------------------------------------------------------
(* Handlers that make requests *)

LEMMA MadeStep ==
    ASSUME Assumed, IInv, NEW kind \in Kinds, NEW user \in People, NEW identity \in Nat,
           Make(kind, user, identity), Look, UNCHANGED <<owner, life, logins, mode>>,
           kind \in {"read", "secret", "report"} => identity = Found.id /\ user = owner,
           kind = "explicit" => identity = dialog.session /\ user = dialog.user,
           kind \in Actions => identity = 0,
           (Post(Len(requests) + 1, "gate") /\ kind \notin Actions) \/ UNCHANGED stage,
           reporting' = reporting, dialog' = dialog \/ dialog' = NoDialog
    PROVE  IInv'
<1>1. /\ requests' \in Seq(Requests) /\ Len(requests') = Len(requests) + 1
      /\ \A i \in Ids : requests'[i] = requests[i]
      /\ requests'[Len(requests) + 1].kind = kind
      /\ RequestsInv' /\ ActsAsUser' /\ ReceiptsPermitted'
  BY MakeKeeps
<1>2. Len(requests) \in Nat
  BY RequestTypes DEF IInv
<1>3. Len(requests) + 1 \in Nat /\ Len(requests) + 1 \in Ids' /\ Len(requests') >= Len(requests)
      /\ Ids \subseteq Ids'
  BY <1>1, <1>2 DEF Ids
<1>4. StageTypes'
  <2>1. CASE Post(Len(requests) + 1, "gate") /\ kind \notin Actions
    BY <1>1, <1>3, <2>1, PostKeeps DEF IInv
  <2>2. CASE UNCHANGED stage
    BY <1>1, <1>3, <2>2 DEF IInv, StageTypes
  <2> QED
    BY <2>1, <2>2
<1>5. dialog' \in Dialogs(made') /\ DialogInv'
  BY DialogKeeps DEF Glance
<1> QED
  BY <1>1, <1>4, <1>5, GlanceStep DEF Glance, IInv, AccountTypes

LEMMA MakersKeep ==
    ASSUME Assumed, IInv,
           \/ SendReceipt("read") \/ SendReceipt("secret") \/ Report \/ SendExplicit
           \/ \E kind \in Actions : Notify(kind)
    PROVE  IInv'
<1>1. /\ Found.id \in Nat /\ owner \in People
      /\ dialog.session \in Nat /\ dialog.user \in People
  BY FoundFacts DEF IInv, AccountTypes, Dialogs
<1>2. ASSUME NEW kind \in {"read", "secret"}, SendReceipt(kind) PROVE IInv'
  BY <1>1, <1>2, MadeStep DEF SendReceipt, Kinds, Receipts, Actions
<1>3. CASE Report
  BY <1>1, <1>3, MadeStep DEF Report, Kinds, Receipts, Actions
<1>4. ASSUME NEW kind \in Actions, Notify(kind) PROVE IInv'
  <2>1. kind \in Kinds /\ kind \notin {"read", "secret", "report", "explicit"}
    BY DEF Kinds, Actions
  <2> QED
    BY <1>1, <1>4, <2>1, MadeStep DEF Notify
<1>5. CASE SendExplicit
  BY <1>1, <1>5, MadeStep DEF SendExplicit, Kinds, Receipts, Actions
<1> QED
  BY <1>2, <1>3, <1>4, <1>5

----------------------------------------------------------------------------
(* The settings and the dialog *)

LEMMA ShowKeeps == ASSUME Assumed, IInv, Show PROVE IInv'
<1>1. /\ Glance /\ UNCHANGED <<owner, life, logins, mode, requests, stage>>
      /\ reporting' \in [Users -> BOOLEAN]
  BY DEF Show, Glance, IInv, AccountTypes
<1>2. slot' = Found /\ made' = IF Found.id > made THEN Found.id ELSE made
  BY DEF Show, Look, Keep
<1>3. /\ made \in Nat /\ owner \in People /\ Found.id \in 1..made + 1 /\ Found.owner = owner
      /\ Found.silent \in BOOLEAN
  BY FoundFacts DEF IInv, AccountTypes, Slots
<1>4. dialog' = [session |-> Found.id, user |-> owner, silent |-> Found.silent, doing |-> "open"]
  BY DEF Show
<1>5. Found.id \in 0..made'
  BY <1>2, <1>3
<1>6. dialog' \in Dialogs(made')
  BY <1>3, <1>4, <1>5, Zenon DEF Dialogs
<1>7. dialog'.session = Found.id /\ dialog'.user = owner
  BY <1>4
<1>8. DialogInv'
  BY <1>2, <1>3, <1>7 DEF DialogInv
<1> QED
  BY <1>1, <1>6, <1>8, StillKeeps, GlanceStep

LEMMA SettingsKeep ==
    ASSUME Assumed, IInv, SetReporting \/ CloseAll \/ Confirm("toggle") \/ Confirm("read")
    PROVE  IInv'
<1>1. CASE SetReporting
  <2>1. Glance /\ UNCHANGED <<owner, life, logins, mode, requests, stage, dialog>>
    BY <1>1 DEF SetReporting, Glance
  <2>2. reporting' \in [Users -> BOOLEAN]
    BY <1>1 DEF SetReporting, IInv, AccountTypes
  <2> QED
    BY <2>1, <2>2, DialogKeeps, StillKeeps, GlanceStep
<1>2. CASE CloseAll
  <2>1. /\ Glance /\ UNCHANGED <<owner, life, logins, mode, requests, stage>> /\ dialog' = NoDialog
        /\ reporting' \in [Users -> BOOLEAN]
    BY <1>2 DEF CloseAll, Glance, IInv, AccountTypes
  <2> QED
    BY <2>1, DialogKeeps, StillKeeps, GlanceStep
<1>3. ASSUME NEW what \in {"toggle", "read"}, Confirm(what) PROVE IInv'
  <2>1. /\ Glance /\ UNCHANGED <<owner, life, logins, mode, requests, stage>>
        /\ dialog' = dialog \/ dialog' = [dialog EXCEPT !.doing = what]
        /\ reporting' \in [Users -> BOOLEAN]
    BY <1>3 DEF Confirm, Glance, IInv, AccountTypes
  <2> QED
    BY <2>1, DialogKeeps, StillKeeps, GlanceStep
<1> QED
  BY <1>1, <1>2, <1>3

----------------------------------------------------------------------------
(* Handlers that change the session they find, or drop it *)

(* A request still belongs if the session that was found stays in force,   *)
(* and whatever the login becomes if it is retired.                        *)
LEMMA SlotMoves ==
    ASSUME Assumed, IInv, NEW s, NEW l, s.id = Found.id, s.owner = owner,
           s.retired \/ (s.retired = Found.retired /\ l = Login)
    PROVE  /\ \A r \in Requests : Belongs(r, slot, made, owner, Login) =>
                  Belongs(r, s, IF Found.id > made THEN Found.id ELSE made, owner, l)
           /\ dialog.session <= s.id
           /\ dialog.session = s.id => dialog.user = s.owner
<1>1. /\ made \in Nat /\ slot \in Slots(made) /\ slot.id \in 0..made /\ dialog.session \in 0..made
      /\ Found.id \in 1..made + 1
  BY FoundFacts DEF IInv, AccountTypes, Slots, Dialogs
<1>2. CASE slot.id # 0 /\ slot.owner = owner
  <2>1. Found = slot
    BY <1>2, FoundFacts
  <2>2. ASSUME NEW r \in Requests, Belongs(r, slot, made, owner, Login)
        PROVE  Belongs(r, s, IF Found.id > made THEN Found.id ELSE made, owner, l)
    BY <1>1, <1>2, <2>1, <2>2 DEF Belongs
  <2>3. dialog.session <= s.id /\ (dialog.session = s.id => dialog.user = s.owner)
    BY <1>2, <2>1 DEF IInv, DialogInv
  <2> QED
    BY <2>2, <2>3
<1>3. CASE slot.id = 0 \/ slot.owner # owner
  <2>1. Found.id = made + 1
    BY <1>3, FoundFacts
  <2>2. ASSUME NEW r \in Requests, Belongs(r, slot, made, owner, Login)
        PROVE  Belongs(r, s, IF Found.id > made THEN Found.id ELSE made, owner, l)
    BY <1>1, <2>1, <2>2 DEF Belongs, Requests
  <2>3. dialog.session <= s.id /\ dialog.session # s.id
    BY <1>1, <2>1
  <2> QED
    BY <2>2, <2>3
<1> QED
  BY <1>2, <1>3

LEMMA SetSilentKeeps == ASSUME Assumed, IInv, SetSilent PROVE IInv'
<1>1. CASE ~(Usable /\ dialog.user = Found.owner)
  <2>1. /\ Glance /\ UNCHANGED <<owner, life, logins, mode, requests, stage>> /\ dialog' = NoDialog
        /\ reporting' \in [Users -> BOOLEAN]
    BY <1>1 DEF SetSilent, Glance, IInv, AccountTypes
  <2> QED
    BY <2>1, DialogKeeps, StillKeeps, GlanceStep
<1>2. CASE Usable /\ dialog.user = Found.owner
  <2>1. /\ UNCHANGED <<owner, life, logins, reporting, requests, stage>> /\ dialog' = NoDialog
        /\ mode' = [mode EXCEPT ![dialog.user] = ~dialog.silent]
        /\ slot' = [Found EXCEPT !.silent = ~dialog.silent]
        /\ made' = IF Found.id > made THEN Found.id ELSE made
    BY <1>2 DEF SetSilent, Keep
  <2>2. /\ made \in Nat /\ Found \in Slots(made + 1) /\ Found.id \in 1..made + 1 /\ ~Found.retired
        /\ Found.owner = owner /\ owner \in Users /\ dialog.user = owner
        /\ dialog.silent \in BOOLEAN /\ mode \in [Users -> BOOLEAN]
    BY <1>2, FoundFacts DEF Usable, IInv, AccountTypes, Dialogs, People
  <2>3. slot'.id = Found.id /\ slot'.owner = owner /\ slot'.retired = Found.retired
    BY <2>1, <2>2 DEF Slots
  <2>4. slot'.silent = (~dialog.silent) /\ mode'[owner] = (~dialog.silent)
    BY <2>1, <2>2, Zenon DEF Slots
  <2>5. made' \in Nat /\ made' >= made /\ Found.id \in 0..made'
    BY <2>1, <2>2
  <2>6. slot' \in Slots(made')
    BY <2>1, <2>2, <2>5 DEF Slots
  <2>7. mode' \in [Users -> BOOLEAN]
    BY <2>1, <2>2
  <2>8. dialog' \in Dialogs(made') /\ dialog'.session = 0
    BY <2>1, <2>5 DEF Dialogs, NoDialog, People
  <2>9. Ids' = Ids /\ Login' = Login
    BY <2>1 DEF Ids, Login
  <2>10. AccountTypes' /\ StageTypes'
    BY <2>1, <2>5, <2>6, <2>7, <2>8, <2>9 DEF IInv, AccountTypes, StageTypes
  <2>11. AccountInv'
    <3>1. life # "leaving" /\ life # "out"
      BY <2>2, FoundFacts DEF IInv, AccountInv, Assumed
    <3> QED
      BY <2>1, <2>2, <2>3, <3>1 DEF IInv, AccountInv
  <2>12. DialogInv'
    BY <2>2, <2>3, <2>8 DEF DialogInv
  <2>13. ModeKept'
    <3>1. owner # None
      BY <2>2 DEF Assumed
    <3> QED
      BY <2>3, <2>4, <3>1 DEF ModeKept, Silent
  <2>14. RequestsInv'
    <3>1. \A r \in Requests : Belongs(r, slot, made, owner, Login)
                                  => Belongs(r, slot', made', owner, Login)
      BY <2>1, <2>3, SlotMoves
    <3> QED
      BY <2>1, <2>9, <3>1, RequestTypes DEF IInv, RequestsInv
  <2>15. ActsAsUser' /\ ReceiptsPermitted'
    BY <2>1, <2>9 DEF IInv, ActsAsUser, ReceiptsPermitted
  <2> QED
    BY <2>10, <2>11, <2>12, <2>13, <2>14, <2>15 DEF IInv
<1> QED
  BY <1>1, <1>2

----------------------------------------------------------------------------
(* The queue, the answers and the hops *)

(* What the gate lets through may leave, and leaves as its user.           *)
LEMMA SentHonestly ==
    ASSUME Assumed, IInv, NEW id \in Ids, requests[id].kind \notin Actions, Passes(requests[id])
    PROVE  /\ Sent(requests[id]) \in Requests /\ Same(Sent(requests[id]), requests[id])
           /\ Acts(Sent(requests[id])) /\ Permitted(Sent(requests[id])) /\ Fresh(Sent(requests[id]))
<1> DEFINE r == requests[id]
           a == IF r.kind = "report" THEN reporting[owner] ELSE r.kind = "explicit" \/ ~Silent(owner)
           q == [r EXCEPT !.state = "sent", !.sentIn = Login, !.sentAs = owner, !.allowed = a]
<1>1. /\ r \in Requests /\ Belongs(r, slot, made, owner, Login) /\ Acts(r) /\ Permitted(r)
      /\ owner \in People /\ Login \in Nat /\ made \in Nat
  BY RequestTypes, OneByOne DEF IInv, RequestsInv, AccountTypes, Login, Assumed
<1>2. /\ r.kind \in {"read", "secret", "explicit", "report"} /\ r.session \in 1..made
      /\ r.identity \in Nat /\ r.session \in Nat
      /\ r.session <= made /\ r.identity <= made
  BY <1>1 DEF Requests, Belongs, Kinds, Receipts, Actions
<1>3. /\ a = TRUE
      /\ owner = r.user
      /\ r.kind \in {"read", "secret", "report"} => r.madeIn = Login
      /\ r.kind \in {"read", "secret"} => ~r.quiet
  <2>1. CASE r.kind \in {"read", "secret"}
    <3>1. IsCurrent(r.session) /\ ~r.hushed /\ ~Found.silent
      BY <2>1 DEF Passes, Consume
    <3>2. /\ slot.id = r.session /\ slot.owner = owner /\ owner # None /\ ~slot.retired
          /\ slot.id # 0 /\ Found = slot /\ slot.silent = Silent(owner)
      BY <1>2, <3>1, CurrentFacts
    <3>3. r.identity = r.session /\ r.user = owner /\ r.madeIn = Login /\ ~r.quiet
      BY <1>1, <2>1, <3>1, <3>2 DEF Belongs
    <3>4. a = TRUE
      BY <2>1, <3>1, <3>2
    <3> QED
      BY <2>1, <3>3, <3>4
  <2>2. CASE r.kind = "explicit"
    <3>1. owner = r.user
      BY <2>2 DEF Passes
    <3> QED
      BY <2>2, <3>1
  <2>3. CASE r.kind = "report"
    <3>1. IsCurrent(r.identity) /\ owner = r.user /\ reporting[r.user]
      BY <2>3 DEF Passes, Allowed
    <3>2. /\ slot.id = r.identity /\ slot.owner = owner /\ owner # None /\ ~slot.retired /\ slot.id # 0
      BY <1>2, <3>1, CurrentFacts
    <3>3. r.madeIn = Login
      BY <1>1, <2>3, <3>2 DEF Belongs
    <3>4. reporting[owner] \in BOOLEAN
      BY <1>1, <3>2 DEF IInv, AccountTypes, People
    <3> QED
      BY <2>3, <3>1, <3>3, <3>4
  <2> QED
    BY <1>2, <2>1, <2>2, <2>3
<1>4. Sent(r) = q
  BY DEF Sent
<1> HIDE DEF a
<1>5. q \in Requests
  BY <1>1, <1>3 DEF Requests
<1>6. /\ q.kind = r.kind /\ q.user = r.user /\ q.identity = r.identity /\ q.session = r.session
      /\ q.madeIn = r.madeIn /\ q.sentIn = Login /\ q.sentAs = owner
      /\ q.usedIn = r.usedIn /\ q.usedAs = r.usedAs
  BY <1>1 DEF Requests
<1>7. q.hushed = r.hushed /\ q.quiet = r.quiet /\ q.allowed = TRUE
  BY <1>1, <1>3 DEF Requests
<1> HIDE DEF q, r
<1>8. Same(q, r)
  BY <1>6, <1>7 DEF Same
<1>9. Acts(q) /\ Fresh(q)
  BY <1>1, <1>2, <1>3, <1>6, <1>7 DEF Acts, Fresh
<1>10. Permitted(q)
  BY <1>2, <1>3, <1>6, <1>7 DEF Permitted, Receipts
<1> QED
  BY <1>4, <1>5, <1>8, <1>9, <1>10 DEF r

(* A checked answer is used in the login and by the user it was asked for. *)
LEMMA UsedHonestly ==
    ASSUME Assumed, IInv, NEW id \in Ids,
           \/ requests[id].kind \in {"explicit", "report"} /\ IsCurrent(requests[id].identity)
           \/ requests[id].kind \in {"read", "secret"}
           \/ requests[id].kind = "callback" /\ owner = requests[id].bound
    PROVE  /\ Used(requests[id]) \in Requests /\ Same(Used(requests[id]), requests[id])
           /\ Acts(Used(requests[id])) /\ Permitted(Used(requests[id])) /\ Fresh(Used(requests[id]))
<1> DEFINE r == requests[id]
           q == [r EXCEPT !.state = "done", !.usedIn = Login, !.usedAs = owner]
<1>1. /\ r \in Requests /\ Belongs(r, slot, made, owner, Login) /\ Acts(r) /\ Permitted(r)
      /\ owner \in People /\ Login \in Nat /\ made \in Nat
  BY RequestTypes, OneByOne DEF IInv, RequestsInv, AccountTypes, Login, Assumed
<1>2. r.kind \in {"explicit", "report"} => owner = r.user /\ r.madeIn = Login
  <2>1. CASE r.kind \in {"explicit", "report"} /\ IsCurrent(r.identity)
    <3>1. /\ r.identity \in Nat /\ r.session \in 1..made /\ r.identity <= r.session
      BY <1>1 DEF Requests, Belongs
    <3>2. r.identity <= made
      BY <1>1, <3>1
    <3>3. /\ slot.id = r.identity /\ slot.owner = owner /\ owner # None /\ ~slot.retired /\ slot.id # 0
      BY <2>1, <3>1, <3>2, CurrentFacts
    <3>4. r.session <= slot.id
      BY <1>1, <3>3 DEF Belongs
    <3>5. r.session = slot.id
      BY <3>1, <3>3, <3>4
    <3> QED
      BY <1>1, <3>3, <3>5 DEF Belongs
  <2> QED
    BY <2>1
<1>3. Used(r) = q
  BY DEF Used
<1>4. q \in Requests
  BY <1>1 DEF Requests
<1>5. /\ q.kind = r.kind /\ q.user = r.user /\ q.identity = r.identity /\ q.session = r.session
      /\ q.madeIn = r.madeIn /\ q.sentIn = r.sentIn /\ q.sentAs = r.sentAs /\ q.bound = r.bound
      /\ q.usedIn = Login /\ q.usedAs = owner /\ q.state = "done"
  BY <1>1 DEF Requests
<1>6. q.hushed = r.hushed /\ q.quiet = r.quiet /\ q.allowed = r.allowed
  BY <1>1 DEF Requests
<1>7. r.kind = "callback" => owner = r.bound
  OBVIOUS
<1>8. Fresh(r)
  BY <1>1 DEF Belongs
<1> HIDE DEF q, r
<1>9. Same(q, r) /\ Fresh(q)
  BY <1>5, <1>6, <1>8 DEF Same, Fresh
<1>10. Acts(q)
  BY <1>1, <1>2, <1>5, <1>6, <1>7 DEF Acts
<1>11. Permitted(q)
  BY <1>1, <1>5, <1>6 DEF Permitted
<1> QED
  BY <1>3, <1>4, <1>9, <1>10, <1>11 DEF r

(* A request that fails, ends, moves on or is bound does nothing.          *)
LEMMA MovedHonestly ==
    ASSUME Assumed, IInv, NEW id \in Ids, NEW state \in {"taken", "global", "ui", "failed", "done"},
           NEW bound \in People, NEW q,
           \/ q = [requests[id] EXCEPT !.state = state]
           \/ /\ q = [requests[id] EXCEPT !.state = state, !.bound = bound]
              /\ requests[id].state \in {"shown", "taken"}
              /\ requests[id].kind = "reply" => bound = requests[id].user,
           state = "taken" => requests[id].state = "shown"
    PROVE  q \in Requests /\ Same(q, requests[id]) /\ Acts(q) /\ Permitted(q) /\ Fresh(q)
<1> DEFINE r == requests[id]
<1>1. r \in Requests /\ Acts(r) /\ Permitted(r) /\ Fresh(r)
  BY RequestTypes, OneByOne DEF IInv, RequestsInv, Belongs
<1>2. q \in Requests
  BY <1>1 DEF Requests
<1>3. /\ q.kind = r.kind /\ q.user = r.user /\ q.identity = r.identity /\ q.session = r.session
      /\ q.madeIn = r.madeIn /\ q.sentIn = r.sentIn /\ q.sentAs = r.sentAs
      /\ q.usedIn = r.usedIn /\ q.usedAs = r.usedAs /\ q.state = state
  BY <1>1 DEF Requests
<1>4. q.hushed = r.hushed /\ q.quiet = r.quiet /\ q.allowed = r.allowed
  BY <1>1 DEF Requests
<1>5. \/ q.bound = r.bound
      \/ r.state \in {"shown", "taken"} /\ (r.kind = "reply" => q.bound = r.user)
  BY <1>1 DEF Requests
<1>6. Fresh(q)
  BY <1>1, <1>3, <1>5 DEF Fresh
<1>7. Acts(q)
  BY <1>1, <1>3, <1>4, <1>5 DEF Acts, Fresh
<1> QED
  BY <1>1, <1>2, <1>3, <1>4, <1>6, <1>7 DEF Same, Permitted

(* A local completion is queued behind what waits already.                 *)
LEMMA RequeueKeeps ==
    ASSUME StageTypes, stage # <<>>, UNCHANGED requests,
           stage' = Append(Tail(stage), [id |-> Head(stage).id, what |-> "fail"])
    PROVE  StageTypes'
<1> DEFINE Staged == [id : Nat, what : {"gate", "fail"}]
           e      == [id |-> Head(stage).id, what |-> "fail"]
           rest   == Tail(stage)
<1>1. /\ rest \in Seq(Staged) /\ Len(rest) = Len(stage) - 1
      /\ \A i \in 1..Len(rest) : rest[i] = stage[i + 1]
  BY HeadTailProperties DEF StageTypes
<1>2. Len(stage) \in Nat \ {0} /\ DOMAIN stage = 1..Len(stage)
  BY LenProperties, HeadNames DEF StageTypes
<1>3. e \in Staged /\ e.id \in Ids /\ requests[e.id].kind \notin Actions
  BY HeadNames
<1> HIDE DEF e, rest, Staged
<1>4. stage' = Append(rest, e)
  BY DEF e, rest
<1>5. Len(rest) \in Nat
  BY <1>1, LenProperties
<1>6. /\ stage' \in Seq(Staged) /\ Len(stage') = Len(rest) + 1
      /\ \A i \in 1..Len(rest) : stage'[i] = rest[i]
      /\ stage'[Len(rest) + 1] = e
  <2> DEFINE t == Append(rest, e)
  <2>1. /\ t \in Seq(Staged) /\ Len(t) = Len(rest) + 1
        /\ \A i \in 1..Len(rest) : t[i] = rest[i]
        /\ t[Len(rest) + 1] = e
    BY <1>1, <1>3, AppendProperties
  <2> HIDE DEF t
  <2>2. stage' = t
    BY <1>4 DEF t
  <2> QED
    BY <2>1, <2>2
<1>7. DOMAIN stage' = 1..Len(stage')
  BY <1>6, LenProperties
<1>8. ASSUME NEW i \in DOMAIN stage'
      PROVE  stage'[i].id \in Ids /\ requests[stage'[i].id].kind \notin Actions
  <2>1. CASE i \in 1..Len(rest)
    <3>1. stage'[i] = stage[i + 1] /\ i + 1 \in DOMAIN stage
      BY <1>1, <1>2, <1>6, <2>1
    <3>2. stage[i + 1].id \in Ids /\ requests[stage[i + 1].id].kind \notin Actions
      BY <3>1 DEF StageTypes
    <3> QED
      BY <3>1, <3>2
  <2>2. CASE i = Len(rest) + 1
    BY <1>3, <1>6, <2>2
  <2> QED
    BY <1>5, <1>6, <1>7, <2>1, <2>2
<1>9. requests' \in Seq(Requests) /\ Ids' = Ids
  BY DEF StageTypes, Ids
<1>10. stage' \in Seq([id : Nat, what : {"gate", "fail"}])
  BY <1>6 DEF Staged
<1> QED
  BY <1>8, <1>9, <1>10 DEF StageTypes

LEMMA CarriedStep ==
    ASSUME Assumed, IInv, NEW id \in Ids, NEW q \in Requests,
           requests' = [requests EXCEPT ![id] = q],
           Same(q, requests[id]), Acts(q), Permitted(q), Fresh(q),
           Glance, UNCHANGED <<owner, life, logins, mode, reporting, dialog>>,
           UNCHANGED stage \/ (stage # <<>> /\ stage' = Tail(stage))
    PROVE  IInv'
<1>1. /\ requests' \in Seq(Requests) /\ Ids' = Ids
      /\ \A i \in Ids : requests'[i].kind = requests[i].kind
      /\ RequestsInv' /\ ActsAsUser' /\ ReceiptsPermitted'
  BY CarryKeeps
<1>2. StageTypes'
  <2>1. CASE UNCHANGED stage
    BY <1>1, <2>1 DEF IInv, StageTypes
  <2>2. CASE stage # <<>> /\ stage' = Tail(stage)
    BY <1>1, <2>2, TailKeeps DEF IInv
  <2> QED
    BY <2>1, <2>2
<1> QED
  BY <1>1, <1>2, DialogKeeps, GlanceStep DEF IInv, AccountTypes

LEMMA GateKeeps == ASSUME Assumed, IInv, Gate PROVE IInv'
<1> DEFINE id == Head(stage).id
           r  == requests[id]
           q  == [r EXCEPT !.state = "failed"]
<1>1. /\ stage # <<>> /\ Glance
      /\ UNCHANGED <<owner, life, logins, mode, reporting, dialog>>
  BY DEF Gate, Glance
<1>2. id \in Ids /\ r.kind \notin Actions
  BY <1>1, HeadNames DEF IInv
<1>3. CASE Passes(r)
  <2>1. requests' = [requests EXCEPT ![id] = Sent(r)] /\ stage' = Tail(stage)
    BY <1>3 DEF Gate
  <2> QED
    BY <1>1, <1>2, <1>3, <2>1, SentHonestly, CarriedStep
<1>4. CASE ~Passes(r) /\ (r.kind = "secret" \/ (r.kind = "explicit" /\ owner # r.user))
  <2>1. requests' = [requests EXCEPT ![id] = q] /\ stage' = Tail(stage)
    BY <1>4 DEF Gate
  <2>2. q \in Requests /\ Same(q, r) /\ Acts(q) /\ Permitted(q) /\ Fresh(q)
    BY <1>2, MovedHonestly DEF People
  <2> HIDE DEF q
  <2> QED
    BY <1>1, <1>2, <2>1, <2>2, CarriedStep
<1>5. CASE ~Passes(r) /\ ~(r.kind = "secret" \/ (r.kind = "explicit" /\ owner # r.user))
  <2>1. stage' = Append(Tail(stage), [id |-> id, what |-> "fail"]) /\ UNCHANGED requests
    BY <1>5 DEF Gate
  <2>2. StageTypes'
    BY <1>1, <2>1, RequeueKeeps DEF IInv
  <2>3. Ids' = Ids /\ owner' = owner /\ Login' = Login
    BY <1>1, <2>1 DEF Ids, Login
  <2>4. RequestsInv'
    BY <1>1, <2>1, <2>3, GlanceKeeps, RequestTypes DEF IInv, RequestsInv
  <2>5. ActsAsUser' /\ ReceiptsPermitted'
    BY <2>1, <2>3 DEF IInv, ActsAsUser, ReceiptsPermitted
  <2> QED
    BY <1>1, <2>2, <2>4, <2>5, DialogKeeps, GlanceStep DEF IInv, AccountTypes
<1> QED
  BY <1>3, <1>4, <1>5

LEMMA FailLocallyKeeps == ASSUME Assumed, IInv, FailLocally PROVE IInv'
<1> DEFINE id == Head(stage).id
           q  == [requests[id] EXCEPT !.state = "failed"]
<1>1. /\ stage # <<>> /\ Glance
      /\ UNCHANGED <<owner, life, logins, mode, reporting, dialog>>
      /\ requests' = [requests EXCEPT ![id] = q] /\ stage' = Tail(stage)
  BY DEF FailLocally, Glance
<1>2. id \in Ids
  BY <1>1, HeadNames DEF IInv
<1>3. q \in Requests /\ Same(q, requests[id]) /\ Acts(q) /\ Permitted(q) /\ Fresh(q)
  BY <1>2, MovedHonestly DEF People
<1> HIDE DEF q
<1> QED
  BY <1>1, <1>2, <1>3, CarriedStep

LEMMA AnswerKeeps ==
    ASSUME Assumed, IInv, NEW id \in Ids, Answer(id) \/ HostAnswer(id)
    PROVE  IInv'
<1> DEFINE q == [requests[id] EXCEPT !.state = "done"]
<1>1. /\ requests[id].kind \in {"explicit", "report", "read", "secret"} /\ Glance
      /\ UNCHANGED <<owner, life, logins, mode, reporting, dialog, stage>>
  BY DEF Answer, HostAnswer, Glance
<1>2. CASE HostAnswer(id)
  <2>1. requests' = [requests EXCEPT ![id] = Used(requests[id])] /\ requests[id].kind \in {"read", "secret"}
    BY <1>2 DEF HostAnswer
  <2> QED
    BY <1>1, <2>1, UsedHonestly, CarriedStep
<1>3. CASE Answer(id) /\ IsCurrent(requests[id].identity)
  <2>1. requests' = [requests EXCEPT ![id] = Used(requests[id])] /\ requests[id].kind \in {"explicit", "report"}
    BY <1>3 DEF Answer
  <2> QED
    BY <1>1, <1>3, <2>1, UsedHonestly, CarriedStep
<1>4. CASE Answer(id) /\ ~IsCurrent(requests[id].identity)
  <2>1. requests' = [requests EXCEPT ![id] = q]
    BY <1>4 DEF Answer
  <2>2. q \in Requests /\ Same(q, requests[id]) /\ Acts(q) /\ Permitted(q) /\ Fresh(q)
    BY MovedHonestly DEF People
  <2> HIDE DEF q
  <2> QED
    BY <1>1, <2>1, <2>2, CarriedStep
<1> QED
  BY <1>2, <1>3, <1>4

LEMMA ReceiveKeeps ==
    ASSUME Assumed, IInv, NEW id \in Ids, Receive(id) \/ SendNotificationCallback(id)
    PROVE  IInv'
<1> DEFINE r == requests[id]
<1>1. /\ Glance /\ r.state \in {"shown", "taken"} /\ r \in Requests /\ r.user \in People
      /\ owner \in People /\ UNCHANGED <<owner, life, logins, mode, reporting, dialog, stage>>
  BY RequestTypes DEF Receive, SendNotificationCallback, Glance, IInv, AccountTypes, Requests
<1>2. ASSUME NEW state \in {"global", "ui"}, NEW bound \in People, r.kind = "reply" => bound = r.user,
             requests' = [requests EXCEPT ![id] = [r EXCEPT !.state = state, !.bound = bound]]
      PROVE  IInv'
  <2> DEFINE q == [r EXCEPT !.state = state, !.bound = bound]
  <2>1. q \in Requests /\ Same(q, r) /\ Acts(q) /\ Permitted(q) /\ Fresh(q)
    BY <1>1, <1>2, MovedHonestly
  <2>2. requests' = [requests EXCEPT ![id] = q]
    BY <1>2
  <2> HIDE DEF q
  <2> QED
    BY <1>1, <2>1, <2>2, CarriedStep
<1>3. ASSUME NEW state \in {"taken", "failed"}, r.state = "shown",
             requests' = [requests EXCEPT ![id] = [r EXCEPT !.state = state]]
      PROVE  IInv'
  <2> DEFINE q == [r EXCEPT !.state = state]
  <2>1. q \in Requests /\ Same(q, r) /\ Acts(q) /\ Permitted(q) /\ Fresh(q)
    BY <1>1, <1>3, MovedHonestly
  <2>2. requests' = [requests EXCEPT ![id] = q]
    BY <1>3
  <2> HIDE DEF q
  <2> QED
    BY <1>1, <2>1, <2>2, CarriedStep
<1>4. CASE Receive(id)
  <2>1. r.state = "shown"
    BY <1>4 DEF Receive
  <2>2. PICK next \in {"global", "ui"} : requests' = [requests EXCEPT ![id] =
            IF owner # r.user THEN [r EXCEPT !.state = "failed"]
            ELSE IF r.kind = "callback" THEN [r EXCEPT !.state = "taken"]
            ELSE [r EXCEPT !.state = next, !.bound = r.user]]
    BY <1>4 DEF Receive
  <2> QED
    BY <1>1, <1>2, <1>3, <2>1, <2>2
<1>5. CASE SendNotificationCallback(id)
  BY <1>1, <1>2, <1>5 DEF SendNotificationCallback
<1> QED
  BY <1>4, <1>5

LEMMA HopKeeps == ASSUME Assumed, IInv, NEW id \in Ids, Hop(id) PROVE IInv'
<1> DEFINE r == requests[id]
<1>1. /\ Hopping(r) /\ Glance /\ UNCHANGED <<owner, life, logins, mode, reporting, dialog, stage>>
      /\ requests' = [requests EXCEPT ![id] = IF owner = r.bound /\ owner # None THEN Hopped(r)
                                              ELSE [r EXCEPT !.state = "failed"]]
  BY DEF Hop, Glance
<1>2. /\ r.kind \in {"reply", "callback"} /\ r.state \in {"global", "ui", "sent"}
      /\ r.state = "sent" => r.kind = "callback"
  BY <1>1 DEF Hopping, Actions
<1>3. ASSUME NEW state \in {"ui", "failed"}, requests' = [requests EXCEPT ![id] = [r EXCEPT !.state = state]]
      PROVE  IInv'
  <2> DEFINE q == [r EXCEPT !.state = state]
  <2>1. q \in Requests /\ Same(q, r) /\ Acts(q) /\ Permitted(q) /\ Fresh(q)
    BY MovedHonestly DEF People
  <2>2. requests' = [requests EXCEPT ![id] = q]
    BY <1>3
  <2> HIDE DEF q
  <2> QED
    BY <1>1, <2>1, <2>2, CarriedStep
<1>4. CASE owner = r.bound /\ owner # None /\ r.state = "ui"
  <2>1. requests' = [requests EXCEPT ![id] = Sent(r)]
    BY <1>1, <1>4 DEF Hopped
  <2>2. /\ Sent(r) \in Requests /\ Same(Sent(r), r) /\ Acts(Sent(r)) /\ Permitted(Sent(r)) /\ Fresh(Sent(r))
    <3> DEFINE a == ~Silent(owner)
               q == [r EXCEPT !.state = "sent", !.sentIn = Login, !.sentAs = owner, !.allowed = a]
    <3>1. /\ r \in Requests /\ Acts(r) /\ Fresh(r) /\ owner \in People /\ Login \in Nat /\ a \in BOOLEAN
      BY RequestTypes, OneByOne DEF IInv, AccountTypes, Login, Assumed, RequestsInv, Belongs
    <3>2. Sent(r) = q
      <4>1. (IF r.kind = "report" THEN reporting[owner] ELSE r.kind = "explicit" \/ ~Silent(owner)) = a
        BY <1>2
      <4> QED
        BY <4>1, Zenon DEF Sent
    <3> HIDE DEF a
    <3>3. q \in Requests
      BY <3>1 DEF Requests
    <3>4. /\ q.kind = r.kind /\ q.user = r.user /\ q.identity = r.identity /\ q.session = r.session
          /\ q.madeIn = r.madeIn /\ q.sentAs = owner /\ q.bound = r.bound /\ q.state = "sent"
          /\ q.usedIn = r.usedIn /\ q.usedAs = r.usedAs
          /\ q.hushed = r.hushed /\ q.quiet = r.quiet
      BY <3>1 DEF Requests
    <3> HIDE DEF q
    <3>5. Fresh(q) /\ Same(q, r)
      BY <3>1, <3>4 DEF Fresh, Same
    <3>6. Acts(q)
      BY <1>2, <1>4, <3>1, <3>4 DEF Acts, Fresh
    <3>7. Permitted(q)
      BY <1>2, <3>4 DEF Permitted, Receipts
    <3> QED
      BY <3>2, <3>3, <3>5, <3>6, <3>7
  <2> QED
    BY <1>1, <2>1, <2>2, CarriedStep
<1>5. CASE owner = r.bound /\ owner # None /\ r.state = "sent"
  <2>1. requests' = [requests EXCEPT ![id] = Used(r)] /\ r.kind = "callback"
    BY <1>1, <1>2, <1>5 DEF Hopped
  <2> QED
    BY <1>1, <1>5, <2>1, UsedHonestly, CarriedStep
<1>6. CASE owner = r.bound /\ owner # None /\ r.state = "global"
  <2>1. requests' = [requests EXCEPT ![id] = [r EXCEPT !.state = "ui"]]
    BY <1>1, <1>6 DEF Hopped
  <2> QED
    BY <1>3, <2>1
<1>7. CASE ~(owner = r.bound /\ owner # None)
  <2>1. requests' = [requests EXCEPT ![id] = [r EXCEPT !.state = "failed"]]
    BY <1>1, <1>7
  <2> QED
    BY <1>3, <2>1
<1> QED
  BY <1>2, <1>4, <1>5, <1>6, <1>7

----------------------------------------------------------------------------
(* Logging in and out.  The requests, the queue and the dialog are left    *)
(* alone, so only the slot, the owner and the login in force matter.       *)

LEMMA AccountStep ==
    ASSUME Assumed, IInv,
           UNCHANGED <<mode, reporting, dialog, requests, stage>>,
           owner' \in People, logins' \in 0..MaxLogins, made' \in Nat, made' >= made,
           life' \in {"out", "arriving", "in", "leaving"}, slot' \in Slots(made'),
           AccountInv', DialogInv', ModeKept',
           \A i \in Ids : Belongs(requests[i], slot', made', owner', Login')
    PROVE  IInv'
<1>1. Ids' = Ids
  BY DEF Ids
<1>2. dialog' \in Dialogs(made')
  BY DEF IInv, AccountTypes, Dialogs
<1>3. AccountTypes'
  BY <1>2 DEF IInv, AccountTypes
<1>4. RequestsInv'
  BY <1>1 DEF RequestsInv
<1>5. StageTypes' /\ ActsAsUser' /\ ReceiptsPermitted'
  BY <1>1 DEF IInv, StageTypes, ActsAsUser, ReceiptsPermitted
<1> QED
  BY <1>3, <1>4, <1>5 DEF IInv

LEMMA BeforeLogoutKeeps == ASSUME Assumed, IInv, BeforeLogout PROVE IInv'
<1>1. /\ life = "in" /\ life' = "leaving"
      /\ slot' = [Found EXCEPT !.retired = TRUE, !.silent = TRUE]
      /\ made' = IF Found.id > made THEN Found.id ELSE made
      /\ UNCHANGED <<owner, logins, mode, reporting, dialog, requests, stage>>
  BY DEF BeforeLogout, Keep
<1>2. /\ made \in Nat /\ Found \in Slots(made + 1) /\ Found.id \in 1..made + 1 /\ Found.owner = owner
      /\ owner \in People /\ logins \in 0..MaxLogins
  BY FoundFacts DEF IInv, AccountTypes
<1>3. slot'.id = Found.id /\ slot'.owner = owner /\ slot'.retired = TRUE /\ slot'.silent = TRUE
  BY <1>1, <1>2 DEF Slots
<1>4. made' \in Nat /\ made' >= made /\ Found.id \in 0..made'
  BY <1>1, <1>2
<1>5. slot' \in Slots(made')
  BY <1>1, <1>2, <1>4 DEF Slots
<1>6. AccountInv'
  BY <1>1, <1>2, <1>3 DEF IInv, AccountInv
<1>7. DialogInv' /\ \A i \in Ids : Belongs(requests[i], slot', made', owner', Login')
  <2>1. /\ dialog.session <= slot'.id /\ (dialog.session = slot'.id => dialog.user = slot'.owner)
        /\ \A r \in Requests : Belongs(r, slot, made, owner, Login)
                                   => Belongs(r, slot', made', owner, Login')
    BY <1>1, <1>3, SlotMoves
  <2> QED
    BY <1>1, <2>1, RequestTypes DEF IInv, RequestsInv, DialogInv
<1>8. ModeKept'
  BY <1>3 DEF ModeKept
<1>9. owner' \in People /\ logins' \in 0..MaxLogins /\ life' \in {"out", "arriving", "in", "leaving"}
  BY <1>1, <1>2
<1> QED
  BY <1>1, <1>4, <1>5, <1>6, <1>7, <1>8, <1>9, AccountStep

LEMMA ClearConfigKeeps == ASSUME Assumed, IInv, ClearConfig PROVE IInv'
<1>1. /\ life = "leaving" /\ life' = "out" /\ owner' = None
      /\ UNCHANGED <<logins, made, slot, mode, reporting, dialog, requests, stage>>
  BY DEF ClearConfig
<1>2. /\ made \in Nat /\ slot \in Slots(made) /\ logins \in 0..MaxLogins
      /\ slot.id # 0 /\ slot.retired /\ slot.silent
  BY <1>1 DEF IInv, AccountTypes, AccountInv
<1>3. AccountInv' /\ DialogInv' /\ ModeKept'
  BY <1>1, <1>2 DEF IInv, AccountInv, DialogInv, ModeKept
<1>4. \A i \in Ids : Belongs(requests[i], slot', made', owner', Login')
  BY <1>1, <1>2 DEF IInv, RequestsInv, Belongs
<1>5. /\ owner' \in People /\ logins' \in 0..MaxLogins /\ made' \in Nat /\ made' >= made
      /\ slot' \in Slots(made') /\ life' \in {"out", "arriving", "in", "leaving"}
  BY <1>1, <1>2 DEF People
<1> QED
  BY <1>1, <1>3, <1>4, <1>5, AccountStep

LEMMA SetCurrentUserKeeps ==
    ASSUME Assumed, IInv, NEW user \in Users, SetCurrentUser(user) PROVE IInv'
<1>1. /\ life \in {"out", "in"} /\ user # owner /\ logins < MaxLogins
      /\ life' = "arriving" /\ owner' = user /\ logins' = logins + 1
      /\ UNCHANGED <<made, slot, mode, reporting, dialog, requests, stage>>
  BY DEF SetCurrentUser
<1>2. /\ made \in Nat /\ slot \in Slots(made) /\ logins \in 0..MaxLogins /\ MaxLogins \in Nat
      /\ user # None
  BY DEF IInv, AccountTypes, Assumed
<1>3. slot.id # 0 /\ slot.owner = user => slot.retired
  BY <1>1, <1>2 DEF IInv, AccountInv
<1>4. AccountInv' /\ DialogInv' /\ ModeKept'
  BY <1>1, <1>2 DEF IInv, AccountInv, DialogInv, ModeKept, Silent
<1>5. \A i \in Ids : Belongs(requests[i], slot', made', owner', Login')
  BY <1>1, <1>3 DEF IInv, RequestsInv, Belongs
<1>6. /\ owner' \in People /\ logins' \in 0..MaxLogins /\ made' \in Nat /\ made' >= made
      /\ slot' \in Slots(made') /\ life' \in {"out", "arriving", "in", "leaving"}
  BY <1>1, <1>2 DEF People
<1> QED
  BY <1>1, <1>4, <1>5, <1>6, AccountStep

LEMMA OwnerChangedKeeps == ASSUME Assumed, IInv, OwnerChanged PROVE IInv'
<1>1. /\ life = "arriving" /\ life' = "in" /\ slot' = NoSession
      /\ made' = IF NoSession.id > made THEN NoSession.id ELSE made
      /\ UNCHANGED <<owner, logins, mode, reporting, dialog, requests, stage>>
  BY DEF OwnerChanged, Keep
<1>2. made \in Nat /\ owner \in People /\ logins \in 0..MaxLogins /\ owner # None
  BY <1>1 DEF IInv, AccountTypes, AccountInv
<1>3. NoSession.id = 0 /\ NoSession.owner = None /\ NoSession.silent = FALSE /\ NoSession.retired = FALSE
  BY DEF NoSession
<1>4. made' = made
  BY <1>1, <1>2, <1>3
<1>5. slot' \in Slots(made')
  BY <1>1, <1>2, <1>4 DEF NoSession, Slots, People
<1>6. AccountInv' /\ DialogInv'
  BY <1>1, <1>2, <1>3 DEF AccountInv, DialogInv
<1>7. ModeKept'
  BY <1>1, <1>3 DEF ModeKept, Silent
<1>8. \A i \in Ids : Belongs(requests[i], slot', made', owner', Login')
  BY <1>1, <1>3, <1>4 DEF IInv, RequestsInv, Belongs
<1>9. /\ owner' \in People /\ logins' \in 0..MaxLogins /\ made' \in Nat /\ made' >= made
      /\ life' \in {"out", "arriving", "in", "leaving"}
  BY <1>1, <1>2, <1>4
<1> QED
  BY <1>1, <1>5, <1>6, <1>7, <1>8, <1>9, AccountStep

----------------------------------------------------------------------------
(* The invariant and the theorems *)

LEMMA InitSound == ASSUME Assumed, Init PROVE IInv
<1>1. /\ owner = None /\ life = "out" /\ logins = 0 /\ made = 0 /\ slot = NoSession
      /\ dialog = NoDialog /\ requests = <<>> /\ stage = <<>>
  BY DEF Init
<1>2. /\ slot.id = 0 /\ slot.owner = None /\ slot.silent = FALSE /\ slot.retired = FALSE
      /\ dialog.session = 0
  BY <1>1 DEF NoSession, NoDialog
<1>3. mode \in [Users -> BOOLEAN] /\ reporting \in [Users -> BOOLEAN]
  BY DEF Init
<1>4. slot \in Slots(made) /\ dialog \in Dialogs(made)
  BY <1>1 DEF NoSession, NoDialog, Slots, Dialogs, People
<1>5. AccountTypes
  BY <1>1, <1>3, <1>4 DEF AccountTypes, People, Assumed
<1>6. Len(requests) = 0 /\ Len(stage) = 0
      /\ requests \in Seq(Requests) /\ stage \in Seq([id : Nat, what : {"gate", "fail"}])
  BY <1>1, EmptySeq
<1>7. Ids = {} /\ DOMAIN stage = {}
  BY <1>6, LenProperties DEF Ids
<1>8. StageTypes
  BY <1>6, <1>7 DEF StageTypes
<1>9. AccountInv /\ DialogInv /\ ModeKept
  BY <1>1, <1>2 DEF AccountInv, DialogInv, ModeKept, Silent
<1>10. RequestsInv /\ ActsAsUser /\ ReceiptsPermitted
  BY <1>7 DEF RequestsInv, ActsAsUser, ReceiptsPermitted
<1> QED
  BY <1>5, <1>8, <1>9, <1>10 DEF IInv

LEMMA NextPreserves == ASSUME Assumed, IInv, [Next]_vars PROVE IInv'
<1>1. CASE Account
  BY <1>1, BeforeLogoutKeeps, ClearConfigKeeps, OwnerChangedKeeps, SetCurrentUserKeeps DEF Account
<1>2. CASE User \/ Ui
  BY <1>2, MakersKeep, ShowKeeps, SettingsKeep, SetSilentKeeps DEF User, Ui
<1>3. CASE Stage
  BY <1>3, GateKeeps, FailLocallyKeeps DEF Stage
<1>4. ASSUME NEW id \in Ids, \/ Answer(id) \/ HostAnswer(id)
                             \/ Receive(id) \/ SendNotificationCallback(id) \/ Hop(id)
      PROVE  IInv'
  BY <1>4, AnswerKeeps, ReceiveKeeps, HopKeeps
<1>5. CASE UNCHANGED vars
  <2>1. Ids' = Ids /\ Login' = Login
    BY <1>5 DEF vars, Ids, Login
  <2> QED
    BY <1>5, <2>1 DEF vars, IInv, AccountTypes, StageTypes, AccountInv, DialogInv, ModeKept, Silent,
                      RequestsInv, ActsAsUser, ReceiptsPermitted
<1> QED
  BY <1>1, <1>2, <1>3, <1>4, <1>5 DEF Next

(* The model's types follow from the invariant's.                          *)
LEMMA TypesFollow == ASSUME Assumed, IInv PROVE TypeOK
<1>1. /\ owner \in Users \cup {None} /\ logins \in 0..MaxLogins
      /\ life \in {"out", "arriving", "in", "leaving"}
      /\ mode \in [Users -> BOOLEAN] /\ reporting \in [Users -> BOOLEAN]
  BY DEF IInv, AccountTypes, People
<1>2. /\ slot \in [id : 0..made, owner : Users \cup {None}, silent : BOOLEAN, retired : BOOLEAN]
      /\ dialog \in [session : 0..made, user : Users \cup {None}, silent : BOOLEAN,
                     doing : {"closed", "open", "toggle", "read"}]
  BY DEF IInv, AccountTypes, Slots, Dialogs, People
<1>3. \A i \in Ids : requests[i].kind \in Kinds /\ requests[i].session \in 0..made
  <2>1. ASSUME NEW i \in Ids PROVE requests[i].kind \in Kinds /\ requests[i].session \in 0..made
    BY RequestTypes DEF IInv, RequestsInv, Belongs, Requests, AccountTypes
  <2> QED
    BY <2>1
<1>4. \A i \in 1..Len(stage) : stage[i].id \in Ids /\ stage[i].what \in {"gate", "fail"}
  <2>1. DOMAIN stage = 1..Len(stage)
    BY LenProperties DEF IInv, StageTypes
  <2>2. ASSUME NEW i \in DOMAIN stage PROVE stage[i] \in [id : Nat, what : {"gate", "fail"}]
    BY <2>1, ElementOfSeq DEF IInv, StageTypes
  <2> QED
    BY <2>1, <2>2 DEF IInv, StageTypes
<1> QED
  BY <1>1, <1>2, <1>3, <1>4 DEF TypeOK

(* ReceiptsPermitted: for any users, logins and requests, no receipt       *)
(* leaves that CapyReadReceipts' session and mode do not permit.           *)
THEOREM ReceiptsAlwaysPermitted == ASSUME Assumed PROVE Spec => []ReceiptsPermitted
<1>1. Init => IInv
  BY InitSound
<1>2. IInv /\ [Next]_vars => IInv'
  BY NextPreserves
<1>3. IInv => ReceiptsPermitted
  BY DEF IInv
<1> QED
  BY <1>1, <1>2, <1>3, PTL DEF Spec

(* StaysWithUser: for any users, logins and requests, reports, the answers *)
(* that are checked, what notifications do and the modes stay with the     *)
(* user they were made for or bound to.                                    *)
THEOREM NothingCrosses == ASSUME Assumed PROVE Spec => []StaysWithUser
<1>1. Init => IInv
  BY InitSound
<1>2. IInv /\ [Next]_vars => IInv'
  BY NextPreserves
<1>3. IInv => StaysWithUser
  BY TypesFollow DEF IInv, StaysWithUser
<1> QED
  BY <1>1, <1>2, <1>3, PTL DEF Spec

-----------------------------------------------------------------------------
(* The vault *)

VaultAssumed == /\ None \notin Users
                /\ MaxLogins \in Nat /\ MaxLocks \in Nat /\ MaxFaults \in Nat

----------------------------------------------------------------------------
(* The inductive invariant *)

VaultDestroying == {"tombstone", "unbind", "deleteKey", "deleteFile", "forget"}
VaultDeleting   == {"deleteKey", "deleteFile", "forget"}

VaultServingSteps ==
    {"open", "replace", "load", "create", "createFile", "publish", "check", "run", "failed"}

VaultServing == worker.pc \in VaultServingSteps \/ worker.back \in {"create", "failed"}

VaultElems(s) == {s[i] : i \in 1..Len(s)}

(* What a queue, a worker and an account thread may hold.                  *)
VaultTasks == [kind : {"sweep"}] \cup [kind : {"destroy"}, gen : Vault!Generations]
                                 \cup [kind : {"submit"}, token : Vault!Token]

VaultSweepers ==
    [pc : {"idle", "sweep"} \cup VaultDestroying, gen : 0..Len(madeFor),
     left : SUBSET Vault!Generations, back : {"idle", "sweep"}]

VaultServants ==
    [pc : VaultDestroying \cup VaultServingSteps, gen : 0..Len(madeFor),
     left : {{}}, back : {"idle", "create", "failed"}, token : Vault!Token]

VaultWorkers == VaultSweepers \cup VaultServants

VaultHalves == [user : Users \cup {None}, login : 0..loggedIn, gen : 0..Len(madeFor),
                owner : Users \cup {None}]

VaultAccounts == [pc : {"idle", "changed", "retire", "remove", "destroy", "clear"},
                  gen : 0..Len(madeFor)]

VaultTypes ==
    /\ prefs \in [mem : VaultHalves, disk : VaultHalves]
    /\ cleanup \in [mem : SUBSET Vault!Generations, disk : SUBSET Vault!Generations]
    /\ content \subseteq Vault!Generations /\ keys \subseteq Vault!Generations
          /\ files \subseteq Vault!Generations
    /\ madeFor \in Seq([user : Users, login : 1..loggedIn]) /\ loggedIn \in 0..MaxLogins
    /\ gate \in [epoch : Nat, retired : BOOLEAN, lockEpoch : 0..MaxLocks, unlocked : BOOLEAN]
    /\ account \in VaultAccounts /\ queue \in Seq(VaultTasks) /\ worker \in VaultWorkers
    /\ mailbox \in Seq([token : Vault!Token, gen : 0..Len(madeFor)])
    /\ counts \in [submits : Nat, restarts : Nat]
    /\ faults \in 0..MaxFaults /\ troubled \subseteq Vault!Generations

(* What either half of the preferences may say, logs being who created     *)
(* the generations.                                                        *)
VaultWhole(p, logs) ==
    /\ p.gen = 0 <=> p.owner = None
    /\ p.user = None => p.gen = 0
    /\ p.user # None => p.login # 0
    /\ p.gen # 0 => logs[p.gen] = [user |-> p.owner, login |-> p.login]

VaultHalvesInv == VaultWhole(prefs.mem, madeFor) /\ VaultWhole(prefs.disk, madeFor)

VaultAccountInv ==
    /\ account.pc \notin {"idle", "changed"} => gate.retired
    /\ account.pc \in {"destroy", "clear"} => prefs.mem.gen = 0
    /\ account.pc = "remove" =>
          /\ account.gen = prefs.mem.gen /\ worker.pc # "replace"
          /\ account.gen # 0 => account.gen \in cleanup.mem

VaultValid(t) == t.epoch = gate.epoch /\ t.user = prefs.mem.user

VaultHeld == (IF VaultServing THEN {worker.token} ELSE {})
             \cup {t.token : t \in {x \in VaultElems(queue) : x.kind = "submit"}}
             \cup {m.token : m \in VaultElems(mailbox)}

(* A token of this epoch is of the login in force, unless that changes.    *)
VaultTimely(t) ==
    /\ t.epoch <= gate.epoch
    /\ t.epoch = gate.epoch =>
          /\ ~gate.retired
          /\ t.user = prefs.mem.user => t.login = prefs.mem.login
          /\ account.pc # "changed" => t.user = prefs.mem.user

VaultTokenInv == \A t \in VaultHeld : VaultTimely(t)

(* What a valid token reads from, or has read from.                        *)
VaultBound(t, g) == VaultValid(t) => /\ g = prefs.mem.gen /\ prefs.mem.owner = t.user
                                     /\ g \notin cleanup.mem

VaultMailInv == \A m \in VaultElems(mailbox) : m.gen # 0 => VaultBound(m.token, m.gen)

VaultToDestroy == {t.gen : t \in {x \in VaultElems(queue) : x.kind = "destroy"}}

VaultQueueInv == \A g \in VaultToDestroy : g # prefs.mem.gen

(* A generation that is new is known to nobody else.                       *)
VaultUnknown(g) ==
    /\ g \notin {prefs.mem.gen, prefs.disk.gen, account.gen} \cup VaultToDestroy
    /\ g \notin cleanup.mem \cup cleanup.disk \cup content
    /\ \A m \in VaultElems(mailbox) : m.gen # g

VaultNewInv == worker.pc \in {"createFile", "publish"} =>
    /\ worker.gen = Len(madeFor) /\ worker.gen # 0 /\ VaultUnknown(worker.gen)
    /\ madeFor[worker.gen] = [user |-> worker.token.user, login |-> worker.token.login]
    /\ worker.back = "failed" /\ worker.gen \in keys
    /\ worker.pc = "publish" => worker.gen \in files

VaultDestroyInv ==
    /\ worker.pc \in VaultDestroying =>
          /\ worker.gen # 0 /\ worker.gen \notin worker.left
          /\ \A m \in VaultElems(mailbox) : VaultValid(m.token) => m.gen # worker.gen
    /\ worker.pc \in VaultDeleting \cup {"unbind", "replace"} => worker.gen \in cleanup.mem
    /\ worker.pc \in VaultDeleting => prefs.mem.gen # worker.gen
    /\ worker.pc = "forget" => worker.gen \notin content
    /\ worker.left \subseteq cleanup.mem
    /\ worker.left # {} => worker.pc = "sweep" \/ worker.back = "sweep"

VaultServeInv ==
    /\ worker.pc \in {"load", "check", "run"} =>
          /\ worker.gen # 0 /\ VaultBound(worker.token, worker.gen)
          /\ worker.gen = prefs.mem.gen \/ worker.gen \in cleanup.mem
    /\ worker.pc = "replace" => worker.gen = prefs.mem.gen /\ worker.gen # 0

(* A generation whose tombstones and removals all reached the disk.        *)
VaultKept(g) ==
    /\ g \in cleanup.mem => g \in cleanup.disk
    /\ prefs.disk.gen = g => prefs.mem.gen = g
    /\ g \in cleanup.disk /\ g \notin cleanup.mem => g \notin content /\ prefs.mem.gen # g
    /\ g \in content => prefs.disk.gen = g \/ g \in cleanup.disk
    /\ prefs.mem.gen = g /\ g \notin cleanup.mem =>
          /\ g \in keys /\ g \in files
          /\ prefs.disk.gen = g \/ (worker.pc = "tombstone" /\ worker.gen = g)
    /\ prefs.disk.gen = g /\ g \notin cleanup.disk => g \in keys /\ g \in files

VaultDiskInv == \A g \in Vault!Generations \ troubled : VaultKept(g)

VaultIdleInv == worker.pc = "idle" => worker = Vault!Idle

(* Who is going to destroy g, unless the disk fails.                       *)
VaultAwaited(g) ==
    \/ Vault!Sweep \in VaultElems(queue) \/ g \in VaultToDestroy \/ g \in worker.left
    \/ worker.pc \in VaultDestroying \cup {"replace"} /\ worker.gen = g
    \/ account.pc \in {"remove", "destroy"} /\ account.gen = g

VaultAwaitInv == faults = 0 => \A g \in cleanup.mem : VaultAwaited(g)

VaultIInv ==
    /\ VaultTypes /\ VaultHalvesInv /\ VaultAccountInv /\ VaultTokenInv
    /\ VaultMailInv /\ VaultQueueInv /\ VaultNewInv /\ VaultDestroyInv /\ VaultServeInv
    /\ VaultDiskInv /\ VaultIdleInv /\ VaultAwaitInv

----------------------------------------------------------------------------
(* Sequences as sets, and the shapes of records *)

LEMMA VaultAppendElems == ASSUME NEW S, NEW s \in Seq(S), NEW x \in S
                     PROVE  /\ Append(s, x) \in Seq(S)
                            /\ VaultElems(Append(s, x)) = VaultElems(s) \cup {x}
<1>1. Append(s, x) \in Seq(S) /\ Len(Append(s, x)) = Len(s) + 1 /\ Len(s) \in Nat
  BY AppendProperties, LenProperties
<1>2. \A i \in 1..Len(s) : Append(s, x)[i] = s[i]
  BY AppendProperties
<1>3. Append(s, x)[Len(s) + 1] = x
  BY AppendProperties
<1>4. 1..(Len(s) + 1) = 1..Len(s) \cup {Len(s) + 1}
  BY <1>1
<1> QED
  BY <1>1, <1>2, <1>3, <1>4, Zenon DEF VaultElems

LEMMA VaultTakeElems == ASSUME NEW S, NEW s \in Seq(S), s # <<>>
                   PROVE  /\ Tail(s) \in Seq(S) /\ Head(s) \in S
                          /\ VaultElems(s) = {Head(s)} \cup VaultElems(Tail(s))
<1>1. /\ Tail(s) \in Seq(S) /\ Head(s) \in S /\ Len(s) \in Nat /\ Len(s) # 0
      /\ Len(Tail(s)) = Len(s) - 1 /\ Head(s) = s[1]
  BY HeadTailProperties, LenProperties, EmptySeq
<1>2. \A i \in 1..(Len(s) - 1) : Tail(s)[i] = s[i + 1]
  BY HeadTailProperties, <1>1
<1>3. ASSUME NEW y \in VaultElems(s) PROVE y \in {Head(s)} \cup VaultElems(Tail(s))
  <2>1. PICK i \in 1..Len(s) : y = s[i]
    BY <1>3 DEF VaultElems
  <2>2. CASE i = 1
    BY <1>1, <2>1, <2>2
  <2>3. CASE i # 1
    <3>1. i - 1 \in 1..(Len(s) - 1) /\ (i - 1) + 1 = i
      BY <1>1, <2>1, <2>3
    <3>2. y = Tail(s)[i - 1]
      BY <1>2, <2>1, <3>1
    <3> QED
      BY <1>1, <3>1, <3>2 DEF VaultElems
  <2> QED
    BY <2>2, <2>3
<1>4. ASSUME NEW y \in VaultElems(Tail(s)) PROVE y \in VaultElems(s)
  <2>1. PICK i \in 1..(Len(s) - 1) : y = Tail(s)[i]
    BY <1>1, <1>4 DEF VaultElems
  <2>2. y = s[i + 1] /\ i + 1 \in 1..Len(s)
    BY <1>1, <1>2, <2>1
  <2> QED
    BY <2>2 DEF VaultElems
<1>5. Head(s) \in VaultElems(s)
  <2>1. 1 \in 1..Len(s)
    BY <1>1
  <2> QED
    BY <1>1, <2>1 DEF VaultElems
<1> QED
  BY <1>1, <1>3, <1>4, <1>5

LEMMA VaultNoElems == VaultElems(<<>>) = {}
<1>1. 1..Len(<<>>) = {}
  BY EmptySeq
<1> QED
  BY <1>1 DEF VaultElems

LEMMA VaultOneElem == ASSUME NEW x PROVE VaultElems(<<x>>) = {x} /\ <<x>> \in Seq({x})
<1>1. Len(<<x>>) = 1 /\ <<x>>[1] = x
  OBVIOUS
<1>2. 1..1 = {1}
  OBVIOUS
<1>3. VaultElems(<<x>>) = {<<x>>[i] : i \in {1}}
  BY <1>1, <1>2 DEF VaultElems
<1>4. <<x>> \in Seq({x})
  OBVIOUS
<1> QED
  BY <1>1, <1>3, <1>4

(* Every element of a typed sequence is of its type.                       *)
LEMMA VaultElemsTyped == ASSUME NEW S, NEW s \in Seq(S) PROVE VaultElems(s) \subseteq S
  BY ElementOfSeq DEF VaultElems

(* A worker that serves a request has its token.                           *)
LEMMA VaultWorkerShape ==
    ASSUME worker \in VaultWorkers
    PROVE  /\ VaultServing => worker \in VaultServants
           /\ worker \in VaultServants => worker.token \in Vault!Token /\ worker.left = {}
           /\ worker.gen \in 0..Len(madeFor) /\ worker.left \subseteq Vault!Generations
           /\ worker.pc \in {"idle", "sweep"} \cup VaultDestroying \cup VaultServingSteps
           /\ worker.back \in {"idle", "sweep", "create", "failed"}
           /\ worker.back = "sweep" \/ worker.pc \in {"idle", "sweep"}
                 => worker \in VaultSweepers
<1>1. CASE worker \in VaultSweepers
  <2>1. worker.pc \notin VaultServingSteps /\ worker.back \notin {"create", "failed"}
    BY <1>1 DEF VaultSweepers, VaultDestroying, VaultServingSteps
  <2>2. worker \notin VaultServants \/ (worker.token \in Vault!Token /\ worker.left = {})
    BY DEF VaultServants
  <2> QED
    BY <1>1, <2>1, <2>2 DEF VaultSweepers, VaultServing
<1>2. CASE worker \in VaultServants
  BY <1>2 DEF VaultServants, VaultServing, VaultDestroying, VaultServingSteps
<1> QED
  BY <1>1, <1>2 DEF VaultWorkers

(* A worker goes on: to another step of its request, or of a destruction.  *)
LEMMA VaultGotoTypes ==
    ASSUME worker \in VaultWorkers, NEW p,
           \/ worker \in VaultServants /\ p \in VaultDestroying \cup VaultServingSteps
           \/ p \in VaultDestroying
           \/ worker \in VaultSweepers /\ p = "sweep"
    PROVE  [worker EXCEPT !.pc = p] \in VaultWorkers
<1>1. CASE worker \in VaultServants /\ p \in VaultDestroying \cup VaultServingSteps
  BY <1>1 DEF VaultWorkers, VaultServants
<1>2. CASE worker \in VaultSweepers /\ p \in VaultDestroying \cup {"sweep"}
  BY <1>2 DEF VaultWorkers, VaultSweepers
<1> QED
  BY <1>1, <1>2 DEF VaultWorkers

LEMMA VaultIdleTypes == Vault!Idle \in VaultSweepers /\ Vault!Idle \in VaultWorkers
  BY DEF Vault!Idle, VaultWorkers, VaultSweepers

LEMMA VaultDestroyedTypes == ASSUME worker \in VaultWorkers, worker.pc \in VaultDestroying,
    Vault!Destroyed
                        PROVE  worker' \in VaultWorkers
<1>1. CASE worker.back = "idle"
  BY <1>1, VaultIdleTypes DEF Vault!Destroyed
<1>2. CASE worker.back # "idle"
  <2>1. worker' = [worker EXCEPT !.pc = worker.back]
    BY <1>2 DEF Vault!Destroyed, Vault!Goto
  <2>2. \/ worker \in VaultServants /\ worker.back \in VaultServingSteps
        \/ worker \in VaultSweepers /\ worker.back = "sweep"
    BY <1>2, VaultWorkerShape DEF VaultServing, VaultServingSteps
  <2> QED
    BY <2>1, <2>2, VaultGotoTypes
<1> QED
  BY <1>1, <1>2

----------------------------------------------------------------------------
(* Types *)

LEMMA VaultGrowth ==
    ASSUME VaultTypes,
           madeFor' = madeFor \/ madeFor' = Append(madeFor, madeFor'[Len(madeFor) + 1]),
           Len(madeFor') >= Len(madeFor),
           loggedIn' = loggedIn \/ loggedIn' = loggedIn + 1
    PROVE  /\ Vault!Generations \subseteq Vault!Generations'
                 /\ 0..Len(madeFor) \subseteq 0..Len(madeFor)'
           /\ Vault!Token \subseteq Vault!Token' /\ VaultHalves \subseteq VaultHalves'
                 /\ VaultAccounts \subseteq VaultAccounts'
           /\ VaultTasks \subseteq VaultTasks' /\ VaultWorkers \subseteq VaultWorkers'
           /\ [token : Vault!Token, gen : 0..Len(madeFor)] \subseteq [token : Vault!Token,
                 gen : 0..Len(madeFor)]'
<1>1. Len(madeFor) \in Nat /\ loggedIn \in Nat
  BY LenProperties DEF VaultTypes
<1>2. Len(madeFor') \in Nat
  BY <1>1, LenProperties, AppendProperties DEF VaultTypes
<1>3. /\ Vault!Generations \subseteq Vault!Generations'
            /\ 0..Len(madeFor) \subseteq 0..Len(madeFor)'
      /\ 1..loggedIn \subseteq 1..loggedIn' /\ 0..loggedIn \subseteq 0..loggedIn'
  BY <1>1, <1>2 DEF Vault!Generations
<1>4. Vault!Token \subseteq Vault!Token' /\ VaultHalves \subseteq VaultHalves'
          /\ VaultAccounts \subseteq VaultAccounts'
  BY <1>3 DEF Vault!Token, VaultHalves, VaultAccounts
<1>5. VaultTasks \subseteq VaultTasks' /\ VaultSweepers \subseteq VaultSweepers'
          /\ VaultServants \subseteq VaultServants'
  BY <1>3, <1>4 DEF VaultTasks, VaultSweepers, VaultServants
<1> QED
  BY <1>3, <1>4, <1>5 DEF VaultWorkers

(* A step that creates no generation and counts no login.                  *)
LEMMA VaultStillTypes ==
    ASSUME VaultTypes, UNCHANGED <<madeFor, loggedIn>>,
           prefs' \in [mem : VaultHalves, disk : VaultHalves],
           cleanup' \in [mem : SUBSET Vault!Generations, disk : SUBSET Vault!Generations],
           content' \subseteq Vault!Generations, keys' \subseteq Vault!Generations,
                 files' \subseteq Vault!Generations,
           gate' \in [epoch : Nat, retired : BOOLEAN, lockEpoch : 0..MaxLocks,
                 unlocked : BOOLEAN],
           account' \in VaultAccounts, queue' \in Seq(VaultTasks), worker' \in VaultWorkers,
           mailbox' \in Seq([token : Vault!Token, gen : 0..Len(madeFor)]),
           counts' \in [submits : Nat, restarts : Nat],
           faults' \in 0..MaxFaults, troubled' \subseteq Vault!Generations
    PROVE  VaultTypes'
<1>1. Vault!Generations' = Vault!Generations /\ Vault!Token' = Vault!Token
  BY DEF Vault!Generations, Vault!Token
<1>2. VaultHalves' = VaultHalves /\ VaultAccounts' = VaultAccounts
          /\ VaultTasks' = VaultTasks /\ VaultWorkers' = VaultWorkers
  BY <1>1 DEF VaultHalves, VaultAccounts, VaultTasks, VaultWorkers, VaultSweepers, VaultServants
<1> QED
  BY <1>1, <1>2 DEF VaultTypes

(* A commit: what it does to a file and to the count of failures.          *)
LEMMA VaultCommitFacts ==
    ASSUME VaultAssumed, VaultTypes, NEW ok \in Vault!Commits, Vault!Counted(ok)
    PROVE  /\ ok \in BOOLEAN /\ faults' \in 0..MaxFaults
           /\ faults' = 0 => ok /\ faults = 0
<1>1. faults \in Nat /\ faults <= MaxFaults /\ MaxFaults \in Nat
  BY DEF VaultTypes, VaultAssumed
<1>2. ok \in BOOLEAN /\ (~ok => faults < MaxFaults)
  BY DEF Vault!Commits
<1>3. faults' = IF ok THEN faults ELSE faults + 1
  BY DEF Vault!Counted
<1> QED
  BY <1>1, <1>2, <1>3

LEMMA VaultRetireFacts ==
    ASSUME VaultAssumed, VaultTypes, NEW g \in Vault!Generations, Vault!Retire(g)
    PROVE  /\ cleanup' \in [mem : SUBSET Vault!Generations, disk : SUBSET Vault!Generations]
           /\ cleanup'.mem = cleanup.mem \cup {g}
           /\ cleanup'.disk = cleanup.disk \/ cleanup'.disk = cleanup'.mem
           /\ g \in troubled' \/ cleanup'.disk = cleanup'.mem
           /\ troubled \subseteq troubled' /\ troubled' \subseteq troubled \cup {g}
           /\ faults' \in 0..MaxFaults
           /\ faults' = 0 => faults = 0
<1>1. PICK ok \in Vault!Commits : /\ cleanup' = Vault!Written(cleanup, cleanup.mem \cup {g}, ok)
                                  /\ Vault!Noted(g, ok)
  BY DEF Vault!Retire
<1>2. ok \in BOOLEAN /\ faults' \in 0..MaxFaults /\ (faults' = 0 => faults = 0)
  BY <1>1, VaultCommitFacts DEF Vault!Noted
<1>3. cleanup.mem \subseteq Vault!Generations /\ cleanup.disk \subseteq Vault!Generations
  BY DEF VaultTypes
<1>4. cleanup' = [mem |-> cleanup.mem \cup {g},
                  disk |-> IF ok THEN cleanup.mem \cup {g} ELSE cleanup.disk]
  BY <1>1 DEF Vault!Written
<1>5. /\ cleanup' \in [mem : SUBSET Vault!Generations, disk : SUBSET Vault!Generations]
      /\ cleanup'.mem = cleanup.mem \cup {g}
      /\ cleanup'.disk = IF ok THEN cleanup'.mem ELSE cleanup.disk
  BY <1>2, <1>3, <1>4
<1>6. troubled' = IF ok THEN troubled ELSE troubled \cup {g}
  BY <1>1 DEF Vault!Noted
<1> QED
  BY <1>2, <1>5, <1>6

(* The removal of a reference, by whoever makes it, of generation g.       *)
VaultRemoves(g) == \E ok \in Vault!Commits : prefs' = Vault!Written(prefs,
      Vault!Cleared(prefs.mem), ok) /\ Vault!Noted(g, ok)

LEMMA VaultRemovesFacts ==
    ASSUME VaultAssumed, VaultTypes, NEW g \in Vault!Generations, VaultRemoves(g)
    PROVE  /\ prefs' \in [mem : VaultHalves, disk : VaultHalves]
           /\ prefs'.mem = Vault!Cleared(prefs.mem)
           /\ prefs'.mem.gen = 0 /\ prefs'.mem.owner = None
           /\ prefs'.mem.user = prefs.mem.user /\ prefs'.mem.login = prefs.mem.login
           /\ prefs'.disk = prefs.disk \/ prefs'.disk = prefs'.mem
           /\ g \in troubled' \/ prefs'.disk = prefs'.mem
           /\ troubled \subseteq troubled' /\ troubled' \subseteq troubled \cup {g}
           /\ faults' \in 0..MaxFaults
           /\ faults' = 0 => faults = 0
<1>1. PICK ok \in Vault!Commits : prefs' = Vault!Written(prefs, Vault!Cleared(prefs.mem),
          ok) /\ Vault!Noted(g, ok)
  BY DEF VaultRemoves
<1>2. ok \in BOOLEAN /\ faults' \in 0..MaxFaults /\ (faults' = 0 => faults = 0)
  BY <1>1, VaultCommitFacts DEF Vault!Noted
<1>3. prefs.mem \in VaultHalves /\ prefs.disk \in VaultHalves
  BY DEF VaultTypes
<1>4. /\ Vault!Cleared(prefs.mem) \in VaultHalves
      /\ Vault!Cleared(prefs.mem).gen = 0 /\ Vault!Cleared(prefs.mem).owner = None
      /\ Vault!Cleared(prefs.mem).user = prefs.mem.user
            /\ Vault!Cleared(prefs.mem).login = prefs.mem.login
  <2>1. 0 \in 0..Len(madeFor)
    BY LenProperties DEF VaultTypes
  <2> QED
    BY <1>3, <2>1 DEF Vault!Cleared, VaultHalves
<1>5. prefs' = [mem |-> Vault!Cleared(prefs.mem),
                disk |-> IF ok THEN Vault!Cleared(prefs.mem) ELSE prefs.disk]
  BY <1>1 DEF Vault!Written
<1>6. CASE ok
  BY <1>1, <1>2, <1>3, <1>4, <1>5, <1>6 DEF Vault!Noted
<1>7. CASE ~ok
  BY <1>1, <1>2, <1>3, <1>4, <1>5, <1>7 DEF Vault!Noted
<1> QED
  BY <1>6, <1>7

LEMMA VaultSetCurrentUserTypes ==
    ASSUME VaultAssumed, VaultTypes, NEW u \in Users, Vault!SetCurrentUser(u) PROVE VaultTypes'
<1>1. /\ loggedIn' = loggedIn + 1 /\ loggedIn' \in 0..MaxLogins /\ loggedIn \in Nat
            /\ madeFor' = madeFor
      /\ prefs' = [prefs EXCEPT !.mem.user = u,
                      !.mem.login = IF prefs.mem.user = None THEN loggedIn + 1 ELSE @]
      /\ account' = [account EXCEPT !.pc = "changed"]
      /\ UNCHANGED <<cleanup, keys, files, content, gate, queue, worker, mailbox, counts,
                     faults, troubled>>
  BY DEF Vault!SetCurrentUser, VaultTypes, VaultAssumed
<1>2. /\ Vault!Generations \subseteq Vault!Generations'
            /\ VaultHalves \subseteq VaultHalves' /\ VaultAccounts \subseteq VaultAccounts'
      /\ VaultTasks \subseteq VaultTasks' /\ VaultWorkers \subseteq VaultWorkers'
      /\ [token : Vault!Token, gen : 0..Len(madeFor)] \subseteq [token : Vault!Token,
            gen : 0..Len(madeFor)]'
  <2>1. Len(madeFor') >= Len(madeFor)
    BY <1>1, LenProperties DEF VaultTypes
  <2> QED
    BY <1>1, <2>1, VaultGrowth
<1>3. prefs' \in [mem : VaultHalves', disk : VaultHalves']
  <2>1. prefs.mem \in VaultHalves /\ prefs.disk \in VaultHalves'
            /\ prefs \in [mem : VaultHalves, disk : VaultHalves]
    BY <1>2 DEF VaultTypes
  <2>2. loggedIn + 1 \in 0..loggedIn' /\ prefs.mem.login \in 0..loggedIn'
    BY <1>1, <2>1 DEF VaultHalves
  <2>3. [prefs.mem EXCEPT !.user = u,
            !.login = IF prefs.mem.user = None THEN loggedIn + 1 ELSE @] \in VaultHalves'
    BY <1>1, <2>1, <2>2 DEF VaultHalves
  <2> QED
    BY <1>1, <2>1, <2>3
<1>4. account' \in VaultAccounts'
  BY <1>1, <1>2 DEF VaultTypes, VaultAccounts
<1>5. queue' \in Seq(VaultTasks') /\ worker' \in VaultWorkers'
  BY <1>1, <1>2, SeqMonotonic DEF VaultTypes
<1>6. mailbox' \in Seq([token : Vault!Token, gen : 0..Len(madeFor)]')
  <2>1. mailbox \in Seq([token : Vault!Token, gen : 0..Len(madeFor)])
    BY DEF VaultTypes
  <2>2. mailbox \in Seq([token : Vault!Token, gen : 0..Len(madeFor)]')
    BY <1>2, <2>1, SeqMonotonic, Zenon
  <2> QED
    BY <1>1, <2>2
<1>7. madeFor' \in Seq([user : Users, login : 1..loggedIn'])
  <2>1. [user : Users, login : 1..loggedIn] \subseteq [user : Users, login : 1..loggedIn']
    BY <1>1
  <2>2. madeFor \in Seq([user : Users, login : 1..loggedIn])
    BY DEF VaultTypes
  <2>3. madeFor \in Seq([user : Users, login : 1..loggedIn'])
    BY <2>1, <2>2, SeqMonotonic, Zenon
  <2> QED
    BY <1>1, <2>3
<1> QED
  BY <1>1, <1>2, <1>3, <1>4, <1>5, <1>6, <1>7 DEF VaultTypes

LEMMA VaultAccountTypes ==
    ASSUME VaultAssumed, VaultTypes, Vault!onOwnerChanged \/ Vault!Revoke
          \/ Vault!ClearConfig \/ Vault!SaveConfig \/ Vault!onLock \/ Vault!Unlock
    PROVE  VaultTypes'
<1>0. /\ account \in VaultAccounts /\ gate.epoch \in Nat /\ gate.lockEpoch \in 0..MaxLocks
      /\ gate.retired \in BOOLEAN /\ gate.unlocked \in BOOLEAN
      /\ prefs.mem \in VaultHalves /\ prefs.disk \in VaultHalves /\ 0 \in 0..Len(madeFor)
            /\ 0 \in 0..loggedIn
      /\ counts.restarts \in Nat /\ MaxLocks \in Nat
      /\ gate \in [epoch : Nat, retired : BOOLEAN, lockEpoch : 0..MaxLocks, unlocked : BOOLEAN]
  BY LenProperties DEF VaultTypes, VaultAssumed
<1>1. /\ UNCHANGED <<madeFor, loggedIn, cleanup, content, keys, files, queue, worker, mailbox,
                     counts, faults, troubled>>
  BY DEF Vault!onOwnerChanged, Vault!Revoke, Vault!ClearConfig, Vault!SaveConfig,
     Vault!onLock, Vault!Unlock, Vault!disk, Vault!process
<1>2. gate' \in [epoch : Nat, retired : BOOLEAN, lockEpoch : 0..MaxLocks, unlocked : BOOLEAN]
  <2>1. CASE Vault!onOwnerChanged \/ Vault!Revoke
    <3>1. gate.epoch + 1 \in Nat
      BY <1>0
    <3>2. \/ gate' = [gate EXCEPT !.epoch = gate.epoch + 1, !.retired = FALSE]
          \/ gate' = [gate EXCEPT !.epoch = gate.epoch + 1, !.retired = TRUE]
      BY <2>1 DEF Vault!onOwnerChanged, Vault!Revoke
    <3> QED
      BY <1>0, <3>1, <3>2
  <2>2. CASE Vault!onLock
    <3>1. gate.lockEpoch + 1 \in 0..MaxLocks
      BY <1>0, <2>2 DEF Vault!onLock
    <3>2. gate' = [gate EXCEPT !.unlocked = FALSE, !.lockEpoch = gate.lockEpoch + 1]
      BY <2>2 DEF Vault!onLock
    <3> QED
      BY <1>0, <3>1, <3>2
  <2>3. CASE Vault!Unlock \/ Vault!ClearConfig \/ Vault!SaveConfig
    BY <1>0, <2>3 DEF Vault!ClearConfig, Vault!SaveConfig, Vault!Unlock, VaultTypes,
       Vault!process
  <2> QED
    BY <2>1, <2>2, <2>3
<1>3. account' \in VaultAccounts
  <2>1. CASE Vault!onOwnerChanged \/ Vault!Revoke \/ Vault!onLock \/ Vault!Unlock
    BY <1>0, <2>1 DEF Vault!onOwnerChanged, Vault!Revoke, Vault!onLock, Vault!Unlock,
       VaultAccounts
  <2>2. CASE Vault!ClearConfig \/ Vault!SaveConfig
    BY <1>0, <2>2 DEF Vault!ClearConfig, Vault!SaveConfig, VaultAccounts, Vault!process
  <2> QED
    BY <2>1, <2>2
<1>4. prefs' \in [mem : VaultHalves, disk : VaultHalves]
  <2>1. Vault!Nobody \in VaultHalves
    BY <1>0 DEF Vault!Nobody, VaultHalves
  <2>2. CASE Vault!ClearConfig
    BY <1>0, <2>1, <2>2 DEF Vault!ClearConfig, VaultTypes
  <2>3. CASE ~Vault!ClearConfig
    BY <1>0, <2>3 DEF Vault!onOwnerChanged, Vault!Revoke, Vault!SaveConfig, Vault!onLock,
       Vault!Unlock, VaultTypes
  <2> QED
    BY <2>2, <2>3
<1> QED
  BY <1>1, <1>2, <1>3, <1>4, VaultStillTypes DEF VaultTypes

LEMMA VaultRetireStoredTypes == ASSUME VaultAssumed, VaultTypes, Vault!RetireStored
    PROVE VaultTypes'
<1>1. /\ UNCHANGED <<prefs, madeFor, loggedIn, content, keys, files, gate, queue, worker,
            mailbox, counts>>
      /\ account' = [pc |-> "remove", gen |-> prefs.mem.gen]
      /\ prefs.mem.gen \in 0..Len(madeFor)
  BY DEF Vault!RetireStored, Vault!disk, Vault!process, VaultTypes, VaultHalves
<1>2. account' \in VaultAccounts
  BY <1>1 DEF VaultAccounts
<1>3. /\ cleanup' \in [mem : SUBSET Vault!Generations, disk : SUBSET Vault!Generations]
      /\ faults' \in 0..MaxFaults /\ troubled' \subseteq Vault!Generations
  <2>1. CASE prefs.mem.gen = 0
    BY <2>1 DEF Vault!RetireStored, VaultTypes
  <2>2. CASE prefs.mem.gen # 0
    <3>1. prefs.mem.gen \in Vault!Generations /\ Vault!Retire(prefs.mem.gen)
      BY <1>1, <2>2 DEF Vault!RetireStored, Vault!Generations
    <3> QED
      BY <3>1, VaultRetireFacts DEF VaultTypes
  <2> QED
    BY <2>1, <2>2
<1> QED
  BY <1>1, <1>2, <1>3, VaultStillTypes DEF VaultTypes

LEMMA VaultRemoveStoredTypes == ASSUME VaultAssumed, VaultTypes, Vault!RemoveStored
    PROVE VaultTypes'
<1>1. /\ UNCHANGED <<cleanup, madeFor, loggedIn, content, keys, files, gate, queue, worker,
            mailbox, counts>>
      /\ account' = [account EXCEPT !.pc = "destroy"]
  BY DEF Vault!RemoveStored, Vault!disk
<1>2. account' \in VaultAccounts
  BY <1>1 DEF VaultAccounts, VaultTypes
<1>3. prefs' \in [mem : VaultHalves, disk : VaultHalves] /\ faults' \in 0..MaxFaults
      /\ troubled' \subseteq Vault!Generations
  <2>1. CASE account.gen = 0
    <3>1. PICK ok \in Vault!Commits : /\ prefs' = Vault!Written(prefs,
                                            Vault!Cleared(prefs.mem), ok)
                                      /\ UNCHANGED <<faults, troubled>>
      BY <2>1 DEF Vault!RemoveStored
    <3>2. Vault!Cleared(prefs.mem) \in VaultHalves /\ prefs.disk \in VaultHalves
      <4>1. 0 \in 0..Len(madeFor) /\ prefs.mem \in VaultHalves
        BY LenProperties DEF VaultTypes
      <4> QED
        BY <4>1 DEF Vault!Cleared, VaultHalves, VaultTypes
    <3> QED
      BY <3>1, <3>2 DEF Vault!Written, VaultTypes
  <2>2. CASE account.gen # 0
    <3>1. account.gen \in Vault!Generations /\ VaultRemoves(account.gen)
      BY <2>2 DEF Vault!RemoveStored, VaultRemoves, VaultTypes, VaultAccounts, Vault!Generations
    <3> QED
      BY <3>1, VaultRemovesFacts DEF VaultTypes
  <2> QED
    BY <2>1, <2>2
<1> QED
  BY <1>1, <1>2, <1>3, VaultStillTypes DEF VaultTypes

LEMMA VaultEnqueueDestroyTypes == ASSUME VaultAssumed, VaultTypes, Vault!EnqueueDestroy
    PROVE VaultTypes'
<1>1. /\ UNCHANGED <<prefs, cleanup, madeFor, loggedIn, content, keys, files, gate, worker,
            mailbox, counts,
                     faults, troubled>>
      /\ account' = [account EXCEPT !.pc = "clear"]
  BY DEF Vault!EnqueueDestroy, Vault!disk
<1>2. account' \in VaultAccounts
  BY <1>1 DEF VaultAccounts, VaultTypes
<1>3. queue' \in Seq(VaultTasks)
  <2>1. CASE account.gen = 0
    BY <2>1 DEF Vault!EnqueueDestroy, VaultTypes
  <2>2. CASE account.gen # 0
    <3>1. [kind |-> "destroy", gen |-> account.gen] \in VaultTasks
      BY <2>2 DEF VaultTypes, VaultAccounts, VaultTasks, Vault!Generations
    <3> QED
      BY <2>2, <3>1, VaultAppendElems DEF Vault!EnqueueDestroy, VaultTypes
  <2> QED
    BY <2>1, <2>2
<1> QED
  BY <1>1, <1>2, <1>3, VaultStillTypes DEF VaultTypes

LEMMA VaultSubmitTypes == ASSUME VaultAssumed, VaultTypes, VaultHalvesInv, Vault!Submit
    PROVE VaultTypes'
<1> DEFINE t == [user |-> prefs.mem.user, login |-> prefs.mem.login, epoch |-> gate.epoch,
                 lockEpoch |-> gate.lockEpoch]
<1>1. /\ UNCHANGED <<prefs, cleanup, madeFor, loggedIn, content, keys, files, gate, account,
            worker,
                     mailbox, faults, troubled>>
      /\ queue' = Append(queue, [kind |-> "submit", token |-> t])
      /\ counts' = [counts EXCEPT !.submits = @ + 1] /\ prefs.mem.user # None
  BY DEF Vault!Submit, Vault!disk
<1>2. t \in Vault!Token
  <2>1. prefs.mem \in VaultHalves /\ prefs.mem.login # 0
    BY <1>1 DEF VaultHalvesInv, VaultWhole, VaultTypes
  <2>2. prefs.mem.user \in Users /\ prefs.mem.login \in 1..loggedIn
    BY <1>1, <2>1 DEF VaultHalves, VaultTypes
  <2>3. gate.epoch \in Nat /\ gate.lockEpoch \in Nat
    BY DEF VaultTypes
  <2> QED
    BY <2>2, <2>3 DEF Vault!Token
<1>3. [kind |-> "submit", token |-> t] \in VaultTasks
  BY <1>2 DEF VaultTasks
<1> HIDE DEF t
<1>4. queue' \in Seq(VaultTasks)
  BY <1>1, <1>3, VaultAppendElems DEF VaultTypes
<1>5. counts' \in [submits : Nat, restarts : Nat]
  <2>1. counts.submits + 1 \in Nat /\ counts \in [submits : Nat, restarts : Nat]
    BY DEF VaultTypes
  <2> QED
    BY <1>1, <2>1
<1> QED
  BY <1>1, <1>4, <1>5, VaultStillTypes DEF VaultTypes

LEMMA VaultCallbackTypes == ASSUME VaultAssumed, VaultTypes, Vault!Callback PROVE VaultTypes'
<1>1. /\ UNCHANGED <<prefs, cleanup, madeFor, loggedIn, content, keys, files, gate, account,
            worker,
                     queue, counts, faults, troubled>>
      /\ mailbox # <<>> /\ mailbox' = Tail(mailbox)
  BY DEF Vault!Callback, Vault!disk
<1>2. mailbox' \in Seq([token : Vault!Token, gen : 0..Len(madeFor)])
  BY <1>1, VaultTakeElems DEF VaultTypes
<1> QED
  BY <1>1, <1>2, VaultStillTypes DEF VaultTypes

(* A generation that is destroyed is one.                                  *)
LEMMA VaultDestroyedGen == ASSUME VaultTypes, VaultDestroyInv, worker.pc \in VaultDestroying
                      PROVE  worker.gen \in Vault!Generations
  BY VaultWorkerShape DEF VaultTypes, VaultDestroyInv, Vault!Generations

LEMMA VaultDestroyTypes ==
    ASSUME VaultAssumed, VaultTypes, VaultDestroyInv,
           Vault!Tombstone \/ Vault!Unbind \/ Vault!DeleteKey \/ Vault!DeleteFile
                 \/ Vault!Forget
    PROVE  VaultTypes'
<1>1. UNCHANGED <<madeFor, loggedIn, gate, account, mailbox, counts, queue>>
  BY DEF Vault!Tombstone, Vault!Unbind, Vault!DeleteKey, Vault!DeleteFile, Vault!Forget,
     Vault!disk, Vault!process
<1>2. worker.pc \in VaultDestroying /\ worker.gen \in Vault!Generations
  BY VaultDestroyedGen DEF Vault!Tombstone, Vault!Unbind, Vault!DeleteKey, Vault!DeleteFile,
     Vault!Forget, VaultDestroying
<1>3. worker' \in VaultWorkers
  <2>1. worker \in VaultWorkers
    BY DEF VaultTypes
  <2>2. Vault!Destroyed \/ \E p \in VaultDestroying : Vault!Goto(p)
    BY DEF Vault!Tombstone, Vault!Unbind, Vault!DeleteKey, Vault!DeleteFile, Vault!Forget,
       VaultDestroying
  <2> QED
    BY <1>2, <2>1, <2>2, VaultDestroyedTypes, VaultGotoTypes DEF Vault!Goto
<1>4. CASE Vault!Tombstone
  <2>1. UNCHANGED <<prefs, content, keys, files>> /\ Vault!Retire(worker.gen)
    BY <1>4 DEF Vault!Tombstone, Vault!disk
  <2> QED
    BY <1>1, <1>2, <1>3, <2>1, VaultRetireFacts, VaultStillTypes DEF VaultTypes
<1>5. CASE Vault!Unbind
  <2>1. UNCHANGED <<cleanup, content, keys, files>>
    BY <1>5 DEF Vault!Unbind, Vault!disk
  <2>2. VaultRemoves(worker.gen) \/ UNCHANGED <<prefs, faults, troubled>>
    BY <1>5 DEF Vault!Unbind, VaultRemoves
  <2> QED
    BY <1>1, <1>2, <1>3, <2>1, <2>2, VaultRemovesFacts, VaultStillTypes DEF VaultTypes
<1>6. CASE Vault!DeleteKey \/ Vault!DeleteFile
  <2>1. /\ UNCHANGED <<prefs, cleanup, troubled>>
        /\ content' \subseteq content /\ keys' \subseteq keys /\ files' \subseteq files
        /\ faults' = faults \/ (faults < MaxFaults /\ faults' = faults + 1)
    BY <1>6 DEF Vault!DeleteKey, Vault!DeleteFile, Vault!Threw, Vault!Fault
  <2>2. faults' \in 0..MaxFaults
    BY <2>1 DEF VaultTypes, VaultAssumed
  <2> QED
    BY <1>1, <1>3, <2>1, <2>2, VaultStillTypes DEF VaultTypes
<1>7. CASE Vault!Forget
  <2>1. PICK ok \in Vault!Commits : /\ cleanup' = Vault!Written(cleanup,
                                          cleanup.mem \ {worker.gen}, ok)
                                    /\ Vault!Counted(ok)
    BY <1>7 DEF Vault!Forget
  <2>2. UNCHANGED <<prefs, content, keys, files, troubled>>
    BY <1>7 DEF Vault!Forget, Vault!disk
  <2>3. cleanup' \in [mem : SUBSET Vault!Generations, disk : SUBSET Vault!Generations]
    BY <2>1 DEF Vault!Written, VaultTypes
  <2> QED
    BY <1>1, <1>3, <2>1, <2>2, <2>3, VaultCommitFacts, VaultStillTypes DEF VaultTypes
<1> QED
  BY <1>4, <1>5, <1>6, <1>7

LEMMA VaultTakeTypes == ASSUME VaultAssumed, VaultTypes, Vault!Take PROVE VaultTypes'
<1>1. /\ UNCHANGED <<prefs, cleanup, madeFor, loggedIn, content, keys, files, gate, account,
            mailbox,
                     counts, faults, troubled>>
      /\ queue # <<>> /\ queue' = Tail(queue)
  BY DEF Vault!Take, Vault!disk, Vault!process
<1>2. queue' \in Seq(VaultTasks) /\ Head(queue) \in VaultTasks
  BY <1>1, VaultTakeElems DEF VaultTypes
<1>3. worker' \in VaultWorkers
  <2>1. CASE Head(queue).kind = "sweep"
    <3>1. worker' = [Vault!Idle EXCEPT !.pc = "sweep", !.left = cleanup.mem]
              /\ cleanup.mem \subseteq Vault!Generations
      BY <2>1 DEF Vault!Take, VaultTypes
    <3> QED
      BY <3>1, VaultIdleTypes DEF VaultSweepers, VaultWorkers
  <2>2. CASE Head(queue).kind = "destroy"
    <3>1. worker' = [Vault!Idle EXCEPT !.pc = "tombstone", !.gen = Head(queue).gen]
      BY <2>2 DEF Vault!Take
    <3>2. Head(queue).gen \in 0..Len(madeFor)
      BY <1>2, <2>2 DEF VaultTasks, Vault!Generations
    <3> QED
      BY <3>1, <3>2, VaultIdleTypes DEF VaultSweepers, VaultWorkers, VaultDestroying
  <2>3. CASE Head(queue).kind = "submit"
    <3>1. \/ worker' = Vault!Idle
          \/ worker' = [pc |-> "open", gen |-> 0, left |-> {}, back |-> "idle",
                        token |-> Head(queue).token]
      BY <2>3 DEF Vault!Take
    <3>2. Head(queue).token \in Vault!Token /\ 0 \in 0..Len(madeFor)
      BY <1>2, <2>3, LenProperties DEF VaultTasks, VaultTypes
    <3> QED
      BY <3>1, <3>2, VaultIdleTypes DEF VaultServants, VaultWorkers, VaultServingSteps
  <2> QED
    BY <1>2, <2>1, <2>2, <2>3 DEF VaultTasks
<1> QED
  BY <1>1, <1>2, <1>3, VaultStillTypes DEF VaultTypes

LEMMA VaultSweepNextTypes == ASSUME VaultAssumed, VaultTypes, Vault!SweepNext PROVE VaultTypes'
<1>1. /\ UNCHANGED <<prefs, cleanup, madeFor, loggedIn, content, keys, files, gate, account,
            mailbox,
                     counts, queue, faults, troubled>>
  BY DEF Vault!SweepNext, Vault!disk, Vault!process
<1>2. worker' \in VaultWorkers
  <2>1. worker \in VaultSweepers
    BY VaultWorkerShape DEF Vault!SweepNext, VaultTypes
  <2>2. CASE worker.left = {}
    BY <2>2, VaultIdleTypes DEF Vault!SweepNext
  <2>3. CASE worker.left # {}
    <3>1. PICK g \in worker.left :
             worker' = [worker EXCEPT !.pc = "tombstone", !.gen = g, !.left = @ \ {g},
                   !.back = "sweep"]
      BY <2>3 DEF Vault!SweepNext
    <3>2. g \in 0..Len(madeFor) /\ worker.left \ {g} \subseteq Vault!Generations
      BY <2>1 DEF VaultSweepers, Vault!Generations
    <3> QED
      BY <2>1, <3>1, <3>2 DEF VaultSweepers, VaultWorkers, VaultDestroying
  <2> QED
    BY <2>2, <2>3
<1> QED
  BY <1>1, <1>2, VaultStillTypes DEF VaultTypes

LEMMA VaultReadMetadataTypes == ASSUME VaultAssumed, VaultTypes, VaultHalvesInv, Vault!ReadMetadata
    PROVE VaultTypes'
<1>1. UNCHANGED <<prefs, madeFor, loggedIn, content, keys, files, gate, account, mailbox,
          counts, queue>>
  BY DEF Vault!ReadMetadata, Vault!disk, Vault!process
<1>2. worker \in VaultServants /\ prefs.mem.gen \in 0..Len(madeFor)
  BY VaultWorkerShape DEF Vault!ReadMetadata, VaultTypes, VaultServing, VaultServingSteps,
     VaultHalves
<1>3. worker' \in VaultWorkers
  <2>1. \/ worker' = [worker EXCEPT !.pc = "failed"]
        \/ \E p \in {"create", "load", "replace"} :
              worker' = [worker EXCEPT !.gen = prefs.mem.gen, !.pc = p]
    BY DEF Vault!ReadMetadata, Vault!Goto
  <2> QED
    BY <1>2, <2>1 DEF VaultServants, VaultWorkers, VaultServingSteps
<1>4. \/ UNCHANGED <<cleanup, faults, troubled>>
      \/ Vault!Retire(prefs.mem.gen) /\ prefs.mem.gen \in Vault!Generations
  BY <1>2 DEF Vault!ReadMetadata, VaultHalvesInv, VaultWhole, Vault!Generations
<1>5. /\ cleanup' \in [mem : SUBSET Vault!Generations, disk : SUBSET Vault!Generations]
      /\ faults' \in 0..MaxFaults /\ troubled' \subseteq Vault!Generations
  BY <1>4, VaultRetireFacts DEF VaultTypes
<1> QED
  BY <1>1, <1>3, <1>5, VaultStillTypes DEF VaultTypes

LEMMA VaultAbandonTypes == ASSUME VaultAssumed, VaultTypes, VaultServeInv, Vault!Abandon
    PROVE VaultTypes'
<1>1. UNCHANGED <<cleanup, madeFor, loggedIn, content, keys, files, gate, account, mailbox,
          counts, queue>>
  BY DEF Vault!Abandon, Vault!disk, Vault!process
<1>2. worker \in VaultServants /\ worker.gen \in Vault!Generations
  BY VaultWorkerShape DEF Vault!Abandon, VaultTypes, VaultServing, VaultServingSteps,
     VaultServeInv, Vault!Generations
<1>3. worker' \in VaultWorkers
  <2>1. \/ worker' = [worker EXCEPT !.pc = "failed"]
        \/ worker' = [worker EXCEPT !.pc = "tombstone", !.back = "create"]
    BY DEF Vault!Abandon, Vault!Goto
  <2> QED
    BY <1>2, <2>1 DEF VaultServants, VaultWorkers, VaultServingSteps, VaultDestroying
<1>4. VaultRemoves(worker.gen)
  BY DEF Vault!Abandon, VaultRemoves
<1> QED
  BY <1>1, <1>2, <1>3, <1>4, VaultRemovesFacts, VaultStillTypes DEF VaultTypes

LEMMA VaultLoadTypes == ASSUME VaultAssumed, VaultTypes, Vault!Load \/ Vault!Check
    PROVE VaultTypes'
<1>1. UNCHANGED <<prefs, cleanup, madeFor, loggedIn, content, keys, files, gate, account,
          mailbox, counts,
                  queue, troubled>>
  BY DEF Vault!Load, Vault!Check, Vault!disk, Vault!process
<1>2. worker \in VaultServants
  BY VaultWorkerShape DEF Vault!Load, Vault!Check, VaultTypes, VaultServing, VaultServingSteps
<1>3. worker' \in VaultWorkers
  <2>1. worker' = Vault!Idle \/ \E p \in VaultServingSteps : worker' = [worker EXCEPT !.pc = p]
    BY DEF Vault!Load, Vault!Check, Vault!Goto, VaultServingSteps
  <2> QED
    BY <1>2, <2>1, VaultIdleTypes DEF VaultServants, VaultWorkers
<1>4. faults' \in 0..MaxFaults
  BY DEF Vault!Load, Vault!Check, Vault!Fault, VaultTypes, VaultAssumed
<1> QED
  BY <1>1, <1>3, <1>4, VaultStillTypes DEF VaultTypes

LEMMA VaultCreateKeyTypes == ASSUME VaultAssumed, VaultTypes, Vault!CreateKey PROVE VaultTypes'
<1>1. UNCHANGED <<prefs, cleanup, loggedIn, content, files, gate, account, mailbox, counts,
          queue, troubled>>
  BY DEF Vault!CreateKey, Vault!process
<1>2. worker \in VaultServants /\ worker.token \in Vault!Token
  BY VaultWorkerShape DEF Vault!CreateKey, VaultTypes, VaultServing, VaultServingSteps
<1>3. faults' \in 0..MaxFaults
  BY DEF Vault!CreateKey, Vault!Fault, VaultTypes, VaultAssumed
<1>4. CASE worker' = [worker EXCEPT !.pc = "failed"] /\ UNCHANGED <<madeFor, keys>>
  <2>1. worker' \in VaultWorkers
    BY <1>2, <1>4 DEF VaultServants, VaultWorkers, VaultServingSteps
  <2> QED
    BY <1>1, <1>3, <1>4, <2>1, VaultStillTypes DEF VaultTypes
<1>5. CASE /\ madeFor' = Append(madeFor, [user |-> worker.token.user,
                 login |-> worker.token.login])
           /\ keys' = keys \cup {Len(madeFor) + 1}
           /\ worker' = [worker EXCEPT !.pc = "createFile", !.gen = Len(madeFor) + 1,
                 !.back = "failed"]
  <2>1. [user |-> worker.token.user, login |-> worker.token.login] \in [user : Users,
            login : 1..loggedIn]
    BY <1>2 DEF Vault!Token
  <2>2. /\ madeFor' \in Seq([user : Users, login : 1..loggedIn])
              /\ Len(madeFor') = Len(madeFor) + 1
        /\ Len(madeFor) \in Nat
        /\ madeFor' = Append(madeFor, madeFor'[Len(madeFor) + 1])
    <3>1. madeFor \in Seq([user : Users, login : 1..loggedIn])
      BY DEF VaultTypes
    <3> QED
      BY <1>5, <2>1, <3>1, AppendProperties, LenProperties
  <2>3. /\ Vault!Generations \subseteq Vault!Generations'
              /\ VaultHalves \subseteq VaultHalves' /\ VaultAccounts \subseteq VaultAccounts'
        /\ VaultTasks \subseteq VaultTasks' /\ VaultWorkers \subseteq VaultWorkers'
              /\ Vault!Token \subseteq Vault!Token'
        /\ [token : Vault!Token, gen : 0..Len(madeFor)] \subseteq [token : Vault!Token,
              gen : 0..Len(madeFor)]'
    BY <1>1, <2>2, VaultGrowth
  <2>4. keys' \subseteq Vault!Generations'
            /\ 0..Len(madeFor') = 0..Len(madeFor) \cup {Len(madeFor) + 1}
    BY <1>5, <2>2, <2>3 DEF VaultTypes, Vault!Generations
  <2>5. worker' \in VaultWorkers'
    BY <1>2, <1>5, <2>3, <2>4 DEF VaultServants, VaultWorkers, VaultServingSteps
  <2>6. queue' \in Seq(VaultTasks')
            /\ mailbox' \in Seq([token : Vault!Token, gen : 0..Len(madeFor)]')
    <3>1. queue \in Seq(VaultTasks)
              /\ mailbox \in Seq([token : Vault!Token, gen : 0..Len(madeFor)])
      BY DEF VaultTypes
    <3>2. queue \in Seq(VaultTasks')
      BY <2>3, <3>1, SeqMonotonic, Zenon
    <3>3. mailbox \in Seq([token : Vault!Token, gen : 0..Len(madeFor)]')
      BY <2>3, <3>1, SeqMonotonic, Zenon
    <3> QED
      BY <1>1, <3>2, <3>3
  <2>7. prefs' \in [mem : VaultHalves', disk : VaultHalves'] /\ account' \in VaultAccounts'
    BY <1>1, <2>3 DEF VaultTypes
  <2> QED
    BY <1>1, <1>3, <2>2, <2>3, <2>4, <2>5, <2>6, <2>7 DEF VaultTypes
<1> QED
  BY <1>4, <1>5 DEF Vault!CreateKey, Vault!Goto

LEMMA VaultCreateFileTypes == ASSUME VaultAssumed, VaultTypes, VaultNewInv, Vault!CreateFile
    PROVE VaultTypes'
<1>1. UNCHANGED <<prefs, cleanup, madeFor, loggedIn, content, keys, gate, account, mailbox,
          counts, queue,
                  troubled>>
  BY DEF Vault!CreateFile, Vault!process
<1>2. worker \in VaultServants
  BY VaultWorkerShape DEF Vault!CreateFile, VaultTypes, VaultServing, VaultServingSteps
<1>3. worker' \in VaultWorkers
  <2>1. \E p \in {"publish", "tombstone"} : worker' = [worker EXCEPT !.pc = p]
    BY DEF Vault!CreateFile, Vault!Goto
  <2> QED
    BY <1>2, <2>1 DEF VaultServants, VaultWorkers, VaultServingSteps, VaultDestroying
<1>4. faults' \in 0..MaxFaults
  BY DEF Vault!CreateFile, Vault!Fault, VaultTypes, VaultAssumed
<1>5. files' \subseteq Vault!Generations
  <2>1. worker.gen \in Vault!Generations
    BY VaultWorkerShape DEF Vault!CreateFile, VaultTypes, VaultNewInv, Vault!Generations
  <2> QED
    BY <2>1 DEF Vault!CreateFile, VaultTypes
<1> QED
  BY <1>1, <1>3, <1>4, <1>5, VaultStillTypes DEF VaultTypes

LEMMA VaultPublishTypes == ASSUME VaultAssumed, VaultTypes, Vault!Publish PROVE VaultTypes'
<1>1. UNCHANGED <<cleanup, madeFor, loggedIn, content, keys, files, gate, account, mailbox,
          counts, queue,
                  troubled>>
  BY DEF Vault!Publish, Vault!disk, Vault!process
<1>2. worker \in VaultServants /\ worker.token.user \in Users /\ worker.gen \in 0..Len(madeFor)
  BY VaultWorkerShape DEF Vault!Publish, VaultTypes, VaultServing, VaultServingSteps,
     Vault!Token
<1>3. worker' \in VaultWorkers
  <2>1. \E p \in {"check", "tombstone"} : worker' = [worker EXCEPT !.pc = p]
    BY DEF Vault!Publish, Vault!Goto
  <2> QED
    BY <1>2, <2>1 DEF VaultServants, VaultWorkers, VaultServingSteps, VaultDestroying
<1>4. prefs' \in [mem : VaultHalves, disk : VaultHalves] /\ faults' \in 0..MaxFaults
  <2>1. CASE UNCHANGED <<prefs, faults>>
    BY <2>1 DEF VaultTypes
  <2>2. CASE ~UNCHANGED <<prefs, faults>>
    <3> DEFINE m == [prefs.mem EXCEPT !.gen = worker.gen, !.owner = worker.token.user]
    <3>1. PICK ok \in Vault!Commits : prefs' = Vault!Written(prefs, m, ok) /\ Vault!Counted(ok)
      BY <2>2 DEF Vault!Publish
    <3>2. m \in VaultHalves /\ prefs.disk \in VaultHalves
      BY <1>2 DEF VaultTypes, VaultHalves
    <3> HIDE DEF m
    <3> QED
      BY <3>1, <3>2, VaultCommitFacts DEF Vault!Written
  <2> QED
    BY <2>1, <2>2
<1> QED
  BY <1>1, <1>3, <1>4, VaultStillTypes DEF VaultTypes

LEMMA VaultPostTypes == ASSUME VaultAssumed, VaultTypes, VaultServeInv, Vault!Run \/ Vault!Failed
    PROVE VaultTypes'
<1>1. UNCHANGED <<prefs, cleanup, madeFor, loggedIn, keys, files, gate, account, counts,
          queue, faults,
                  troubled>>
  BY DEF Vault!Run, Vault!Failed, Vault!disk
<1>2. worker.token \in Vault!Token /\ worker.gen \in 0..Len(madeFor) /\ 0 \in 0..Len(madeFor)
  BY VaultWorkerShape, LenProperties DEF Vault!Run, Vault!Failed, VaultTypes, VaultServing,
     VaultServingSteps
<1>3. PICK g \in {0, worker.gen} : mailbox' = Append(mailbox, [token |-> worker.token,
          gen |-> g])
  BY DEF Vault!Run, Vault!Failed, Vault!Post
<1>4. mailbox' \in Seq([token : Vault!Token, gen : 0..Len(madeFor)])
  <2>1. [token |-> worker.token, gen |-> g] \in [token : Vault!Token, gen : 0..Len(madeFor)]
    BY <1>2
  <2> QED
    BY <1>3, <2>1, VaultAppendElems DEF VaultTypes
<1>5. content' \subseteq Vault!Generations
  <2>1. worker.pc = "run" => worker.gen \in Vault!Generations
    BY <1>2 DEF VaultServeInv, Vault!Generations
  <2> QED
    BY <2>1 DEF Vault!Run, Vault!Failed, Vault!disk, VaultTypes
<1>6. worker' \in VaultWorkers
  BY VaultIdleTypes DEF Vault!Run, Vault!Failed
<1> QED
  BY <1>1, <1>4, <1>5, <1>6, VaultStillTypes DEF VaultTypes

LEMMA VaultRestartTypes == ASSUME VaultAssumed, VaultTypes, Vault!Restart PROVE VaultTypes'
<1>1. /\ UNCHANGED <<keys, files, content, madeFor, loggedIn, troubled>>
      /\ queue' = <<Vault!Sweep>> /\ worker' = Vault!Idle /\ mailbox' = <<>> /\ faults' = 0
      /\ account' = [pc |-> "idle", gen |-> 0]
      /\ prefs' = [prefs EXCEPT !.mem = prefs.disk]
            /\ cleanup' = [cleanup EXCEPT !.mem = cleanup.disk]
      /\ gate' \in [epoch : {0}, retired : {FALSE}, lockEpoch : {0}, unlocked : {TRUE}]
      /\ counts' = [counts EXCEPT !.restarts = @ + 1]
  BY DEF Vault!Restart, Vault!disk
<1>2. 0 \in 0..Len(madeFor) /\ 0 \in 0..MaxLocks /\ 0 \in 0..MaxFaults
  BY LenProperties DEF VaultTypes, VaultAssumed
<1>3. gate' \in [epoch : Nat, retired : BOOLEAN, lockEpoch : 0..MaxLocks, unlocked : BOOLEAN]
  <2>1. gate' = [epoch |-> 0, retired |-> FALSE, lockEpoch |-> 0, unlocked |-> TRUE]
    BY <1>1
  <2> QED
    BY <1>2, <2>1
<1>4. account' \in VaultAccounts
  BY <1>1, <1>2 DEF VaultAccounts
<1>5. queue' \in Seq(VaultTasks)
  <2>1. Vault!Sweep \in VaultTasks
    BY DEF Vault!Sweep, VaultTasks
  <2> QED
    BY <1>1, <2>1
<1>6. counts' \in [submits : Nat, restarts : Nat]
  <2>1. counts.restarts + 1 \in Nat /\ counts \in [submits : Nat, restarts : Nat]
    BY DEF VaultTypes
  <2> QED
    BY <1>1, <2>1
<1>7. /\ prefs' \in [mem : VaultHalves, disk : VaultHalves]
      /\ cleanup' \in [mem : SUBSET Vault!Generations, disk : SUBSET Vault!Generations]
  BY <1>1 DEF VaultTypes
<1>8. mailbox' \in Seq([token : Vault!Token, gen : 0..Len(madeFor)])
  BY <1>1, EmptySeq
<1> QED
  BY <1>1, <1>2, <1>3, <1>4, <1>5, <1>6, <1>7, <1>8, VaultIdleTypes, VaultStillTypes DEF
     VaultTypes

LEMMA VaultTypesKept == ASSUME VaultAssumed, VaultIInv, Vault!Next PROVE VaultTypes'
<1> USE DEF VaultIInv
<1>1. CASE \E u \in Users : Vault!SetCurrentUser(u)
  BY <1>1, VaultSetCurrentUserTypes
<1>2. CASE Vault!Revoke \/ Vault!AccountStep \/ Vault!SaveConfig \/ Vault!onLock \/ Vault!Unlock
  BY <1>2, VaultAccountTypes, VaultRetireStoredTypes, VaultRemoveStoredTypes,
     VaultEnqueueDestroyTypes DEF Vault!AccountStep
<1>3. CASE Vault!Submit \/ Vault!Callback \/ Vault!Restart
  BY <1>3, VaultSubmitTypes, VaultCallbackTypes, VaultRestartTypes
<1>4. CASE Vault!WorkerStep
  BY <1>4, VaultDestroyTypes, VaultTakeTypes, VaultSweepNextTypes, VaultReadMetadataTypes,
     VaultAbandonTypes, VaultLoadTypes, VaultCreateKeyTypes, VaultCreateFileTypes,
     VaultPublishTypes, VaultPostTypes DEF Vault!WorkerStep
<1> QED
  BY <1>1, <1>2, <1>3, <1>4 DEF Vault!Next

----------------------------------------------------------------------------
(* What the steps leave alone *)

LEMMA VaultPrefsSteps == ASSUME Vault!Next
    PROVE  \/ prefs' = prefs
           \/ \E u \in Users : Vault!SetCurrentUser(u)
           \/ Vault!RemoveStored \/ Vault!ClearConfig \/ Vault!SaveConfig \/ Vault!Unbind
                 \/ Vault!Abandon \/ Vault!Publish \/ Vault!Restart
  BY DEF Vault!Next, Vault!AccountStep, Vault!WorkerStep, Vault!Revoke, Vault!onOwnerChanged,
     Vault!RetireStored, Vault!EnqueueDestroy, Vault!onLock, Vault!Unlock, Vault!Submit,
     Vault!Callback, Vault!Tombstone, Vault!DeleteKey, Vault!DeleteFile, Vault!Forget,
     Vault!Take, Vault!SweepNext, Vault!ReadMetadata, Vault!Load, Vault!CreateKey,
     Vault!CreateFile, Vault!Check, Vault!Run, Vault!Failed

LEMMA VaultMemSteps == ASSUME VaultTypes, Vault!Next
    PROVE  \/ prefs'.mem = prefs.mem
           \/ \E u \in Users : Vault!SetCurrentUser(u)
           \/ Vault!RemoveStored \/ Vault!ClearConfig \/ Vault!Unbind \/ Vault!Abandon
                 \/ Vault!Publish \/ Vault!Restart
<1>1. Vault!SaveConfig => prefs'.mem = prefs.mem
  BY DEF Vault!SaveConfig, VaultTypes
<1> QED
  BY <1>1, VaultPrefsSteps

LEMMA VaultDiskSteps == ASSUME VaultTypes, Vault!Next
    PROVE  \/ prefs'.disk = prefs.disk
           \/ Vault!RemoveStored \/ Vault!SaveConfig \/ Vault!Unbind \/ Vault!Abandon
                 \/ Vault!Publish
<1>1. (\E u \in Users : Vault!SetCurrentUser(u)) \/ Vault!ClearConfig \/ Vault!Restart
          => prefs'.disk = prefs.disk
  BY DEF Vault!SetCurrentUser, Vault!ClearConfig, Vault!Restart, VaultTypes
<1> QED
  BY <1>1, VaultPrefsSteps

LEMMA VaultCleanupSteps == ASSUME Vault!Next
    PROVE  \/ cleanup' = cleanup
           \/ Vault!RetireStored \/ Vault!Tombstone \/ Vault!ReadMetadata \/ Vault!Forget
                 \/ Vault!Restart
  BY ZenonT(40) DEF Vault!Next, Vault!AccountStep, Vault!WorkerStep, Vault!SetCurrentUser,
     Vault!Revoke, Vault!onOwnerChanged, Vault!RemoveStored, Vault!EnqueueDestroy,
     Vault!ClearConfig, Vault!SaveConfig, Vault!onLock, Vault!Unlock, Vault!Submit,
     Vault!Callback, Vault!Unbind, Vault!DeleteKey, Vault!DeleteFile, Vault!Take,
     Vault!SweepNext, Vault!Abandon, Vault!Load, Vault!CreateKey, Vault!CreateFile,
     Vault!Publish, Vault!Check, Vault!Run, Vault!Failed

LEMMA VaultGateSteps == ASSUME VaultTypes, Vault!Next
    PROVE  \/ gate'.epoch = gate.epoch /\ gate'.retired = gate.retired
           \/ Vault!onOwnerChanged \/ Vault!Revoke \/ Vault!Restart
<1>1. gate' = gate \/ Vault!onOwnerChanged \/ Vault!Revoke \/ Vault!onLock \/ Vault!Unlock
          \/ Vault!Restart
  BY ZenonT(40) DEF Vault!Next, Vault!AccountStep, Vault!WorkerStep, Vault!SetCurrentUser,
     Vault!RetireStored, Vault!RemoveStored, Vault!EnqueueDestroy, Vault!ClearConfig,
     Vault!SaveConfig, Vault!Submit, Vault!Callback, Vault!Tombstone, Vault!Unbind,
     Vault!DeleteKey, Vault!DeleteFile, Vault!Forget, Vault!Take, Vault!SweepNext,
     Vault!ReadMetadata, Vault!Abandon, Vault!Load, Vault!CreateKey, Vault!CreateFile,
     Vault!Publish, Vault!Check, Vault!Run, Vault!Failed, Vault!process
<1>2. Vault!onLock \/ Vault!Unlock => gate'.epoch = gate.epoch /\ gate'.retired = gate.retired
  BY DEF Vault!onLock, Vault!Unlock, VaultTypes
<1> QED
  BY <1>1, <1>2

LEMMA VaultAccountSteps == ASSUME Vault!Next
    PROVE  \/ account' = account
           \/ \E u \in Users : Vault!SetCurrentUser(u)
           \/ Vault!Revoke \/ Vault!AccountStep \/ Vault!Restart
  BY ZenonT(40) DEF Vault!Next, Vault!WorkerStep, Vault!SaveConfig, Vault!onLock,
     Vault!Unlock, Vault!Submit, Vault!Callback, Vault!Tombstone, Vault!Unbind,
     Vault!DeleteKey, Vault!DeleteFile, Vault!Forget, Vault!Take, Vault!SweepNext,
     Vault!ReadMetadata, Vault!Abandon, Vault!Load, Vault!CreateKey, Vault!CreateFile,
     Vault!Publish, Vault!Check, Vault!Run, Vault!Failed, Vault!process

LEMMA VaultQueueSteps == ASSUME Vault!Next
    PROVE  queue' = queue \/ Vault!EnqueueDestroy \/ Vault!Submit \/ Vault!Take \/ Vault!Restart
  BY ZenonT(40) DEF Vault!Next, Vault!AccountStep, Vault!WorkerStep, Vault!SetCurrentUser,
     Vault!onOwnerChanged, Vault!Revoke, Vault!RetireStored, Vault!RemoveStored,
     Vault!ClearConfig, Vault!SaveConfig, Vault!onLock, Vault!Unlock, Vault!Callback,
     Vault!Tombstone, Vault!Unbind, Vault!DeleteKey, Vault!DeleteFile, Vault!Forget,
     Vault!SweepNext, Vault!ReadMetadata, Vault!Abandon, Vault!Load, Vault!CreateKey,
     Vault!CreateFile, Vault!Publish, Vault!Check, Vault!Run, Vault!Failed

LEMMA VaultMailSteps == ASSUME Vault!Next
    PROVE  mailbox' = mailbox \/ Vault!Callback \/ Vault!Run \/ Vault!Failed \/ Vault!Restart
  BY ZenonT(40) DEF Vault!Next, Vault!AccountStep, Vault!WorkerStep, Vault!SetCurrentUser,
     Vault!onOwnerChanged, Vault!Revoke, Vault!RetireStored, Vault!RemoveStored,
     Vault!EnqueueDestroy, Vault!ClearConfig, Vault!SaveConfig, Vault!onLock, Vault!Unlock,
     Vault!Submit, Vault!Tombstone, Vault!Unbind, Vault!DeleteKey, Vault!DeleteFile,
     Vault!Forget, Vault!Take, Vault!SweepNext, Vault!ReadMetadata, Vault!Abandon, Vault!Load,
     Vault!CreateKey, Vault!CreateFile, Vault!Publish, Vault!Check, Vault!process

LEMMA VaultWorkerSteps == ASSUME Vault!Next
    PROVE  worker' = worker \/ Vault!WorkerStep \/ Vault!Restart
  BY ZenonT(40) DEF Vault!Next, Vault!AccountStep, Vault!SetCurrentUser, Vault!onOwnerChanged,
     Vault!Revoke, Vault!RetireStored, Vault!RemoveStored, Vault!EnqueueDestroy,
     Vault!ClearConfig, Vault!SaveConfig, Vault!onLock, Vault!Unlock, Vault!Submit,
     Vault!Callback

LEMMA VaultFilesSteps == ASSUME Vault!Next
    PROVE  /\ UNCHANGED <<keys, madeFor>> \/ Vault!DeleteKey \/ Vault!CreateKey
           /\ files' = files \/ Vault!DeleteFile \/ Vault!CreateFile
           /\ content' = content \/ Vault!DeleteFile \/ Vault!Run
           /\ loggedIn' = loggedIn \/ \E u \in Users : Vault!SetCurrentUser(u)
  BY ZenonT(40) DEF Vault!Next, Vault!AccountStep, Vault!WorkerStep, Vault!SetCurrentUser,
     Vault!onOwnerChanged, Vault!Revoke, Vault!RetireStored, Vault!RemoveStored,
     Vault!EnqueueDestroy, Vault!ClearConfig, Vault!SaveConfig, Vault!onLock, Vault!Unlock,
     Vault!Submit, Vault!Callback, Vault!Tombstone, Vault!Unbind, Vault!DeleteKey,
     Vault!DeleteFile, Vault!Forget, Vault!Take, Vault!SweepNext, Vault!ReadMetadata,
     Vault!Abandon, Vault!Load, Vault!CreateKey, Vault!CreateFile, Vault!Publish, Vault!Check,
     Vault!Run, Vault!Failed, Vault!Restart, Vault!disk

(* The steps of the worker touch nothing of the account thread.            *)
LEMMA VaultWorkerLeaves == ASSUME Vault!WorkerStep PROVE UNCHANGED <<account, gate, loggedIn>>
  BY DEF Vault!WorkerStep, Vault!Tombstone, Vault!Unbind, Vault!DeleteKey, Vault!DeleteFile,
     Vault!Forget, Vault!Take, Vault!SweepNext, Vault!ReadMetadata, Vault!Abandon, Vault!Load,
     Vault!CreateKey, Vault!CreateFile, Vault!Publish, Vault!Check, Vault!Run, Vault!Failed,
     Vault!process, Vault!disk

(* Where the account thread goes.                                          *)
LEMMA VaultAccountMoves == ASSUME VaultTypes
    PROVE  /\ \A u \in Users : Vault!SetCurrentUser(u) =>
                 account.pc = "idle" /\ account'.pc = "changed" /\ account'.gen = account.gen
           /\ Vault!onOwnerChanged
                 => account.pc = "changed" /\ account'.pc = "idle" /\ account'.gen = account.gen
           /\ Vault!Revoke
                 => account.pc = "idle" /\ account'.pc = "retire" /\ account'.gen = account.gen
           /\ Vault!RetireStored
                 => account.pc = "retire" /\ account'.pc = "remove"
                       /\ account'.gen = prefs.mem.gen
           /\ Vault!RemoveStored
                 => account.pc = "remove" /\ account'.pc = "destroy"
                       /\ account'.gen = account.gen
           /\ Vault!EnqueueDestroy
                 => account.pc = "destroy" /\ account'.pc = "clear"
                       /\ account'.gen = account.gen
           /\ Vault!ClearConfig
                 => account.pc = "clear" /\ account'.pc = "idle" /\ account'.gen = 0
           /\ Vault!Restart => account'.pc = "idle" /\ account'.gen = 0
<1> USE DEF VaultTypes, VaultAccounts
<1>1. \A u \in Users : Vault!SetCurrentUser(u) =>
        account.pc = "idle" /\ account'.pc = "changed" /\ account'.gen = account.gen
  BY DEF Vault!SetCurrentUser
<1>2. Vault!onOwnerChanged
          => account.pc = "changed" /\ account'.pc = "idle" /\ account'.gen = account.gen
  BY DEF Vault!onOwnerChanged
<1>3. Vault!Revoke
          => account.pc = "idle" /\ account'.pc = "retire" /\ account'.gen = account.gen
  BY DEF Vault!Revoke
<1>4. Vault!RemoveStored
          => account.pc = "remove" /\ account'.pc = "destroy" /\ account'.gen = account.gen
  BY DEF Vault!RemoveStored
<1>5. Vault!EnqueueDestroy
          => account.pc = "destroy" /\ account'.pc = "clear" /\ account'.gen = account.gen
  BY DEF Vault!EnqueueDestroy
<1>6. Vault!ClearConfig => account.pc = "clear" /\ account'.pc = "idle" /\ account'.gen = 0
  BY DEF Vault!ClearConfig
<1>7. Vault!Restart => account'.pc = "idle" /\ account'.gen = 0
  BY DEF Vault!Restart
<1>8. Vault!RetireStored
          => account.pc = "retire" /\ account'.pc = "remove" /\ account'.gen = prefs.mem.gen
  BY DEF Vault!RetireStored
<1> QED
  BY <1>1, <1>2, <1>3, <1>4, <1>5, <1>6, <1>7, <1>8

(* Where the worker goes.                                                  *)
LEMMA VaultGotoFacts == ASSUME worker \in VaultWorkers, NEW p, Vault!Goto(p)
    PROVE  /\ worker'.pc = p /\ worker'.gen = worker.gen /\ worker'.left = worker.left
           /\ worker'.back = worker.back
           /\ worker \in VaultServants => worker'.token = worker.token
<1>1. CASE worker \in VaultServants
  BY <1>1 DEF Vault!Goto, VaultServants
<1>2. CASE worker \in VaultSweepers /\ worker \notin VaultServants
  BY <1>2 DEF Vault!Goto, VaultSweepers
<1> QED
  BY <1>1, <1>2 DEF VaultWorkers

LEMMA VaultDestroyedFacts == ASSUME worker \in VaultWorkers, worker.pc \in VaultDestroying,
    Vault!Destroyed
    PROVE  \/ worker.back = "idle" /\ worker' = Vault!Idle
           \/ /\ worker.back \in {"sweep", "create", "failed"}
              /\ Vault!Goto(worker.back)
  BY VaultWorkerShape DEF Vault!Destroyed

LEMMA VaultIdleFacts == Vault!Idle.pc = "idle" /\ Vault!Idle.gen = 0
    /\ Vault!Idle.left = {} /\ Vault!Idle.back = "idle"
  BY DEF Vault!Idle

LEMMA VaultTakeFacts == ASSUME VaultAssumed, VaultTypes, Vault!Take
    PROVE  /\ worker.pc = "idle" /\ queue # <<>> /\ queue' = Tail(queue)
           /\ UNCHANGED <<prefs, cleanup, Vault!disk, Vault!process, faults, troubled>>
           /\ Head(queue) \in VaultTasks
                 /\ VaultElems(queue) = {Head(queue)} \cup VaultElems(queue')
           /\ \/ /\ Head(queue) = Vault!Sweep /\ worker'.pc = "sweep" /\ worker'.gen = 0
                 /\ worker'.left = cleanup.mem /\ worker'.back = "idle"
              \/ /\ Head(queue).kind = "destroy" /\ Head(queue).gen \in Vault!Generations
                 /\ worker'.pc = "tombstone"
                 /\ worker'.gen = Head(queue).gen /\ worker'.left = {} /\ worker'.back = "idle"
              \/ /\ Head(queue).kind = "submit" /\ Head(queue).token \in Vault!Token
                 /\ worker'.pc = "open" /\ worker'.gen = 0
                 /\ worker'.left = {} /\ worker'.back = "idle"
                 /\ worker'.token = Head(queue).token
              \/ Head(queue).kind = "submit" /\ worker' = Vault!Idle
<1>1. /\ worker.pc = "idle" /\ queue # <<>> /\ queue' = Tail(queue)
      /\ UNCHANGED <<prefs, cleanup, Vault!disk, Vault!process, faults, troubled>>
  BY DEF Vault!Take
<1>2. Head(queue) \in VaultTasks /\ VaultElems(queue) = {Head(queue)} \cup VaultElems(queue')
  BY <1>1, VaultTakeElems DEF VaultTypes
<1>3. CASE Head(queue).kind = "sweep"
  <2>1. Head(queue) = Vault!Sweep
    BY <1>2, <1>3 DEF VaultTasks, Vault!Sweep
  <2>2. worker' = [Vault!Idle EXCEPT !.pc = "sweep", !.left = cleanup.mem]
    BY <1>3 DEF Vault!Take
  <2> QED
    BY <1>1, <1>2, <2>1, <2>2 DEF Vault!Idle
<1>4. CASE Head(queue).kind = "destroy"
  <2>1. Head(queue).gen \in Vault!Generations
    BY <1>2, <1>4 DEF VaultTasks
  <2>2. worker' = [Vault!Idle EXCEPT !.pc = "tombstone", !.gen = Head(queue).gen]
    BY <1>4 DEF Vault!Take
  <2> QED
    BY <1>1, <1>2, <1>4, <2>1, <2>2 DEF Vault!Idle
<1>5. CASE Head(queue).kind = "submit"
  <2>1. Head(queue).token \in Vault!Token
    BY <1>2, <1>5 DEF VaultTasks
  <2>2. \/ worker' = Vault!Idle
        \/ worker' = [pc |-> "open", gen |-> 0, left |-> {}, back |-> "idle",
                      token |-> Head(queue).token]
    BY <1>5 DEF Vault!Take
  <2> QED
    BY <1>1, <1>2, <1>5, <2>1, <2>2
<1> QED
  BY <1>2, <1>3, <1>4, <1>5 DEF VaultTasks

LEMMA VaultSweepFacts == ASSUME VaultTypes, Vault!SweepNext
    PROVE  /\ worker.pc = "sweep"
           /\ UNCHANGED <<prefs, cleanup, Vault!disk, Vault!process, queue, faults, troubled>>
           /\ \/ worker.left = {} /\ worker' = Vault!Idle
              \/ /\ worker'.gen \in worker.left /\ worker'.gen \in Vault!Generations
                 /\ worker'.pc = "tombstone" /\ worker'.back = "sweep"
                 /\ worker'.left = worker.left \ {worker'.gen}
<1>1. worker \in VaultSweepers /\ worker.left \subseteq Vault!Generations
  BY VaultWorkerShape DEF Vault!SweepNext, VaultTypes
<1>2. CASE worker.left = {}
  BY <1>2 DEF Vault!SweepNext
<1>3. CASE worker.left # {}
  <2>1. PICK g \in worker.left :
           worker' = [worker EXCEPT !.pc = "tombstone", !.gen = g, !.left = @ \ {g},
                 !.back = "sweep"]
    BY <1>3 DEF Vault!SweepNext
  <2>2. /\ worker'.gen = g /\ worker'.pc = "tombstone" /\ worker'.back = "sweep"
        /\ worker'.left = worker.left \ {g}
    BY <1>1, <2>1 DEF VaultSweepers
  <2> QED
    BY <1>1, <2>1, <2>2 DEF Vault!SweepNext
<1> QED
  BY <1>2, <1>3

LEMMA VaultOpenFacts == ASSUME VaultAssumed, VaultTypes, VaultHalvesInv, Vault!ReadMetadata
    PROVE  /\ worker.pc = "open" /\ account.pc # "remove" /\ VaultServing
                 /\ worker.token \in Vault!Token
           /\ worker.left = {} /\ worker'.left = {} /\ worker'.back = worker.back
           /\ worker'.token = worker.token
           /\ UNCHANGED <<prefs, Vault!disk, Vault!process, queue>>
           /\ \/ worker'.pc = "failed" /\ UNCHANGED <<cleanup, faults, troubled>>
              \/ /\ Vault!Current /\ prefs.mem.gen \notin cleanup.mem
                 /\ worker'.gen = prefs.mem.gen
                 /\ UNCHANGED <<cleanup, faults, troubled>>
                 /\ \/ prefs.mem.gen = 0 /\ worker'.pc = "create"
                    \/ /\ prefs.mem.gen # 0 /\ worker'.pc = "load"
                       /\ prefs.mem.owner = worker.token.user
              \/ /\ Vault!Current /\ prefs.mem.gen \notin cleanup.mem
                 /\ prefs.mem.owner # worker.token.user /\ prefs.mem.gen \in Vault!Generations
                 /\ worker'.gen = prefs.mem.gen /\ worker'.pc = "replace"
                 /\ Vault!Retire(prefs.mem.gen)
<1>1. /\ worker.pc = "open" /\ account.pc # "remove" /\ VaultServing /\ worker \in VaultServants
      /\ worker.token \in Vault!Token /\ worker.left = {}
      /\ UNCHANGED <<prefs, Vault!disk, Vault!process, queue>>
  BY VaultWorkerShape DEF Vault!ReadMetadata, VaultTypes, VaultServing, VaultServingSteps,
     Vault!Metalocked
<1>2. prefs.mem.owner # None => prefs.mem.gen \in Vault!Generations
  BY DEF VaultHalvesInv, VaultWhole, VaultTypes, VaultHalves, Vault!Generations
<1>3. prefs.mem.gen # 0 <=> prefs.mem.owner # None
  BY DEF VaultHalvesInv, VaultWhole
<1>4. CASE Vault!Goto("failed") /\ UNCHANGED <<cleanup, faults, troubled>>
  BY <1>1, <1>4, VaultGotoFacts DEF VaultTypes
<1>5. CASE /\ Vault!Current /\ prefs.mem.gen \notin cleanup.mem
                 /\ prefs.mem.owner \in {None, worker.token.user}
           /\ worker' = [worker EXCEPT !.gen = prefs.mem.gen,
                                       !.pc = IF prefs.mem.gen = 0 THEN "create" ELSE "load"]
           /\ UNCHANGED <<cleanup, faults, troubled>>
  <2>1. /\ worker'.gen = prefs.mem.gen /\ worker'.left = {} /\ worker'.back = worker.back
        /\ worker'.token = worker.token
        /\ worker'.pc = IF prefs.mem.gen = 0 THEN "create" ELSE "load"
    BY <1>1, <1>5 DEF VaultServants
  <2> QED
    BY <1>1, <1>3, <1>5, <2>1
<1>6. CASE /\ Vault!Current /\ prefs.mem.gen \notin cleanup.mem
                 /\ prefs.mem.owner \notin {None, worker.token.user}
           /\ Vault!Retire(prefs.mem.gen)
           /\ worker' = [worker EXCEPT !.gen = prefs.mem.gen, !.pc = "replace"]
  <2>1. /\ worker'.gen = prefs.mem.gen /\ worker'.left = {} /\ worker'.back = worker.back
        /\ worker'.token = worker.token /\ worker'.pc = "replace"
    BY <1>1, <1>6 DEF VaultServants
  <2> QED
    BY <1>1, <1>2, <1>6, <2>1
<1> QED
  BY <1>4, <1>5, <1>6 DEF Vault!ReadMetadata

LEMMA VaultCreateKeyFacts == ASSUME VaultTypes, Vault!CreateKey
    PROVE  /\ worker.pc = "create" /\ VaultServing /\ worker.token \in Vault!Token
           /\ worker.left = {} /\ worker'.left = {} /\ worker'.token = worker.token
           /\ UNCHANGED <<prefs, cleanup, files, content, loggedIn, Vault!process, queue,
                 troubled>>
           /\ faults' = 0 => faults = 0
           /\ \/ worker'.pc = "failed" /\ worker'.gen = worker.gen
                    /\ UNCHANGED <<madeFor, keys>>
                 /\ worker'.back = worker.back
              \/ /\ madeFor' = Append(madeFor, [user |-> worker.token.user,
                       login |-> worker.token.login])
                 /\ keys' = keys \cup {Len(madeFor) + 1} /\ faults' = faults
                 /\ worker'.pc = "createFile" /\ worker'.gen = Len(madeFor) + 1
                 /\ worker'.back = "failed"
<1>1. /\ worker.pc = "create" /\ VaultServing /\ worker \in VaultServants
            /\ worker \in VaultWorkers
      /\ worker.token \in Vault!Token /\ worker.left = {}
      /\ UNCHANGED <<prefs, cleanup, files, content, loggedIn, Vault!process, queue, troubled>>
  BY VaultWorkerShape DEF Vault!CreateKey, VaultTypes, VaultServing, VaultServingSteps
<1>2. CASE Vault!Goto("failed") /\ UNCHANGED <<madeFor, keys>>
  <2>1. faults' = 0 => faults = 0
    BY <1>2 DEF Vault!CreateKey, Vault!Fault, VaultTypes
  <2> QED
    BY <1>1, <1>2, <2>1, VaultGotoFacts
<1>3. CASE /\ madeFor' = Append(madeFor, [user |-> worker.token.user,
                 login |-> worker.token.login])
           /\ keys' = keys \cup {Len(madeFor) + 1} /\ faults' = faults
           /\ worker' = [worker EXCEPT !.pc = "createFile", !.gen = Len(madeFor) + 1,
                 !.back = "failed"]
  <2>1. /\ worker'.pc = "createFile" /\ worker'.gen = Len(madeFor) + 1
              /\ worker'.back = "failed"
        /\ worker'.left = {} /\ worker'.token = worker.token
    BY <1>1, <1>3 DEF VaultServants
  <2> QED
    BY <1>1, <1>3, <2>1
<1> QED
  BY <1>2, <1>3 DEF Vault!CreateKey

----------------------------------------------------------------------------
(* What the steps do to the preferences *)

LEMMA VaultClearedFacts == ASSUME VaultTypes
    PROVE  /\ Vault!Cleared(prefs.mem) \in VaultHalves
           /\ Vault!Cleared(prefs.mem).gen = 0 /\ Vault!Cleared(prefs.mem).owner = None
           /\ Vault!Cleared(prefs.mem).user = prefs.mem.user
                 /\ Vault!Cleared(prefs.mem).login = prefs.mem.login
<1>1. 0 \in 0..Len(madeFor) /\ prefs.mem \in VaultHalves
  BY LenProperties DEF VaultTypes
<1> QED
  BY <1>1 DEF Vault!Cleared, VaultHalves

LEMMA VaultRemoveStoredFacts ==
    ASSUME VaultAssumed, VaultTypes, Vault!RemoveStored
    PROVE  /\ prefs'.mem = Vault!Cleared(prefs.mem)
           /\ prefs'.disk = prefs.disk \/ prefs'.disk = prefs'.mem
           /\ account.gen # 0 => account.gen \in troubled' \/ prefs'.disk = prefs'.mem
           /\ troubled \subseteq troubled'
           /\ faults' = 0 => faults = 0
<1>1. CASE account.gen = 0
  BY <1>1 DEF Vault!RemoveStored, Vault!Written
<1>2. CASE account.gen # 0
  <2>1. VaultRemoves(account.gen) /\ account.gen \in Vault!Generations
    BY <1>2 DEF Vault!RemoveStored, VaultRemoves, VaultTypes, VaultAccounts, Vault!Generations
  <2> QED
    BY <2>1, VaultRemovesFacts
<1> QED
  BY <1>1, <1>2

LEMMA VaultUnbindFacts ==
    ASSUME VaultAssumed, VaultTypes, VaultDestroyInv, Vault!Unbind
    PROVE  /\ worker.pc = "unbind" /\ worker.gen \in Vault!Generations /\ account.pc # "remove"
           /\ UNCHANGED <<cleanup, Vault!disk, Vault!process, queue>>
           /\ faults' = 0 => faults = 0
           /\ troubled \subseteq troubled'
           /\ \/ /\ prefs.mem.gen = worker.gen
                 /\ prefs'.mem = Vault!Cleared(prefs.mem)
                 /\ prefs'.disk = prefs.disk \/ prefs'.disk = prefs'.mem
                 /\ worker.gen \in troubled' \/ prefs'.disk = prefs'.mem
                 /\ Vault!Goto("deleteKey") \/ (Vault!Destroyed /\ faults' # 0)
              \/ prefs.mem.gen # worker.gen /\ Vault!Goto("deleteKey")
                    /\ UNCHANGED <<prefs, faults, troubled>>
<1>1. /\ worker.pc = "unbind" /\ worker.gen \in Vault!Generations /\ account.pc # "remove"
      /\ UNCHANGED <<cleanup, Vault!disk, Vault!process, queue>>
  BY VaultDestroyedGen DEF Vault!Unbind, VaultDestroying, Vault!Metalocked
<1>2. CASE prefs.mem.gen # worker.gen
  BY <1>1, <1>2 DEF Vault!Unbind
<1>3. CASE prefs.mem.gen = worker.gen
  <2>1. PICK ok \in Vault!Commits : /\ prefs' = Vault!Written(prefs, Vault!Cleared(prefs.mem),
                                          ok)
                                    /\ Vault!Noted(worker.gen, ok)
                                    /\ IF ok THEN Vault!Goto("deleteKey") ELSE Vault!Destroyed
    BY <1>3 DEF Vault!Unbind
  <2>2. faults' = 0 => ok
    BY <2>1, VaultCommitFacts DEF Vault!Noted
  <2>3. VaultRemoves(worker.gen)
    BY <2>1 DEF VaultRemoves
  <2> QED
    BY <1>1, <1>3, <2>1, <2>2, <2>3, VaultRemovesFacts
<1> QED
  BY <1>2, <1>3

LEMMA VaultAbandonFacts ==
    ASSUME VaultAssumed, VaultTypes, VaultServeInv, Vault!Abandon
    PROVE  /\ worker.pc = "replace" /\ worker.gen \in Vault!Generations
                 /\ prefs.mem.gen = worker.gen
           /\ UNCHANGED <<cleanup, Vault!disk, Vault!process, queue>>
           /\ faults' = 0 => faults = 0
           /\ troubled \subseteq troubled'
           /\ prefs'.mem = Vault!Cleared(prefs.mem)
           /\ prefs'.disk = prefs.disk \/ prefs'.disk = prefs'.mem
           /\ worker.gen \in troubled' \/ prefs'.disk = prefs'.mem
           /\ \/ worker' = [worker EXCEPT !.pc = "tombstone", !.back = "create"]
              \/ Vault!Goto("failed") /\ faults' # 0
<1>1. /\ worker.pc = "replace" /\ worker.gen \in Vault!Generations /\ prefs.mem.gen = worker.gen
      /\ UNCHANGED <<cleanup, Vault!disk, Vault!process, queue>>
  BY VaultWorkerShape DEF Vault!Abandon, VaultServeInv, VaultTypes, Vault!Generations
<1>2. PICK ok \in Vault!Commits : /\ prefs' = Vault!Written(prefs, Vault!Cleared(prefs.mem), ok)
                                  /\ Vault!Noted(worker.gen, ok)
                                  /\ IF ok THEN worker' = [worker EXCEPT !.pc = "tombstone",
                                        !.back = "create"]
                                           ELSE Vault!Goto("failed")
  BY DEF Vault!Abandon
<1>3. faults' = 0 => ok
  BY <1>2, VaultCommitFacts DEF Vault!Noted
<1>4. VaultRemoves(worker.gen)
  BY <1>2 DEF VaultRemoves
<1> QED
  BY <1>1, <1>2, <1>3, <1>4, VaultRemovesFacts

LEMMA VaultPublishFacts ==
    ASSUME VaultAssumed, VaultTypes, Vault!Publish
    PROVE  /\ worker.pc = "publish" /\ account.pc # "remove"
           /\ UNCHANGED <<cleanup, Vault!disk, Vault!process, queue, troubled>>
           /\ faults' = 0 => faults = 0
           /\ worker.token \in Vault!Token /\ VaultServing
           /\ \/ Vault!Goto("tombstone") /\ UNCHANGED <<prefs, faults>>
              \/ /\ Vault!Current /\ prefs.mem.gen = 0
                 /\ prefs'.mem.gen = worker.gen /\ prefs'.mem.owner = worker.token.user
                 /\ prefs'.mem.user = prefs.mem.user /\ prefs'.mem.login = prefs.mem.login
                 /\ \/ Vault!Goto("check") /\ prefs'.disk = prefs'.mem
                    \/ Vault!Goto("tombstone") /\ prefs'.disk = prefs.disk /\ faults' # 0
<1>1. /\ worker.pc = "publish" /\ account.pc # "remove"
      /\ UNCHANGED <<cleanup, Vault!disk, Vault!process, queue, troubled>>
      /\ worker.token \in Vault!Token /\ VaultServing
  BY VaultWorkerShape DEF Vault!Publish, Vault!Metalocked, VaultTypes, VaultServing,
     VaultServingSteps
<1>2. CASE Vault!Goto("tombstone") /\ UNCHANGED <<prefs, faults>>
  BY <1>1, <1>2
<1>3. CASE ~(Vault!Goto("tombstone") /\ UNCHANGED <<prefs, faults>>)
  <2> DEFINE m == [prefs.mem EXCEPT !.gen = worker.gen, !.owner = worker.token.user]
  <2>1. /\ Vault!Current /\ prefs.mem.gen = 0
        /\ \E ok \in Vault!Commits : /\ prefs' = Vault!Written(prefs, m, ok)
                                           /\ Vault!Counted(ok)
                                     /\ Vault!Goto(IF ok THEN "check" ELSE "tombstone")
    BY <1>3 DEF Vault!Publish
  <2>2. PICK ok \in Vault!Commits : /\ prefs' = Vault!Written(prefs, m, ok) /\ Vault!Counted(ok)
                                    /\ Vault!Goto(IF ok THEN "check" ELSE "tombstone")
    BY <2>1
  <2>3. ok \in BOOLEAN /\ (faults' = 0 => ok /\ faults = 0)
    BY <2>2, VaultCommitFacts
  <2>4. m.gen = worker.gen /\ m.owner = worker.token.user /\ m.user = prefs.mem.user
        /\ m.login = prefs.mem.login
    BY DEF VaultTypes, VaultHalves
  <2> HIDE DEF m
  <2>5. prefs'.mem = m /\ prefs'.disk = IF ok THEN m ELSE prefs.disk
    BY <2>2 DEF Vault!Written
  <2> QED
    BY <1>1, <2>1, <2>2, <2>3, <2>4, <2>5
<1> QED
  BY <1>2, <1>3

----------------------------------------------------------------------------
(* Both halves of the preferences are whole *)

(* Who created a generation is never changed.                              *)
LEMMA VaultMadeKept == ASSUME VaultTypes, Vault!Next
                  PROVE  /\ \A g \in Vault!Generations : madeFor'[g] = madeFor[g]
                         /\ Len(madeFor') \in Nat /\ Len(madeFor) \in Nat
                               /\ Len(madeFor) <= Len(madeFor')
<1>0. Len(madeFor) \in Nat /\ madeFor \in Seq([user : Users, login : 1..loggedIn])
  BY LenProperties DEF VaultTypes
<1>1. CASE madeFor' = madeFor
  BY <1>0, <1>1
<1>2. CASE madeFor' # madeFor
  <2>1. Vault!CreateKey
    BY <1>2, VaultFilesSteps DEF Vault!DeleteKey
  <2>2. madeFor' = Append(madeFor, [user |-> worker.token.user, login |-> worker.token.login])
    BY <1>2, <2>1 DEF Vault!CreateKey
  <2>3. [user |-> worker.token.user, login |-> worker.token.login] \in [user : Users,
            login : 1..loggedIn]
    BY <2>1, VaultWorkerShape DEF Vault!CreateKey, VaultTypes, VaultServing,
       VaultServingSteps, Vault!Token
  <2> QED
    BY <1>0, <2>2, <2>3, AppendProperties DEF Vault!Generations
<1> QED
  BY <1>1, <1>2

LEMMA VaultWholeKept == ASSUME VaultTypes, Vault!Next, NEW p \in VaultHalves, VaultWhole(p, madeFor)
    PROVE VaultWhole(p, madeFor')
<1>1. p.gen # 0 => p.gen \in Vault!Generations
  BY DEF VaultHalves, Vault!Generations
<1> QED
  BY <1>1, VaultMadeKept DEF VaultWhole

LEMMA VaultWholeCleared == ASSUME VaultTypes, VaultWhole(prefs.mem, madeFor)
    PROVE VaultWhole(Vault!Cleared(prefs.mem), madeFor)
  BY VaultClearedFacts DEF VaultWhole

(* A token that is current is of the login in force.                       *)
LEMMA VaultCurrentFacts == ASSUME VaultTokenInv, NEW t \in VaultHeld, Vault!IsCurrent(t)
                      PROVE  /\ VaultValid(t) /\ ~gate.retired
                             /\ t.user = prefs.mem.user /\ t.login = prefs.mem.login
  BY DEF VaultTokenInv, VaultTimely, Vault!IsCurrent, VaultValid

LEMMA VaultServingHeld == ASSUME VaultServing PROVE worker.token \in VaultHeld
  BY DEF VaultHeld

LEMMA VaultHalvesKept == ASSUME VaultAssumed, VaultIInv, Vault!Next, VaultTypes'
    PROVE VaultHalvesInv'
<1>0. /\ VaultTypes /\ VaultHalvesInv /\ VaultWhole(prefs.mem, madeFor)
            /\ VaultWhole(prefs.disk, madeFor)
      /\ prefs.mem \in VaultHalves /\ prefs.disk \in VaultHalves
            /\ prefs'.mem \in VaultHalves' /\ prefs'.disk \in VaultHalves'
  BY DEF VaultIInv, VaultHalvesInv, VaultTypes
<1>1. VaultWhole(prefs.mem, madeFor') /\ VaultWhole(prefs.disk, madeFor')
  BY <1>0, VaultWholeKept
<1>2. Vault!Cleared(prefs.mem) \in VaultHalves /\ VaultWhole(Vault!Cleared(prefs.mem), madeFor')
  BY <1>0, VaultWholeCleared, VaultClearedFacts, VaultWholeKept
<1>3. VaultWhole(prefs'.mem, madeFor')
  <2>1. ASSUME NEW u \in Users, Vault!SetCurrentUser(u) PROVE VaultWhole(prefs'.mem, madeFor')
    <3>1. /\ prefs'.mem.user = u /\ prefs'.mem.gen = prefs.mem.gen
                /\ prefs'.mem.owner = prefs.mem.owner
          /\ prefs'.mem.login = IF prefs.mem.user = None THEN loggedIn + 1 ELSE prefs.mem.login
      BY <1>0, <2>1 DEF Vault!SetCurrentUser, VaultTypes, VaultHalves
    <3>2. u # None /\ loggedIn + 1 # 0
      BY <1>0 DEF VaultAssumed, VaultTypes
    <3>3. prefs.mem.user = None => prefs.mem.gen = 0
      BY <1>0 DEF VaultWhole, Vault!Nobody
    <3> QED
      BY <1>1, <3>1, <3>2, <3>3 DEF VaultWhole
  <2>2. CASE Vault!RemoveStored \/ Vault!Unbind \/ Vault!Abandon
    <3>1. prefs'.mem = Vault!Cleared(prefs.mem) \/ prefs'.mem = prefs.mem
      BY <1>0, <2>2, VaultRemoveStoredFacts, VaultUnbindFacts, VaultAbandonFacts DEF VaultIInv
    <3> QED
      BY <1>1, <1>2, <3>1
  <2>3. CASE Vault!ClearConfig
    <3>1. prefs'.mem = Vault!Nobody
      BY <1>0, <2>3 DEF Vault!ClearConfig, VaultTypes
    <3> QED
      BY <3>1 DEF VaultWhole, Vault!Nobody
  <2>4. CASE Vault!Publish /\ prefs'.mem # prefs.mem
    <3>1. /\ Vault!Current /\ prefs'.mem.gen = worker.gen
                /\ prefs'.mem.owner = worker.token.user
          /\ prefs'.mem.user = prefs.mem.user /\ prefs'.mem.login = prefs.mem.login
          /\ worker.pc = "publish" /\ madeFor' = madeFor /\ worker.token \in Vault!Token
                /\ VaultServing
      BY <1>0, <2>4, VaultPublishFacts DEF Vault!disk
    <3>2. /\ worker.gen # 0
          /\ madeFor[worker.gen] = [user |-> worker.token.user, login |-> worker.token.login]
      BY <3>1 DEF VaultIInv, VaultNewInv
    <3>3. worker.token.user = prefs.mem.user /\ worker.token.login = prefs.mem.login
      BY <3>1, VaultServingHeld, VaultCurrentFacts DEF VaultIInv, Vault!Current
    <3>4. worker.token.user # None /\ worker.token.login # 0
      <4>1. worker.token.user \in Users /\ worker.token.login \in 1..loggedIn
        BY <3>1 DEF Vault!Token
      <4>2. loggedIn \in Nat
        BY <1>0 DEF VaultTypes
      <4> QED
        BY <4>1, <4>2 DEF VaultAssumed
    <3> QED
      BY <3>1, <3>2, <3>3, <3>4 DEF VaultWhole
  <2>5. CASE Vault!Restart
    BY <1>0, <1>1, <2>5 DEF Vault!Restart, VaultTypes
  <2> QED
    BY <1>0, <1>1, <2>1, <2>2, <2>3, <2>4, <2>5, VaultMemSteps
<1>4. VaultWhole(prefs'.disk, madeFor')
  <2>1. prefs'.disk = prefs.disk \/ prefs'.disk = prefs'.mem
    BY <1>0, VaultDiskSteps, VaultRemoveStoredFacts, VaultUnbindFacts, VaultAbandonFacts,
       VaultPublishFacts DEF Vault!SaveConfig, VaultTypes, VaultIInv
  <2> QED
    BY <1>1, <1>3, <2>1
<1> QED
  BY <1>3, <1>4 DEF VaultHalvesInv

----------------------------------------------------------------------------
(* The account thread *)

(* A retired vault hands out nothing: what logs out meets no publication.  *)
LEMMA VaultRetiredIsStale == ASSUME VaultTokenInv, gate.retired, NEW t \in VaultHeld
    PROVE ~VaultValid(t) /\ ~Vault!IsCurrent(t)
  BY DEF VaultTokenInv, VaultTimely, VaultValid, Vault!IsCurrent

(* Only open decides to replace a generation.                              *)
LEMMA VaultReplaceStarts == ASSUME VaultAssumed, VaultTypes, Vault!Next, ~Vault!Restart,
    ~Vault!ReadMetadata, worker.pc # "replace"
                       PROVE  worker'.pc # "replace"
<1>0. worker \in VaultWorkers /\ worker.left \subseteq Vault!Generations
  BY VaultWorkerShape DEF VaultTypes
<1>1. CASE worker' = worker
  BY <1>1
<1>2. CASE Vault!Take
  BY <1>2, VaultIdleFacts, VaultTakeFacts
<1>3. CASE Vault!SweepNext \/ Vault!CreateKey
  BY <1>3, VaultIdleFacts, VaultSweepFacts, VaultCreateKeyFacts
<1>4. CASE Vault!Tombstone \/ Vault!Unbind \/ Vault!DeleteKey \/ Vault!DeleteFile
               \/ Vault!Forget
  <2>1. worker.pc \in VaultDestroying
            /\ (Vault!Destroyed \/ \E p \in VaultDestroying : Vault!Goto(p))
    BY <1>4 DEF Vault!Tombstone, Vault!Unbind, Vault!DeleteKey, Vault!DeleteFile,
       Vault!Forget, VaultDestroying
  <2> QED
    BY <1>0, <2>1, VaultGotoFacts, VaultDestroyedFacts, VaultIdleFacts DEF VaultDestroying
<1>5. CASE Vault!Load \/ Vault!CreateFile \/ Vault!Publish \/ Vault!Check \/ Vault!Run
               \/ Vault!Failed
  <2>1. \/ worker' = Vault!Idle
        \/ \E p \in {"check", "failed", "publish", "tombstone", "run"} : Vault!Goto(p)
    BY <1>5 DEF Vault!Load, Vault!CreateFile, Vault!Publish, Vault!Check, Vault!Run,
       Vault!Failed
  <2> QED
    BY <1>0, <2>1, VaultGotoFacts, VaultIdleFacts
<1> QED
  BY <1>1, <1>2, <1>3, <1>4, <1>5, VaultWorkerSteps DEF Vault!WorkerStep, Vault!Abandon

LEMMA VaultAccountKept == ASSUME VaultAssumed, VaultIInv, Vault!Next, VaultTypes'
    PROVE VaultAccountInv'
<1>0. VaultTypes /\ VaultAccountInv /\ VaultTokenInv /\ VaultDestroyInv /\ VaultServeInv
  BY DEF VaultIInv
<1>1. (account.pc \notin {"idle", "changed"} => gate.retired)'
  <2>1. CASE Vault!onOwnerChanged \/ Vault!Revoke \/ Vault!Restart
    BY <1>0, <2>1, VaultAccountMoves DEF Vault!Revoke, VaultTypes
  <2>2. CASE Vault!AccountStep /\ ~Vault!onOwnerChanged
    BY <1>0, <2>2 DEF Vault!AccountStep, Vault!RetireStored, Vault!RemoveStored,
       Vault!EnqueueDestroy, Vault!ClearConfig, VaultAccountInv, VaultTypes, VaultAccounts
  <2>3. ASSUME NEW u \in Users, Vault!SetCurrentUser(u) PROVE (account.pc = "changed")'
    BY <1>0, <2>3 DEF Vault!SetCurrentUser, VaultTypes, VaultAccounts
  <2> QED
    BY <1>0, <2>1, <2>2, <2>3, VaultAccountSteps, VaultGateSteps DEF VaultAccountInv
<1>2. (account.pc \in {"destroy", "clear"} => prefs.mem.gen = 0)'
  <2>1. CASE Vault!RemoveStored
    BY <1>0, <2>1, VaultRemoveStoredFacts, VaultClearedFacts
  <2>2. CASE Vault!EnqueueDestroy
    BY <1>0, <2>2 DEF Vault!EnqueueDestroy, VaultAccountInv
  <2>3. CASE Vault!AccountStep /\ ~Vault!RemoveStored /\ ~Vault!EnqueueDestroy
    BY <1>0, <2>3, VaultAccountMoves DEF Vault!AccountStep
  <2>4. CASE Vault!Revoke \/ Vault!Restart \/ \E u \in Users : Vault!SetCurrentUser(u)
    BY <1>0, <2>4, VaultAccountMoves
  <2>5. CASE account' = account /\ ~Vault!Restart
    <3>1. CASE account.pc \in {"destroy", "clear"}
      <4>1. gate.retired /\ prefs.mem.gen = 0
        BY <1>0, <3>1 DEF VaultAccountInv
      <4>2. ~Vault!RemoveStored /\ (Vault!ClearConfig => prefs'.mem.gen = 0)
        BY <1>0, <3>1 DEF Vault!ClearConfig, Vault!RemoveStored, VaultTypes, Vault!Nobody
      <4>3. \A u \in Users : ~Vault!SetCurrentUser(u)
        BY <3>1 DEF Vault!SetCurrentUser
      <4>4. Vault!Publish => prefs' = prefs
        BY <1>0, <4>1, VaultPublishFacts, VaultServingHeld, VaultRetiredIsStale DEF
           Vault!Current
      <4>5. Vault!Unbind \/ Vault!Abandon => prefs'.mem.gen = 0
        BY <1>0, <4>1, VaultUnbindFacts, VaultAbandonFacts, VaultClearedFacts
      <4> QED
        BY <1>0, <2>5, <4>1, <4>2, <4>3, <4>4, <4>5, VaultMemSteps
    <3> QED
      BY <2>5, <3>1
  <2> QED
    BY <2>1, <2>2, <2>3, <2>4, <2>5, VaultAccountSteps
<1>3. (account.pc = "remove" =>
          /\ account.gen = prefs.mem.gen /\ worker.pc # "replace"
          /\ account.gen # 0 => account.gen \in cleanup.mem)'
  <2>1. CASE Vault!RetireStored
    <3>1. /\ account' = [pc |-> "remove", gen |-> prefs.mem.gen] /\ prefs' = prefs
                /\ worker' = worker
          /\ worker.pc # "replace"
      BY <2>1 DEF Vault!RetireStored, Vault!Metalocked
    <3>2. prefs.mem.gen # 0 => prefs.mem.gen \in cleanup'.mem
      <4>1. ASSUME prefs.mem.gen # 0 PROVE prefs.mem.gen \in cleanup'.mem
        <5>1. prefs.mem.gen \in Vault!Generations /\ Vault!Retire(prefs.mem.gen)
          BY <1>0, <2>1, <4>1 DEF Vault!RetireStored, VaultTypes, VaultHalves, Vault!Generations
        <5> QED
          BY <1>0, <5>1, VaultRetireFacts
      <4> QED
        BY <4>1
    <3> QED
      BY <3>1, <3>2
  <2>2. CASE Vault!AccountStep /\ ~Vault!RetireStored
    BY <1>0, <2>2, VaultAccountMoves DEF Vault!AccountStep
  <2>3. CASE Vault!Revoke \/ Vault!Restart \/ \E u \in Users : Vault!SetCurrentUser(u)
    BY <1>0, <2>3, VaultAccountMoves
  <2>4. CASE account' = account /\ ~Vault!Restart /\ account.pc = "remove" /\ ~Vault!AccountStep
    <3>1. /\ account.gen = prefs.mem.gen /\ worker.pc # "replace" /\ gate.retired
          /\ account.gen # 0 => account.gen \in cleanup.mem
      BY <1>0, <2>4 DEF VaultAccountInv
    <3>2. \A u \in Users : ~Vault!SetCurrentUser(u)
      BY <2>4 DEF Vault!SetCurrentUser
    <3>3. ~Vault!Unbind /\ ~Vault!Abandon /\ ~Vault!Publish /\ ~Vault!ReadMetadata
      BY <2>4, <3>1 DEF Vault!Unbind, Vault!Abandon, Vault!Publish, Vault!ReadMetadata,
         Vault!Metalocked
    <3>4. prefs'.mem = prefs.mem
      BY <1>0, <2>4, <3>2, <3>3, VaultMemSteps DEF Vault!AccountStep
    <3>5. worker'.pc # "replace"
      BY <1>0, <2>4, <3>1, <3>3, VaultReplaceStarts
    <3>6. account.gen # 0 => account.gen \in cleanup'.mem
      <4>1. CASE Vault!Forget
        <5>1. cleanup'.mem = cleanup.mem \ {worker.gen}
          BY <1>0, <4>1 DEF Vault!Forget, Vault!Written
        <5>2. worker.gen # prefs.mem.gen
          BY <1>0, <4>1 DEF Vault!Forget, VaultDestroyInv, VaultDeleting
        <5> QED
          BY <3>1, <5>1, <5>2
      <4>2. CASE Vault!Tombstone
        BY <1>0, <3>1, <4>2, VaultRetireFacts, VaultDestroyedGen DEF Vault!Tombstone,
           VaultDestroying
      <4> QED
        BY <2>4, <3>1, <3>3, <4>1, <4>2, VaultCleanupSteps DEF Vault!AccountStep
    <3> QED
      BY <2>4, <3>1, <3>4, <3>5, <3>6
  <2> QED
    BY <2>1, <2>2, <2>3, <2>4, VaultAccountSteps
<1> QED
  BY <1>1, <1>2, <1>3 DEF VaultAccountInv

----------------------------------------------------------------------------
(* Tokens *)

LEMMA VaultHeldFacts == ASSUME NEW t
    PROVE  t \in VaultHeld <=> \/ VaultServing /\ t = worker.token
                               \/ \E x \in VaultElems(queue) : x.kind = "submit" /\ t = x.token
                               \/ \E m \in VaultElems(mailbox) : t = m.token
  BY DEF VaultHeld

(* Whoever serves, serves the request it took from the queue.              *)
LEMMA VaultServingKept == ASSUME VaultAssumed, VaultTypes, VaultHalvesInv, Vault!WorkerStep,
    ~Vault!Take, VaultServing'
                     PROVE  VaultServing /\ worker'.token = worker.token
<1>0. worker \in VaultWorkers
  BY DEF VaultTypes
<1>1. CASE Vault!Tombstone \/ Vault!Unbind \/ Vault!DeleteKey \/ Vault!DeleteFile
               \/ Vault!Forget
  <2>1. worker.pc \in VaultDestroying
            /\ (Vault!Destroyed \/ \E p \in VaultDestroying : Vault!Goto(p))
    BY <1>1 DEF Vault!Tombstone, Vault!Unbind, Vault!DeleteKey, Vault!DeleteFile,
       Vault!Forget, VaultDestroying
  <2>2. worker'.back = worker.back \/ worker' = Vault!Idle
    BY <1>0, <2>1, VaultGotoFacts, VaultDestroyedFacts
  <2>3. worker' # Vault!Idle
    BY VaultIdleFacts DEF VaultServing, VaultServingSteps
  <2>4. worker.back # "sweep"
    BY <1>0, <2>1, <2>2, <2>3, VaultGotoFacts, VaultDestroyedFacts DEF VaultServing,
       VaultServingSteps, VaultDestroying
  <2>5. worker.back \in {"create", "failed"}
    BY <1>0, <2>1, <2>2, <2>3, <2>4, VaultGotoFacts, VaultDestroyedFacts, VaultWorkerShape
       DEF VaultServing, VaultServingSteps, VaultDestroying
  <2>6. VaultServing /\ worker \in VaultServants
    BY <1>0, <2>5, VaultWorkerShape DEF VaultServing
  <2> QED
    BY <1>0, <2>1, <2>3, <2>6, VaultGotoFacts, VaultDestroyedFacts
<1>2. CASE Vault!SweepNext
  BY <1>2, VaultSweepFacts, VaultIdleFacts DEF VaultTypes, VaultServing, VaultServingSteps
<1>3. CASE Vault!ReadMetadata
  BY <1>3, VaultOpenFacts DEF VaultTypes
<1>4. CASE Vault!CreateKey
  BY <1>4, VaultCreateKeyFacts DEF VaultTypes
<1>5. CASE Vault!Abandon
  <2>1. VaultServing /\ worker \in VaultServants
    BY <1>0, <1>5, VaultWorkerShape DEF Vault!Abandon, VaultServing, VaultServingSteps
  <2>2. Vault!Goto("failed") \/ worker' = [worker EXCEPT !.pc = "tombstone", !.back = "create"]
    BY <1>5 DEF Vault!Abandon
  <2> QED
    BY <1>0, <2>1, <2>2, VaultGotoFacts DEF VaultServants
<1>6. CASE Vault!Load \/ Vault!CreateFile \/ Vault!Publish \/ Vault!Check \/ Vault!Run
               \/ Vault!Failed
  <2>1. VaultServing /\ worker \in VaultServants
    BY <1>0, <1>6, VaultWorkerShape DEF Vault!Load, Vault!CreateFile, Vault!Publish,
       Vault!Check, Vault!Run, Vault!Failed, VaultServing, VaultServingSteps
  <2>2. \/ worker' = Vault!Idle
        \/ \E p \in {"check", "failed", "publish", "tombstone", "run"} : Vault!Goto(p)
    BY <1>6 DEF Vault!Load, Vault!CreateFile, Vault!Publish, Vault!Check, Vault!Run,
       Vault!Failed
  <2> QED
    BY <1>0, <2>1, <2>2, VaultGotoFacts, VaultIdleFacts DEF VaultServing, VaultServingSteps
<1> QED
  BY <1>1, <1>2, <1>3, <1>4, <1>5, <1>6 DEF Vault!WorkerStep

VaultNewToken == [user |-> prefs.mem.user, login |-> prefs.mem.login, epoch |-> gate.epoch,
             lockEpoch |-> gate.lockEpoch]

LEMMA VaultSubmitFacts == ASSUME VaultTypes, VaultHalvesInv, Vault!Submit, VaultAssumed
    PROVE  /\ UNCHANGED <<prefs, cleanup, Vault!disk, gate, account, worker, mailbox, faults,
                 troubled>>
           /\ Vault!IsCurrent(VaultNewToken)
                 /\ [kind |-> "submit", token |-> VaultNewToken] \in VaultTasks
           /\ VaultElems(queue') = VaultElems(queue) \cup {[kind |-> "submit",
                 token |-> VaultNewToken]}
<1>1. /\ UNCHANGED <<prefs, cleanup, Vault!disk, gate, account, worker, mailbox, faults,
            troubled>>
      /\ Vault!IsCurrent(VaultNewToken) /\ prefs.mem.user # None
      /\ queue' = Append(queue, [kind |-> "submit", token |-> VaultNewToken])
  BY DEF Vault!Submit, VaultNewToken
<1>2. VaultNewToken \in Vault!Token
  <2>1. prefs.mem \in VaultHalves /\ prefs.mem.login # 0
    BY <1>1 DEF VaultHalvesInv, VaultWhole, VaultTypes
  <2>2. prefs.mem.user \in Users /\ prefs.mem.login \in 1..loggedIn
    BY <1>1, <2>1 DEF VaultHalves, VaultTypes
  <2>3. gate.epoch \in Nat /\ gate.lockEpoch \in Nat
    BY DEF VaultTypes
  <2> QED
    BY <2>2, <2>3 DEF Vault!Token, VaultNewToken
<1>3. [kind |-> "submit", token |-> VaultNewToken] \in VaultTasks
  BY <1>2 DEF VaultTasks
<1>4. queue \in Seq(VaultTasks)
  BY DEF VaultTypes
<1> HIDE DEF VaultNewToken
<1> QED
  BY <1>1, <1>3, <1>4, VaultAppendElems

LEMMA VaultPostFacts == ASSUME VaultAssumed, VaultTypes, VaultServeInv, Vault!Run
    \/ Vault!Failed
    PROVE  \E g \in {0, worker.gen} :
              /\ VaultElems(mailbox') = VaultElems(mailbox) \cup {[token |-> worker.token,
                    gen |-> g]}
              /\ g # 0 => worker.pc = "run"
<1>1. worker.token \in Vault!Token /\ worker.gen \in 0..Len(madeFor) /\ 0 \in 0..Len(madeFor)
  BY VaultWorkerShape, LenProperties DEF Vault!Run, Vault!Failed, VaultTypes, VaultServing,
     VaultServingSteps
<1>2. PICK g \in {0, worker.gen} : /\ mailbox' = Append(mailbox, [token |-> worker.token,
                                         gen |-> g])
                                   /\ g # 0 => worker.pc = "run"
  BY DEF Vault!Run, Vault!Failed, Vault!Post
<1>3. [token |-> worker.token, gen |-> g] \in [token : Vault!Token, gen : 0..Len(madeFor)]
  BY <1>1, <1>2
<1>4. VaultElems(mailbox') = VaultElems(mailbox) \cup {[token |-> worker.token, gen |-> g]}
  <2> DEFINE S == [token : Vault!Token, gen : 0..Len(madeFor)]
             r == [token |-> worker.token, gen |-> g]
  <2>1. mailbox \in Seq(S) /\ r \in S /\ mailbox' = Append(mailbox, r)
    BY <1>2, <1>3 DEF VaultTypes
  <2> HIDE DEF S, r
  <2>2. VaultElems(mailbox') = VaultElems(mailbox) \cup {r}
    BY <2>1, VaultAppendElems
  <2> QED
    BY <2>2 DEF r
<1> QED
  BY <1>2, <1>4

LEMMA VaultCallbackFacts == ASSUME VaultTypes, Vault!Callback
    PROVE VaultElems(mailbox') \subseteq VaultElems(mailbox)
  BY VaultTakeElems DEF Vault!Callback, VaultTypes

LEMMA VaultEnqueueFacts == ASSUME VaultTypes, Vault!EnqueueDestroy
    PROVE  \/ account.gen = 0 /\ queue' = queue
           \/ /\ account.gen # 0
              /\ VaultElems(queue') = VaultElems(queue) \cup {[kind |-> "destroy",
                    gen |-> account.gen]}
<1>1. CASE account.gen = 0
  BY <1>1 DEF Vault!EnqueueDestroy
<1>2. CASE account.gen # 0
  <2>1. [kind |-> "destroy", gen |-> account.gen] \in VaultTasks
    BY <1>2 DEF VaultTypes, VaultAccounts, VaultTasks, Vault!Generations
  <2> QED
    BY <1>2, <2>1, VaultAppendElems DEF Vault!EnqueueDestroy, VaultTypes
<1> QED
  BY <1>1, <1>2

(* Only a submission makes a token.                                        *)
LEMMA VaultHeldKept == ASSUME VaultAssumed, VaultIInv, Vault!Next, ~Vault!Restart,
    NEW t \in VaultHeld'
                  PROVE  t \in VaultHeld \/ (Vault!Submit /\ t = VaultNewToken)
<1>0. VaultTypes /\ VaultHalvesInv /\ VaultServeInv
  BY DEF VaultIInv
<1>1. \/ VaultServing' /\ t = worker'.token
      \/ \E x \in VaultElems(queue') : x.kind = "submit" /\ t = x.token
      \/ \E m \in VaultElems(mailbox') : t = m.token
  BY DEF VaultHeld, VaultElems
<1>2. CASE VaultServing' /\ t = worker'.token
  <2>1. CASE Vault!Take
    <3>1. /\ Head(queue).kind = "submit" /\ worker'.token = Head(queue).token
          /\ Head(queue) \in VaultElems(queue)
      BY <1>0, <1>2, <2>1, VaultTakeFacts, VaultIdleFacts DEF VaultServing, VaultServingSteps
    <3> QED
      BY <1>2, <3>1, VaultHeldFacts
  <2>2. CASE Vault!WorkerStep /\ ~Vault!Take
    BY <1>0, <1>2, <2>2, VaultServingKept, VaultHeldFacts
  <2>3. CASE worker' = worker
    BY <1>2, <2>3, VaultHeldFacts DEF VaultServing
  <2> QED
    BY <2>1, <2>2, <2>3, VaultWorkerSteps
<1>3. ASSUME NEW x \in VaultElems(queue'), x.kind = "submit", t = x.token
      PROVE  t \in VaultHeld \/ (Vault!Submit /\ t = VaultNewToken)
  <2>1. x \in VaultElems(queue) => t \in VaultHeld
    BY <1>3, VaultHeldFacts
  <2>2. CASE Vault!Submit
    <3>1. x \in VaultElems(queue) \/ x = [kind |-> "submit", token |-> VaultNewToken]
      BY <1>0, <1>3, <2>2, VaultSubmitFacts
    <3> QED
      BY <1>3, <2>1, <2>2, <3>1
  <2>3. CASE Vault!Take
    BY <1>0, <1>3, <2>1, <2>3, VaultTakeFacts
  <2>4. CASE Vault!EnqueueDestroy
    <3>1. x \in VaultElems(queue) \/ x = [kind |-> "destroy", gen |-> account.gen]
      BY <1>0, <1>3, <2>4, VaultEnqueueFacts
    <3> QED
      BY <1>3, <2>1, <3>1
  <2> QED
    BY <1>3, <2>1, <2>2, <2>3, <2>4, VaultQueueSteps
<1>4. ASSUME NEW m \in VaultElems(mailbox'), t = m.token PROVE t \in VaultHeld
  <2>1. m \in VaultElems(mailbox) => t \in VaultHeld
    BY <1>4, VaultHeldFacts
  <2>2. CASE Vault!Run \/ Vault!Failed
    <3>1. m \in VaultElems(mailbox) \/ m.token = worker.token
      BY <1>0, <1>4, <2>2, VaultPostFacts
    <3>2. VaultServing
      BY <2>2 DEF Vault!Run, Vault!Failed, VaultServing, VaultServingSteps
    <3> QED
      BY <1>4, <2>1, <3>1, <3>2, VaultHeldFacts
  <2> QED
    BY <1>0, <1>4, <2>1, <2>2, VaultMailSteps, VaultCallbackFacts
<1> QED
  BY <1>1, <1>2, <1>3, <1>4

LEMMA VaultHeldTyped == ASSUME VaultTypes, NEW t \in VaultHeld PROVE t \in Vault!Token
<1>1. /\ VaultElems(queue) \subseteq VaultTasks
      /\ VaultElems(mailbox) \subseteq [token : Vault!Token, gen : 0..Len(madeFor)]
  BY VaultElemsTyped DEF VaultTypes
<1>2. VaultServing => worker.token \in Vault!Token
  BY VaultWorkerShape DEF VaultTypes
<1> QED
  BY <1>1, <1>2, VaultHeldFacts DEF VaultTasks

LEMMA VaultTimelyKept == ASSUME VaultAssumed, VaultIInv, Vault!Next, ~Vault!Restart, NEW t \in VaultHeld
    PROVE VaultTimely(t)'
<1>0. VaultTypes /\ VaultHalvesInv /\ VaultTokenInv /\ VaultTimely(t) /\ VaultAccountInv
  BY DEF VaultIInv, VaultTokenInv
<1>1. t.epoch \in Nat /\ gate.epoch \in Nat /\ t.user # None
  BY <1>0, VaultHeldTyped DEF Vault!Token, VaultTypes, VaultAssumed
<1>2. CASE Vault!onOwnerChanged \/ Vault!Revoke
  <2>1. gate'.epoch = gate.epoch + 1
    BY <1>0, <1>2 DEF Vault!onOwnerChanged, Vault!Revoke, VaultTypes
  <2> QED
    BY <1>0, <1>1, <2>1 DEF VaultTimely
<1>3. ASSUME NEW u \in Users, Vault!SetCurrentUser(u) PROVE VaultTimely(t)'
  <2>1. /\ gate' = gate /\ prefs'.mem.user = u /\ u # prefs.mem.user
        /\ account.pc = "idle" /\ account'.pc = "changed"
    BY <1>0, <1>3, VaultAccountMoves DEF Vault!SetCurrentUser, VaultTypes, VaultHalves
  <2>2. t.epoch = gate.epoch => t.user = prefs.mem.user
    BY <1>0, <2>1 DEF VaultTimely
  <2> QED
    BY <1>0, <2>1, <2>2 DEF VaultTimely
<1>4. CASE Vault!ClearConfig
  <2>1. gate' = gate /\ gate.retired
    BY <1>0, <1>4 DEF Vault!ClearConfig, Vault!process, VaultAccountInv
  <2> QED
    BY <1>0, <2>1 DEF VaultTimely
<1>5. CASE /\ gate'.epoch = gate.epoch /\ gate'.retired = gate.retired
           /\ prefs'.mem.user = prefs.mem.user /\ prefs'.mem.login = prefs.mem.login
           /\ account.pc # "changed" => account'.pc # "changed"
           /\ account.pc = "changed" => account'.pc = "changed"
  BY <1>0, <1>5 DEF VaultTimely
<1>6. ASSUME ~Vault!onOwnerChanged, ~Vault!Revoke, ~Vault!ClearConfig,
                 \A u \in Users : ~Vault!SetCurrentUser(u)
      PROVE  VaultTimely(t)'
  <2>1. gate'.epoch = gate.epoch /\ gate'.retired = gate.retired
    BY <1>0, <1>6, VaultGateSteps
  <2>2. prefs'.mem.user = prefs.mem.user /\ prefs'.mem.login = prefs.mem.login
    BY <1>0, <1>6, VaultMemSteps, VaultRemoveStoredFacts, VaultUnbindFacts,
       VaultAbandonFacts, VaultPublishFacts, VaultClearedFacts DEF VaultIInv
  <2>3. account' = account \/ (account.pc # "changed" /\ account'.pc # "changed")
    BY <1>0, <1>6, VaultAccountSteps, VaultAccountMoves DEF Vault!AccountStep
  <2> QED
    BY <1>5, <2>1, <2>2, <2>3
<1> QED
  BY <1>2, <1>3, <1>4, <1>6

LEMMA VaultTokenKept == ASSUME VaultAssumed, VaultIInv, Vault!Next PROVE VaultTokenInv'
<1>1. CASE ~Vault!Restart
  <2>1. CASE Vault!Submit
    <3>1. VaultTypes /\ VaultHalvesInv
      BY DEF VaultIInv
    <3>2. /\ UNCHANGED <<prefs, gate, account>> /\ Vault!IsCurrent(VaultNewToken)
      BY <2>1, <3>1, VaultSubmitFacts
    <3>3. gate.epoch \in Nat
      BY <3>1 DEF VaultTypes
    <3>4. VaultTimely(VaultNewToken)
      BY <3>2, <3>3 DEF VaultTimely, VaultNewToken, Vault!IsCurrent
    <3>5. ASSUME NEW t, t = VaultNewToken PROVE VaultTimely(t)'
      BY <3>2, <3>4, <3>5 DEF VaultTimely
    <3> QED
      BY <1>1, <3>5, VaultHeldKept, VaultTimelyKept DEF VaultTokenInv
  <2> QED
    BY <1>1, <2>1, VaultHeldKept, VaultTimelyKept DEF VaultTokenInv
<1>2. CASE Vault!Restart
  <2>1. worker' = Vault!Idle /\ queue' = <<Vault!Sweep>> /\ mailbox' = <<>>
    BY <1>2 DEF Vault!Restart
  <2>2. ~VaultServing'
    BY <2>1, VaultIdleFacts DEF VaultServing, VaultServingSteps
  <2>3. VaultElems(queue') = {Vault!Sweep} /\ VaultElems(mailbox') = {}
    BY <2>1, VaultOneElem, VaultNoElems
  <2>4. \A t \in VaultHeld' : \/ \E x \in VaultElems(queue') : x.kind = "submit"
                              \/ \E m \in VaultElems(mailbox') : TRUE
    BY <2>2 DEF VaultHeld, VaultElems
  <2> QED
    BY <2>3, <2>4 DEF VaultTokenInv, Vault!Sweep
<1> QED
  BY <1>1, <1>2

----------------------------------------------------------------------------
(* What a valid token reads from *)

(* Nobody's token becomes valid; one that stays valid is of no login that  *)
(* ends.                                                                   *)
LEMMA VaultValidKept == ASSUME VaultAssumed, VaultIInv, Vault!Next, ~Vault!Restart,
    NEW t \in VaultHeld, VaultValid(t)'
                   PROVE  /\ VaultValid(t) /\ ~gate.retired /\ t.user = prefs.mem.user
                          /\ account.pc \in {"idle", "changed"}
<1>0. /\ VaultTypes /\ VaultTimely(t) /\ VaultAccountInv /\ gate.epoch \in Nat
            /\ t.epoch \in Nat
      /\ t.user # None
  BY VaultHeldTyped DEF VaultIInv, VaultTokenInv, VaultTypes, Vault!Token, VaultAssumed
<1>1. ~Vault!onOwnerChanged /\ ~Vault!Revoke
  <2>1. Vault!onOwnerChanged \/ Vault!Revoke => gate'.epoch = gate.epoch + 1
    BY <1>0 DEF Vault!onOwnerChanged, Vault!Revoke, VaultTypes
  <2> QED
    BY <1>0, <2>1 DEF VaultValid, VaultTimely
<1>2. \A u \in Users : ~Vault!SetCurrentUser(u)
  <2>1. ASSUME NEW u \in Users, Vault!SetCurrentUser(u) PROVE FALSE
    <3>1. /\ gate' = gate /\ prefs'.mem.user = u /\ u # prefs.mem.user /\ account.pc = "idle"
      BY <1>0, <2>1 DEF Vault!SetCurrentUser, VaultTypes, VaultHalves
    <3> QED
      BY <1>0, <3>1 DEF VaultValid, VaultTimely
  <2> QED
    BY <2>1
<1>3. ~Vault!ClearConfig
  <2>1. Vault!ClearConfig => prefs'.mem.user = None
    BY <1>0 DEF Vault!ClearConfig, VaultTypes, Vault!Nobody
  <2> QED
    BY <1>0, <2>1 DEF VaultValid
<1>4. gate'.epoch = gate.epoch
  BY <1>0, <1>1, VaultGateSteps
<1>5. prefs'.mem.user = prefs.mem.user
  BY <1>0, <1>2, <1>3, VaultMemSteps, VaultRemoveStoredFacts, VaultUnbindFacts,
     VaultAbandonFacts, VaultPublishFacts, VaultClearedFacts DEF VaultIInv
<1>6. VaultValid(t) /\ t.epoch = gate.epoch
  BY <1>4, <1>5 DEF VaultValid
<1>7. account.pc \in {"idle", "changed"}
  BY <1>0, <1>6 DEF VaultTimely, VaultAccountInv
<1> QED
  BY <1>0, <1>6, <1>7 DEF VaultTimely, VaultValid

(* What a valid token is bound to stays so, unless the worker destroys it. *)
LEMMA VaultBoundKept ==
    ASSUME VaultAssumed, VaultIInv, Vault!Next, ~Vault!Restart, NEW t \in VaultHeld, NEW g,
          g # 0, VaultBound(t, g),
           worker.pc \in VaultDestroying => ~VaultValid(t) \/ g # worker.gen
    PROVE  VaultBound(t, g)'
<1>1. SUFFICES ASSUME VaultValid(t)' PROVE (/\ g = prefs.mem.gen /\ prefs.mem.owner = t.user
                                            /\ g \notin cleanup.mem)'
  BY DEF VaultBound
<1>2. /\ VaultValid(t) /\ t.user = prefs.mem.user /\ account.pc \in {"idle", "changed"}
      /\ g = prefs.mem.gen /\ prefs.mem.owner = t.user /\ g \notin cleanup.mem
      /\ VaultTypes /\ VaultHalvesInv /\ VaultDestroyInv /\ VaultServeInv /\ VaultTokenInv
  BY <1>1, VaultValidKept DEF VaultBound, VaultIInv
<1>3. prefs'.mem.gen = prefs.mem.gen /\ prefs'.mem.owner = prefs.mem.owner
  <2>1. ~Vault!RemoveStored /\ ~Vault!ClearConfig
    BY <1>2 DEF Vault!RemoveStored, Vault!ClearConfig
  <2>2. ASSUME NEW u \in Users, Vault!SetCurrentUser(u)
        PROVE prefs'.mem.gen = prefs.mem.gen /\ prefs'.mem.owner = prefs.mem.owner
    BY <1>2, <2>2 DEF Vault!SetCurrentUser, VaultTypes, VaultHalves
  <2>3. Vault!Unbind => prefs' = prefs
    BY <1>2, VaultUnbindFacts DEF VaultDestroying
  <2>4. ~Vault!Abandon
    BY <1>2, VaultAbandonFacts DEF VaultDestroyInv
  <2>5. Vault!Publish => prefs' = prefs
    BY <1>2, VaultPublishFacts
  <2> QED
    BY <1>2, <2>1, <2>2, <2>3, <2>4, <2>5, VaultMemSteps
<1>4. g \notin cleanup'.mem
  <2>1. ~Vault!RetireStored
    BY <1>2 DEF Vault!RetireStored
  <2>2. CASE Vault!Tombstone
    BY <1>2, <2>2, VaultDestroyedGen, VaultRetireFacts DEF Vault!Tombstone, VaultDestroying
  <2>3. CASE Vault!ReadMetadata
    <3>1. Vault!Current /\ VaultServing => worker.token.user = prefs.mem.user
      BY <1>2, VaultServingHeld, VaultCurrentFacts DEF Vault!Current
    <3>2. cleanup' = cleanup
      BY <1>2, <2>3, <3>1, VaultOpenFacts
    <3> QED
      BY <1>2, <3>2
  <2>4. CASE Vault!Forget
    BY <1>2, <2>4 DEF Vault!Forget, Vault!Written
  <2> QED
    BY <1>2, <2>1, <2>2, <2>3, <2>4, VaultCleanupSteps
<1> QED
  BY <1>2, <1>3, <1>4

LEMMA VaultMailKept == ASSUME VaultAssumed, VaultIInv, Vault!Next PROVE VaultMailInv'
<1>0. VaultTypes /\ VaultMailInv /\ VaultDestroyInv /\ VaultServeInv
  BY DEF VaultIInv
<1>1. CASE Vault!Restart
  <2>1. VaultElems(mailbox') = {}
    BY <1>1, VaultNoElems DEF Vault!Restart
  <2> QED
    BY <2>1 DEF VaultMailInv, VaultElems
<1>2. CASE ~Vault!Restart
  <2>1. ASSUME NEW m \in VaultElems(mailbox), m.gen # 0 PROVE VaultBound(m.token, m.gen)'
    <3>1. m.token \in VaultHeld /\ VaultBound(m.token, m.gen)
      BY <1>0, <2>1, VaultHeldFacts DEF VaultMailInv
    <3>2. worker.pc \in VaultDestroying => ~VaultValid(m.token) \/ m.gen # worker.gen
      BY <1>0 DEF VaultDestroyInv
    <3> QED
      BY <1>2, <2>1, <3>1, <3>2, VaultBoundKept
  <2>2. CASE Vault!Run \/ Vault!Failed
    <3>1. PICK g \in {0, worker.gen} :
             /\ VaultElems(mailbox') = VaultElems(mailbox) \cup {[token |-> worker.token,
                   gen |-> g]}
             /\ g # 0 => worker.pc = "run"
      BY <1>0, <2>2, VaultPostFacts
    <3>2. ASSUME NEW m, m = [token |-> worker.token, gen |-> g], m.gen # 0
                     PROVE VaultBound(m.token, m.gen)'
      <4>1. /\ worker.pc = "run" /\ m.gen = worker.gen /\ m.token = worker.token
            /\ VaultBound(m.token, m.gen) /\ VaultServing
        BY <1>0, <3>1, <3>2 DEF VaultServeInv, VaultServing, VaultServingSteps
      <4>2. m.token \in VaultHeld /\ worker.pc \notin VaultDestroying
        BY <4>1, VaultServingHeld DEF VaultDestroying
      <4> QED
        BY <1>2, <3>2, <4>1, <4>2, VaultBoundKept
    <3>3. ASSUME NEW m \in VaultElems(mailbox'), m.gen # 0 PROVE VaultBound(m.token, m.gen)'
      BY <2>1, <3>1, <3>2, <3>3
    <3> QED
      BY <3>3 DEF VaultMailInv, VaultElems
  <2>3. CASE ~Vault!Run /\ ~Vault!Failed
    <3>1. VaultElems(mailbox') \subseteq VaultElems(mailbox)
      BY <1>0, <1>2, <2>3, VaultMailSteps, VaultCallbackFacts
    <3> QED
      BY <2>1, <3>1 DEF VaultMailInv, VaultElems
  <2> QED
    BY <2>2, <2>3
<1> QED
  BY <1>1, <1>2

LEMMA VaultToDestroyFacts == ASSUME NEW g
    PROVE  g \in VaultToDestroy <=> \E x \in VaultElems(queue) : x.kind = "destroy" /\ g = x.gen
  BY DEF VaultToDestroy

(* What the queue is to destroy, only a logout adds to.                    *)
LEMMA VaultToDestroyKept == ASSUME VaultAssumed, VaultIInv, Vault!Next
    PROVE  /\ VaultToDestroy' \subseteq VaultToDestroy \/ Vault!EnqueueDestroy
           /\ Vault!EnqueueDestroy
                 => VaultToDestroy' \subseteq VaultToDestroy \cup ({account.gen} \ {0})
           /\ Vault!Restart => VaultToDestroy' = {}
<1>0. VaultTypes /\ VaultHalvesInv
  BY DEF VaultIInv
<1>1. ASSUME NEW g \in VaultToDestroy'
      PROVE  \/ g \in VaultToDestroy
             \/ Vault!EnqueueDestroy /\ g = account.gen /\ g # 0
  <2>1. PICK x \in VaultElems(queue') : x.kind = "destroy" /\ g = x.gen
    BY <1>1 DEF VaultToDestroy, VaultElems
  <2>2. x \in VaultElems(queue) => g \in VaultToDestroy
    BY <2>1, VaultToDestroyFacts
  <2>3. CASE Vault!EnqueueDestroy
    <3>1. \/ x \in VaultElems(queue)
          \/ account.gen # 0 /\ x = [kind |-> "destroy", gen |-> account.gen]
      BY <1>0, <2>1, <2>3, VaultEnqueueFacts
    <3> QED
      BY <2>1, <2>2, <2>3, <3>1
  <2>4. CASE Vault!Submit
    <3>1. x \in VaultElems(queue) \/ x = [kind |-> "submit", token |-> VaultNewToken]
      BY <1>0, <2>1, <2>4, VaultSubmitFacts
    <3> QED
      BY <2>1, <2>2, <3>1
  <2>5. CASE Vault!Take
    BY <1>0, <2>1, <2>2, <2>5, VaultTakeFacts
  <2>6. CASE Vault!Restart
    BY <2>1, <2>6, VaultOneElem DEF Vault!Restart, Vault!Sweep
  <2> QED
    BY <2>1, <2>2, <2>3, <2>4, <2>5, <2>6, VaultQueueSteps
<1>2. ASSUME Vault!Restart PROVE VaultToDestroy' = {}
  <2>1. VaultElems(queue') = {Vault!Sweep} /\ Vault!Sweep.kind = "sweep"
    BY <1>2, VaultOneElem DEF Vault!Restart, Vault!Sweep
  <2> QED
    BY <2>1 DEF VaultToDestroy, VaultElems
<1> QED
  BY <1>1, <1>2

LEMMA VaultQueueKept == ASSUME VaultAssumed, VaultIInv, Vault!Next PROVE VaultQueueInv'
<1>0. VaultTypes /\ VaultQueueInv /\ VaultAccountInv /\ VaultTokenInv /\ VaultNewInv
          /\ VaultDestroyInv /\ VaultServeInv
  BY DEF VaultIInv
<1>1. SUFFICES ASSUME NEW g \in VaultToDestroy' PROVE g # prefs'.mem.gen
  BY DEF VaultQueueInv, VaultToDestroy, VaultElems
<1>2. g # 0
  <2>1. VaultElems(queue) \subseteq VaultTasks
    BY <1>0, VaultElemsTyped DEF VaultTypes
  <2>2. 0 \notin VaultToDestroy
    BY <2>1 DEF VaultToDestroy, VaultTasks, Vault!Generations
  <2> QED
    BY <1>1, <2>2, VaultToDestroyKept
<1>3. CASE Vault!EnqueueDestroy
  <2>1. prefs' = prefs /\ prefs.mem.gen = 0
    BY <1>0, <1>3 DEF Vault!EnqueueDestroy, VaultAccountInv
  <2> QED
    BY <1>2, <2>1
<1>4. CASE ~Vault!EnqueueDestroy
  <2>1. g \in VaultToDestroy /\ ~Vault!Restart
    BY <1>1, <1>4, VaultToDestroyKept
  <2>2. g # prefs.mem.gen
    BY <1>0, <2>1 DEF VaultQueueInv
  <2>3. ASSUME NEW u \in Users, Vault!SetCurrentUser(u) PROVE prefs'.mem.gen = prefs.mem.gen
    BY <1>0, <2>3 DEF Vault!SetCurrentUser, VaultTypes, VaultHalves
  <2>4. Vault!RemoveStored \/ Vault!ClearConfig \/ Vault!Abandon => prefs'.mem.gen = 0
    BY <1>0, VaultRemoveStoredFacts, VaultAbandonFacts, VaultClearedFacts DEF
       Vault!ClearConfig, VaultTypes, Vault!Nobody
  <2>5. Vault!Unbind => prefs'.mem.gen \in {0, prefs.mem.gen}
    BY <1>0, VaultUnbindFacts, VaultClearedFacts
  <2>6. Vault!Publish => prefs'.mem.gen = prefs.mem.gen \/ prefs'.mem.gen = worker.gen
    BY <1>0, VaultPublishFacts
  <2>7. Vault!Publish => g # worker.gen
    BY <1>0, <2>1 DEF Vault!Publish, VaultNewInv, VaultUnknown
  <2> QED
    BY <1>0, <1>2, <2>1, <2>2, <2>3, <2>4, <2>5, <2>6, <2>7, VaultMemSteps
<1> QED
  BY <1>3, <1>4

----------------------------------------------------------------------------
(* The worker *)

(* The steps of a destruction.                                             *)
LEMMA VaultTombstoneFacts == ASSUME VaultAssumed, VaultTypes, VaultDestroyInv, Vault!Tombstone
    PROVE  /\ worker.pc = "tombstone" /\ worker.gen \in Vault!Generations
                 /\ Vault!Retire(worker.gen)
           /\ worker'.pc = "unbind" /\ worker'.gen = worker.gen
           /\ worker'.left = worker.left /\ worker'.back = worker.back
           /\ cleanup'.mem = cleanup.mem \cup {worker.gen}
           /\ UNCHANGED <<prefs, Vault!disk, Vault!process, queue>>
<1>1. worker.pc = "tombstone" /\ worker.gen \in Vault!Generations
          /\ Vault!Retire(worker.gen) /\ Vault!Goto("unbind")
  BY VaultDestroyedGen DEF Vault!Tombstone, VaultDestroying
<1> QED
  BY <1>1, VaultGotoFacts, VaultRetireFacts DEF Vault!Tombstone, VaultTypes

LEMMA VaultDeleteFacts == ASSUME VaultAssumed, VaultTypes, VaultDestroyInv, Vault!DeleteKey
    \/ Vault!DeleteFile
    PROVE  /\ worker.pc \in {"deleteKey", "deleteFile"} /\ worker.gen \in Vault!Generations
           /\ UNCHANGED <<prefs, cleanup, madeFor, loggedIn, Vault!process, queue, troubled>>
           /\ keys' \subseteq keys /\ keys \subseteq keys' \cup {worker.gen}
           /\ files' \subseteq files /\ files \subseteq files' \cup {worker.gen}
           /\ content' \subseteq content
           /\ faults' = 0 => faults = 0
           /\ \/ Vault!DeleteKey /\ Vault!Goto("deleteFile")
              \/ Vault!DeleteFile /\ Vault!Goto("forget") /\ worker.gen \notin content'
              \/ Vault!Destroyed /\ faults' # 0
<1>1. worker.pc \in {"deleteKey", "deleteFile"} /\ worker.gen \in Vault!Generations
  BY VaultDestroyedGen DEF Vault!DeleteKey, Vault!DeleteFile, VaultDestroying
<1>2. UNCHANGED <<prefs, cleanup, madeFor, loggedIn, Vault!process, queue, troubled>>
  BY DEF Vault!DeleteKey, Vault!DeleteFile, Vault!Threw
<1>3. faults \in Nat
  BY DEF VaultTypes
<1>4. CASE Vault!DeleteKey
  BY <1>1, <1>2, <1>3, <1>4 DEF Vault!DeleteKey, Vault!Threw, Vault!Fault
<1>5. CASE Vault!DeleteFile
  BY <1>1, <1>2, <1>3, <1>5 DEF Vault!DeleteFile, Vault!Threw, Vault!Fault
<1> QED
  BY <1>4, <1>5

LEMMA VaultForgetFacts == ASSUME VaultAssumed, VaultTypes, VaultDestroyInv, Vault!Forget
    PROVE  /\ worker.pc = "forget" /\ worker.gen \in Vault!Generations /\ Vault!Destroyed
           /\ UNCHANGED <<prefs, Vault!disk, Vault!process, queue, troubled>>
           /\ cleanup'.mem = cleanup.mem \ {worker.gen}
           /\ cleanup'.disk = cleanup.disk \/ cleanup'.disk = cleanup'.mem
           /\ faults' = 0 => faults = 0
<1>1. worker.pc = "forget" /\ worker.gen \in Vault!Generations
  BY VaultDestroyedGen DEF Vault!Forget, VaultDestroying
<1>2. PICK ok \in Vault!Commits : /\ cleanup' = Vault!Written(cleanup,
                                        cleanup.mem \ {worker.gen}, ok)
                                  /\ Vault!Counted(ok)
  BY DEF Vault!Forget
<1>3. /\ cleanup'.mem = cleanup.mem \ {worker.gen}
      /\ cleanup'.disk = cleanup.disk \/ cleanup'.disk = cleanup'.mem
  BY <1>2 DEF Vault!Written
<1>4. faults' = 0 => faults = 0
  BY <1>2, VaultCommitFacts
<1> QED
  BY <1>1, <1>3, <1>4 DEF Vault!Forget

(* The steps of a request that change nothing but where the worker is.     *)
LEMMA VaultOnlyGoto ==
    ASSUME VaultTypes, Vault!Load \/ Vault!CreateFile \/ Vault!Check \/ Vault!Run
          \/ Vault!Failed
    PROVE  /\ VaultServing /\ worker.token \in Vault!Token
                 /\ worker.pc \in VaultServingSteps /\ worker.left = {}
           /\ UNCHANGED <<prefs, cleanup, keys, madeFor, loggedIn, gate, account, queue,
                 troubled>>
           /\ faults' = 0 => faults = 0
           /\ \/ worker' = Vault!Idle /\ worker.pc \in {"check", "run", "failed"}
              \/ /\ worker'.gen = worker.gen /\ worker'.left = {} /\ worker'.back = worker.back
                 /\ worker'.token = worker.token
                 /\ \/ worker.pc = "load" /\ worker'.pc \in {"check", "failed"}
                    \/ /\ worker.pc = "createFile" /\ worker'.pc \in {"publish", "tombstone"}
                       /\ worker'.pc = "publish" => worker.gen \in files'
                    \/ worker.pc = "check" /\ worker'.pc = "run"
<1>1. /\ VaultServing /\ worker.token \in Vault!Token /\ worker.pc \in VaultServingSteps
            /\ worker.left = {}
      /\ worker \in VaultServants /\ worker \in VaultWorkers
  BY VaultWorkerShape DEF Vault!Load, Vault!CreateFile, Vault!Check, Vault!Run, Vault!Failed,
     VaultTypes, VaultServing, VaultServingSteps
<1>2. /\ UNCHANGED <<prefs, cleanup, keys, madeFor, loggedIn, gate, account, queue, troubled>>
      /\ faults' = 0 => faults = 0
  BY DEF Vault!Load, Vault!CreateFile, Vault!Check, Vault!Run, Vault!Failed, VaultTypes,
     Vault!Fault, Vault!disk, Vault!process
<1>3. CASE Vault!Load
  BY <1>1, <1>2, <1>3, VaultGotoFacts DEF Vault!Load
<1>4. CASE Vault!CreateFile
  BY <1>1, <1>2, <1>4, VaultGotoFacts DEF Vault!CreateFile
<1>5. CASE Vault!Check
  BY <1>1, <1>2, <1>5, VaultGotoFacts DEF Vault!Check
<1>6. CASE Vault!Run \/ Vault!Failed
  BY <1>1, <1>2, <1>6 DEF Vault!Run, Vault!Failed
<1> QED
  BY <1>3, <1>4, <1>5, <1>6

(* What a step of the account thread, or of the disk, leaves to the worker. *)
LEMMA VaultOutsideFacts ==
    ASSUME VaultAssumed, VaultIInv, Vault!Next, ~Vault!WorkerStep, ~Vault!Restart
    PROVE  /\ worker' = worker /\ UNCHANGED <<keys, files, content, madeFor>>
           /\ VaultElems(mailbox') \subseteq VaultElems(mailbox)
           /\ prefs'.mem.gen \in {0, prefs.mem.gen}
           /\ prefs'.mem.gen # prefs.mem.gen
                 => prefs.mem.gen \in cleanup.mem /\ worker.pc # "replace"
           /\ prefs'.disk = prefs.disk \/ prefs'.disk = prefs'.mem
           /\ account'.gen \in {0, account.gen, prefs.mem.gen}
           /\ cleanup.mem \subseteq cleanup'.mem
                 /\ cleanup'.mem \subseteq cleanup.mem \cup {prefs.mem.gen}
           /\ cleanup'.disk = cleanup.disk \/ cleanup'.disk = cleanup'.mem
           /\ VaultToDestroy' \subseteq VaultToDestroy \cup ({account.gen} \ {0})
<1>0. VaultTypes /\ VaultAccountInv /\ VaultHalvesInv /\ VaultDestroyInv /\ VaultServeInv
  BY DEF VaultIInv
<1>1. worker' = worker
  BY VaultWorkerSteps
<1>2. UNCHANGED <<keys, files, content, madeFor>>
  BY VaultFilesSteps DEF Vault!WorkerStep
<1>3. VaultElems(mailbox') \subseteq VaultElems(mailbox)
  BY <1>0, VaultMailSteps, VaultCallbackFacts DEF Vault!WorkerStep
<1>4. /\ prefs'.mem.gen \in {0, prefs.mem.gen}
      /\ prefs'.mem.gen # prefs.mem.gen
            => prefs.mem.gen \in cleanup.mem /\ worker.pc # "replace"
  <2>1. ASSUME NEW u \in Users, Vault!SetCurrentUser(u) PROVE prefs'.mem.gen = prefs.mem.gen
    BY <1>0, <2>1 DEF Vault!SetCurrentUser, VaultTypes, VaultHalves
  <2>2. CASE Vault!RemoveStored
    <3>1. prefs'.mem.gen = 0 /\ account.pc = "remove"
      BY <1>0, <2>2, VaultRemoveStoredFacts, VaultClearedFacts DEF Vault!RemoveStored
    <3> QED
      BY <1>0, <3>1 DEF VaultAccountInv
  <2>3. CASE Vault!ClearConfig
    <3>1. prefs'.mem.gen = 0 /\ account.pc = "clear"
      BY <1>0, <2>3 DEF Vault!ClearConfig, VaultTypes, Vault!Nobody
    <3> QED
      BY <1>0, <3>1 DEF VaultAccountInv
  <2> QED
    BY <1>0, <2>1, <2>2, <2>3, VaultMemSteps DEF Vault!WorkerStep
<1>5. prefs'.disk = prefs.disk \/ prefs'.disk = prefs'.mem
  BY <1>0, VaultDiskSteps, VaultRemoveStoredFacts DEF Vault!SaveConfig, VaultTypes,
     Vault!WorkerStep
<1>6. account'.gen \in {0, account.gen, prefs.mem.gen}
  BY <1>0, VaultAccountSteps, VaultAccountMoves DEF Vault!AccountStep
<1>7. /\ cleanup.mem \subseteq cleanup'.mem
            /\ cleanup'.mem \subseteq cleanup.mem \cup {prefs.mem.gen}
      /\ cleanup'.disk = cleanup.disk \/ cleanup'.disk = cleanup'.mem
  <2>1. CASE Vault!RetireStored /\ prefs.mem.gen # 0
    <3>1. prefs.mem.gen \in Vault!Generations /\ Vault!Retire(prefs.mem.gen)
      BY <1>0, <2>1 DEF Vault!RetireStored, VaultTypes, VaultHalves, Vault!Generations
    <3> QED
      BY <1>0, <3>1, VaultRetireFacts
  <2>2. Vault!RetireStored /\ prefs.mem.gen = 0 => cleanup' = cleanup
    BY DEF Vault!RetireStored
  <2> QED
    BY <2>1, <2>2, VaultCleanupSteps DEF Vault!WorkerStep
<1> QED
  BY <1>1, <1>2, <1>3, <1>4, <1>5, <1>6, <1>7, VaultToDestroyKept

(* Validity, after a step of the worker.                                   *)
LEMMA VaultValidSame == ASSUME VaultAssumed, VaultIInv, Vault!WorkerStep, NEW t
    PROVE VaultValid(t)' <=> VaultValid(t)
<1>0. Vault!Next /\ VaultTypes /\ VaultDestroyInv /\ VaultServeInv
  BY DEF Vault!Next, VaultIInv
<1>1. gate' = gate
  BY VaultWorkerLeaves
<1>2. prefs'.mem.user = prefs.mem.user
  <2>1. ~Vault!RemoveStored /\ ~Vault!ClearConfig /\ ~Vault!Restart
            /\ (\A u \in Users : ~Vault!SetCurrentUser(u))
    <3>1. account' = account /\ loggedIn' = loggedIn /\ VaultTypes
      BY <1>0, VaultWorkerLeaves
    <3>2. ~Vault!RemoveStored /\ ~Vault!ClearConfig
      BY <3>1, VaultAccountMoves
    <3>3. \A u \in Users : ~Vault!SetCurrentUser(u)
      BY <3>1, VaultAccountMoves
    <3>4. ~Vault!Restart
      <4>1. counts' = counts
        BY DEF Vault!WorkerStep, Vault!Tombstone, Vault!Unbind, Vault!DeleteKey,
           Vault!DeleteFile, Vault!Forget, Vault!Take, Vault!SweepNext,
           Vault!ReadMetadata, Vault!Abandon, Vault!Load, Vault!CreateKey,
           Vault!CreateFile, Vault!Publish, Vault!Check, Vault!Run, Vault!Failed,
           Vault!process
      <4>2. QED
        <5>1. counts.restarts \in Nat /\ counts.restarts + 1 # counts.restarts
          BY <1>0 DEF VaultTypes
        <5>2. Vault!Restart => counts'.restarts = counts.restarts + 1
          BY <1>0 DEF Vault!Restart, VaultTypes
        <5> QED
          BY <4>1, <5>1, <5>2
    <3> QED
      BY <3>2, <3>3, <3>4
  <2> QED
    BY <1>0, <2>1, VaultMemSteps, VaultUnbindFacts, VaultAbandonFacts, VaultPublishFacts,
       VaultClearedFacts
<1> QED
  BY <1>1, <1>2 DEF VaultValid

(* Where the steps of the worker lead to.                                  *)
LEMMA VaultNewKept == ASSUME VaultAssumed, VaultIInv, Vault!Next PROVE VaultNewInv'
<1>0. VaultTypes /\ VaultHalvesInv /\ VaultDestroyInv /\ VaultServeInv /\ VaultNewInv
  BY DEF VaultIInv
<1>1. CASE Vault!Restart
  BY <1>1, VaultIdleFacts DEF Vault!Restart, VaultNewInv
<1>2. CASE ~Vault!WorkerStep /\ ~Vault!Restart
  <2>1. SUFFICES ASSUME worker.pc \in {"createFile", "publish"} PROVE VaultNewInv'
    BY <1>2, VaultOutsideFacts DEF VaultNewInv
  <2>2. worker.gen # 0 /\ VaultUnknown(worker.gen)
    BY <1>0, <2>1 DEF VaultNewInv
  <2>3. ASSUME NEW g, g = worker.gen PROVE VaultUnknown(g)'
    <3>1. g # 0 /\ VaultUnknown(g)
      BY <2>2, <2>3
    <3>2. g \notin {prefs'.mem.gen, prefs'.disk.gen, account'.gen} \cup VaultToDestroy'
      BY <1>2, <3>1, VaultOutsideFacts DEF VaultUnknown
    <3>3. g \notin cleanup'.mem \cup cleanup'.disk \cup content'
      BY <1>2, <3>1, VaultOutsideFacts DEF VaultUnknown
    <3>4. \A m \in VaultElems(mailbox') : m.gen # g
      BY <1>2, <3>1, VaultOutsideFacts DEF VaultUnknown
    <3> QED
      BY <3>2, <3>3, <3>4 DEF VaultUnknown, VaultElems, VaultToDestroy
  <2>4. worker' = worker /\ UNCHANGED <<keys, files, madeFor>>
    BY <1>2, VaultOutsideFacts
  <2> QED
    BY <1>0, <2>3, <2>4 DEF VaultNewInv
<1>3. CASE Vault!CreateKey /\ worker'.pc = "createFile"
  <2> DEFINE n == Len(madeFor) + 1
  <2>1. /\ madeFor' = Append(madeFor, [user |-> worker.token.user,
              login |-> worker.token.login])
        /\ keys' = keys \cup {n} /\ worker'.gen = n /\ worker'.back = "failed"
        /\ worker'.token = worker.token /\ worker.token \in Vault!Token
        /\ UNCHANGED <<prefs, cleanup, content, account, queue, mailbox>>
    BY <1>0, <1>3, VaultCreateKeyFacts DEF Vault!process
  <2>2. [user |-> worker.token.user, login |-> worker.token.login] \in [user : Users,
            login : 1..loggedIn]
    BY <2>1 DEF Vault!Token
  <2>3. /\ Len(madeFor') = n
              /\ madeFor'[n] = [user |-> worker.token.user, login |-> worker.token.login]
        /\ n # 0 /\ n \notin Vault!Generations /\ n \notin 0..Len(madeFor)
    <3>1. madeFor \in Seq([user : Users, login : 1..loggedIn]) /\ Len(madeFor) \in Nat
      BY <1>0, LenProperties DEF VaultTypes
    <3> QED
      BY <2>1, <2>2, <3>1, AppendProperties DEF Vault!Generations
  <2>4. /\ VaultElems(queue) \subseteq VaultTasks
        /\ VaultElems(mailbox) \subseteq [token : Vault!Token, gen : 0..Len(madeFor)]
    BY <1>0, VaultElemsTyped DEF VaultTypes
  <2>5. n \notin VaultToDestroy
    BY <2>3, <2>4 DEF VaultToDestroy, VaultTasks
  <2>6. \A m \in VaultElems(mailbox) : m.gen # n
    BY <2>3, <2>4
  <2>7. n \notin {prefs.mem.gen, prefs.disk.gen, account.gen}
    BY <1>0, <2>3 DEF VaultTypes, VaultHalves, VaultAccounts
  <2>8. n \notin cleanup.mem \cup cleanup.disk \cup content
    BY <1>0, <2>3 DEF VaultTypes
  <2>9. ASSUME NEW g, g = n PROVE VaultUnknown(g)'
    BY <2>1, <2>5, <2>6, <2>7, <2>8, <2>9 DEF VaultUnknown, VaultElems, VaultToDestroy
  <2> QED
    BY <1>3, <2>1, <2>3, <2>9 DEF VaultNewInv
<1>4. CASE Vault!CreateFile /\ worker'.pc = "publish"
  <2>1. /\ worker.pc = "createFile" /\ worker'.gen = worker.gen /\ worker'.back = worker.back
        /\ worker'.token = worker.token /\ worker.gen \in files'
        /\ UNCHANGED <<prefs, cleanup, keys, madeFor, account, queue>>
    BY <1>0, <1>4, VaultOnlyGoto DEF Vault!CreateFile
  <2>2. UNCHANGED <<content, mailbox>>
    BY <1>4 DEF Vault!CreateFile, Vault!process
  <2>3. worker.gen # 0 /\ VaultUnknown(worker.gen)
    BY <1>0, <2>1 DEF VaultNewInv
  <2>4. ASSUME NEW g, g = worker.gen PROVE VaultUnknown(g)'
    BY <2>1, <2>2, <2>3, <2>4 DEF VaultUnknown, VaultElems, VaultToDestroy
  <2> QED
    BY <1>0, <1>4, <2>1, <2>4 DEF VaultNewInv
<1>5. ASSUME Vault!WorkerStep, worker'.pc \in {"createFile", "publish"}
      PROVE  \/ Vault!CreateKey /\ worker'.pc = "createFile"
             \/ Vault!CreateFile /\ worker'.pc = "publish"
  <2>1. worker \in VaultWorkers
    BY <1>0 DEF VaultTypes
  <2>2. CASE Vault!Tombstone \/ Vault!Unbind \/ Vault!DeleteKey \/ Vault!DeleteFile
                 \/ Vault!Forget
    <3>1. worker.pc \in VaultDestroying
              /\ (Vault!Destroyed \/ \E p \in VaultDestroying : Vault!Goto(p))
      BY <2>2 DEF Vault!Tombstone, Vault!Unbind, Vault!DeleteKey, Vault!DeleteFile,
         Vault!Forget, VaultDestroying
    <3> QED
      BY <1>5, <2>1, <3>1, VaultGotoFacts, VaultDestroyedFacts, VaultIdleFacts DEF
         VaultDestroying
  <2>3. ~Vault!Take /\ ~Vault!SweepNext /\ ~Vault!ReadMetadata
    BY <1>0, <1>5, VaultTakeFacts, VaultSweepFacts, VaultOpenFacts, VaultIdleFacts
  <2>4. ~Vault!Publish
    BY <1>0, <1>5, <2>1, VaultPublishFacts, VaultGotoFacts
  <2>5. ~Vault!Abandon
    <3>1. Vault!Abandon => worker'.pc \in {"tombstone", "failed"}
      BY <1>0, <2>1, VaultAbandonFacts, VaultGotoFacts DEF VaultWorkers, VaultServants,
         VaultSweepers
    <3> QED
      BY <1>5, <3>1
  <2>6. CASE Vault!Load \/ Vault!CreateFile \/ Vault!Check \/ Vault!Run \/ Vault!Failed
    <3>1. worker'.pc = "publish" /\ worker.pc = "createFile"
      BY <1>0, <1>5, <2>6, VaultOnlyGoto, VaultIdleFacts
    <3> QED
      BY <2>6, <3>1 DEF Vault!Load, Vault!Check, Vault!Run, Vault!Failed
  <2>7. Vault!CreateKey => worker'.pc = "createFile"
    BY <1>0, <1>5, VaultCreateKeyFacts
  <2> QED
    BY <1>5, <2>2, <2>3, <2>4, <2>5, <2>6, <2>7 DEF Vault!WorkerStep
<1> QED
  BY <1>1, <1>2, <1>3, <1>4, <1>5 DEF VaultNewInv

LEMMA VaultDestroyKept == ASSUME VaultAssumed, VaultIInv, Vault!Next PROVE VaultDestroyInv'
<1> DEFINE P == VaultDeleting \cup {"unbind", "replace"}
<1>0. VaultTypes /\ VaultHalvesInv /\ VaultDestroyInv /\ VaultServeInv /\ VaultNewInv
          /\ worker \in VaultWorkers
  BY DEF VaultIInv, VaultTypes
<1>1. CASE Vault!Restart
  BY <1>1, VaultIdleFacts DEF Vault!Restart, VaultDestroyInv, VaultDestroying, VaultDeleting
<1>2. CASE ~Vault!WorkerStep /\ ~Vault!Restart
  <2>1. ASSUME NEW m \in VaultElems(mailbox'), VaultValid(m.token)'
                   PROVE m \in VaultElems(mailbox) /\ VaultValid(m.token)
    <3>1. m \in VaultElems(mailbox)
      BY <1>2, <2>1, VaultOutsideFacts
    <3>2. m.token \in VaultHeld
      BY <3>1, VaultHeldFacts
    <3> QED
      BY <1>2, <2>1, <3>1, <3>2, VaultValidKept
  <2>2. /\ worker' = worker /\ cleanup.mem \subseteq cleanup'.mem /\ content' = content
        /\ prefs'.mem.gen \in {0, prefs.mem.gen}
    BY <1>2, VaultOutsideFacts
  <2> QED
    BY <1>0, <2>1, <2>2 DEF VaultDestroyInv, VaultElems, VaultDestroying, VaultDeleting
(* Steps after which the worker destroys nothing.                          *)
<1>3. CASE /\ worker'.pc \notin VaultDestroying \cup {"replace"}
           /\ worker'.left \subseteq cleanup'.mem
           /\ worker'.left # {} => worker'.pc = "sweep" \/ worker'.back = "sweep"
  BY <1>3 DEF VaultDestroyInv, VaultDestroying, VaultDeleting
<1>4. CASE Vault!Take
  <2>1. CASE worker'.pc # "tombstone"
    BY <1>0, <1>3, <1>4, <2>1, VaultTakeFacts, VaultIdleFacts DEF VaultDestroying
  <2>2. CASE worker'.pc = "tombstone"
    <3>1. /\ Head(queue).kind = "destroy" /\ Head(queue) \in VaultElems(queue)
          /\ worker'.gen = Head(queue).gen /\ worker'.gen \in Vault!Generations
                /\ worker'.left = {}
          /\ UNCHANGED <<cleanup, mailbox>>
      BY <1>0, <1>4, <2>2, VaultTakeFacts, VaultIdleFacts DEF Vault!process
    <3>2. worker'.gen \in VaultToDestroy /\ worker'.gen # prefs.mem.gen /\ worker'.gen # 0
      <4>1. worker'.gen \in VaultToDestroy
        BY <3>1, VaultToDestroyFacts
      <4>2. worker'.gen # 0
        BY <3>1 DEF Vault!Generations
      <4> QED
        BY <4>1, <4>2 DEF VaultIInv, VaultQueueInv
    <3>3. \A m \in VaultElems(mailbox) : VaultValid(m.token) => m.gen # worker'.gen
      BY <3>2 DEF VaultIInv, VaultMailInv, VaultBound
    <3>4. \A m \in VaultElems(mailbox) : VaultValid(m.token)' => m.gen # worker'.gen
      BY <1>4, <3>3, VaultValidSame DEF Vault!WorkerStep
    <3> QED
      BY <2>2, <3>1, <3>2, <3>4 DEF VaultDestroyInv, VaultDeleting, VaultElems
  <2> QED
    BY <2>1, <2>2
<1>5. CASE Vault!SweepNext
  <2>1. CASE worker' = Vault!Idle
    BY <1>3, <2>1, VaultIdleFacts DEF VaultDestroying
  <2>2. CASE worker' # Vault!Idle
    <3>1. /\ worker'.gen \in worker.left /\ worker'.gen \in Vault!Generations
          /\ worker'.pc = "tombstone" /\ worker'.back = "sweep"
          /\ worker'.left = worker.left \ {worker'.gen}
          /\ UNCHANGED <<cleanup, mailbox>>
      BY <1>0, <1>5, <2>2, VaultSweepFacts DEF Vault!process
    <3>2. worker'.gen \in cleanup.mem /\ worker'.gen # 0 /\ worker'.left \subseteq cleanup.mem
      BY <1>0, <3>1 DEF VaultDestroyInv, Vault!Generations
    <3>3. \A m \in VaultElems(mailbox) : VaultValid(m.token) => m.gen # worker'.gen
      BY <3>2 DEF VaultIInv, VaultMailInv, VaultBound
    <3>4. \A m \in VaultElems(mailbox) : VaultValid(m.token)' => m.gen # worker'.gen
      BY <1>5, <3>3, VaultValidSame DEF Vault!WorkerStep
    <3> QED
      BY <3>1, <3>2, <3>4 DEF VaultDestroyInv, VaultDeleting, VaultElems
  <2> QED
    BY <2>1, <2>2
(* Steps of a destruction that goes on, of the same generation.            *)
<1>6. CASE /\ Vault!WorkerStep /\ worker.pc \in VaultDestroying
                 /\ worker'.pc \in VaultDestroying
           /\ worker'.gen = worker.gen /\ worker'.left = worker.left
                 /\ worker'.back = worker.back
           /\ worker'.pc \in VaultDeleting \cup {"unbind"} => worker.gen \in cleanup'.mem
           /\ worker'.pc \in VaultDeleting => prefs'.mem.gen # worker.gen
           /\ worker'.pc = "forget" => worker.gen \notin content'
           /\ cleanup.mem \subseteq cleanup'.mem /\ mailbox' = mailbox
  <2>1. \A m \in VaultElems(mailbox) : VaultValid(m.token)' => m.gen # worker.gen
    BY <1>0, <1>6, VaultValidSame DEF VaultDestroyInv
  <2>2. worker.left # {} => worker.back = "sweep"
    BY <1>0, <1>6 DEF VaultDestroyInv, VaultDestroying
  <2>3. worker.gen # 0 /\ worker.gen \notin worker.left /\ worker.left \subseteq cleanup.mem
    BY <1>0, <1>6 DEF VaultDestroyInv
  <2>4. worker'.pc # "replace"
    BY <1>6 DEF VaultDestroying
  <2> QED
    BY <1>6, <2>1, <2>2, <2>3, <2>4 DEF VaultDestroyInv, VaultElems
(* A destruction that ends, well or not.                                   *)
<1>7. CASE /\ worker.pc \in VaultDestroying /\ Vault!Destroyed
           /\ cleanup.mem \ {worker.gen} \subseteq cleanup'.mem
  <2>1. CASE worker' = Vault!Idle
    BY <1>3, <2>1, VaultIdleFacts DEF VaultDestroying
  <2>2. CASE worker' # Vault!Idle
    <3>1. /\ worker'.pc \in {"sweep", "create", "failed"} /\ worker'.left = worker.left
          /\ worker'.back = worker.back
      BY <1>0, <1>7, <2>2, VaultDestroyedFacts, VaultGotoFacts
    <3>2. worker.left \subseteq cleanup.mem /\ worker.gen \notin worker.left
          /\ (worker.left # {} => worker.back = "sweep")
      BY <1>0, <1>7 DEF VaultDestroyInv, VaultDestroying
    <3> QED
      BY <1>3, <1>7, <3>1, <3>2 DEF VaultDestroying
  <2> QED
    BY <2>1, <2>2
<1>8. CASE Vault!Tombstone
  BY <1>0, <1>6, <1>8, VaultTombstoneFacts DEF Vault!WorkerStep, VaultDestroying,
     VaultDeleting, Vault!process
<1>9. CASE Vault!Unbind
  <2>0. worker.gen # 0 /\ worker.gen \in cleanup.mem /\ worker.pc \in VaultDestroying
    BY <1>0, <1>9, VaultUnbindFacts DEF VaultDestroyInv, VaultDestroying
  <2>1. CASE Vault!Goto("deleteKey")
    BY <1>0, <1>6, <1>9, <2>0, <2>1, VaultUnbindFacts, VaultGotoFacts, VaultClearedFacts DEF
       Vault!WorkerStep, VaultDestroying, VaultDeleting, Vault!process
  <2>2. CASE Vault!Destroyed
    BY <1>0, <1>7, <1>9, <2>0, <2>2, VaultUnbindFacts
  <2> QED
    BY <1>0, <1>9, <2>1, <2>2, VaultUnbindFacts
<1>10. CASE Vault!DeleteKey \/ Vault!DeleteFile
  <2>0. /\ worker.gen \in cleanup.mem /\ worker.pc \in VaultDestroying
              /\ prefs.mem.gen # worker.gen
    BY <1>0, <1>10, VaultDeleteFacts DEF VaultDestroyInv, VaultDestroying, VaultDeleting
  <2>1. CASE Vault!Destroyed
    BY <1>0, <1>7, <1>10, <2>0, <2>1, VaultDeleteFacts
  <2>2. CASE Vault!DeleteKey /\ Vault!Goto("deleteFile")
    BY <1>0, <1>6, <2>0, <2>2, VaultDeleteFacts, VaultGotoFacts DEF Vault!WorkerStep,
       VaultDestroying, VaultDeleting, Vault!process
  <2>3. CASE Vault!DeleteFile /\ Vault!Goto("forget") /\ worker.gen \notin content'
    BY <1>0, <1>6, <2>0, <2>3, VaultDeleteFacts, VaultGotoFacts DEF Vault!WorkerStep,
       VaultDestroying, VaultDeleting, Vault!process
  <2> QED
    BY <1>0, <1>10, <2>1, <2>2, <2>3, VaultDeleteFacts
<1>11. CASE Vault!Forget
  BY <1>0, <1>7, <1>11, VaultForgetFacts DEF VaultDestroying
<1>12. CASE Vault!ReadMetadata
  <2>1. CASE worker'.pc = "replace"
    <3>1. /\ prefs.mem.gen \in Vault!Generations /\ Vault!Retire(prefs.mem.gen)
                /\ worker'.gen = prefs.mem.gen
          /\ worker'.left = {}
      BY <1>0, <1>12, <2>1, VaultOpenFacts
    <3>2. worker'.gen \in cleanup'.mem
      BY <1>0, <3>1, VaultRetireFacts
    <3> QED
      BY <2>1, <3>1, <3>2 DEF VaultDestroyInv, VaultDestroying, VaultDeleting
  <2>2. CASE worker'.pc # "replace"
    BY <1>0, <1>3, <1>12, <2>2, VaultOpenFacts DEF VaultDestroying
  <2> QED
    BY <2>1, <2>2
<1>13. CASE Vault!Abandon
  <2>0. /\ worker.pc = "replace" /\ worker.gen \in cleanup.mem /\ worker.gen # 0
        /\ worker \in VaultServants /\ worker.left = {} /\ UNCHANGED <<cleanup, mailbox>>
    BY <1>0, <1>13, VaultAbandonFacts, VaultWorkerShape DEF VaultDestroyInv, VaultServeInv,
       VaultServing, VaultServingSteps, Vault!process
  <2>1. CASE Vault!Goto("failed")
    BY <1>0, <1>3, <2>0, <2>1, VaultGotoFacts DEF VaultDestroying
  <2>2. CASE worker' = [worker EXCEPT !.pc = "tombstone", !.back = "create"]
    <3>1. worker'.pc = "tombstone" /\ worker'.gen = worker.gen /\ worker'.left = {}
      BY <2>0, <2>2 DEF VaultServants
    <3>2. \A m \in VaultElems(mailbox) : VaultValid(m.token) => m.gen # worker.gen
      BY <2>0 DEF VaultIInv, VaultMailInv, VaultBound
    <3>3. \A m \in VaultElems(mailbox) : VaultValid(m.token)' => m.gen # worker.gen
      BY <1>13, <3>2, VaultValidSame DEF Vault!WorkerStep
    <3> QED
      BY <2>0, <3>1, <3>3 DEF VaultDestroyInv, VaultDeleting, VaultElems
  <2> QED
    BY <1>0, <1>13, <2>1, <2>2, VaultAbandonFacts
<1>14. CASE Vault!CreateKey
  BY <1>0, <1>3, <1>14, VaultCreateKeyFacts DEF VaultDestroying
(* A creation that fails destroys what nobody knows.                       *)
<1>15. CASE /\ worker.pc \in {"createFile", "publish"} /\ worker'.pc = "tombstone"
            /\ worker'.gen = worker.gen /\ worker'.left = {} /\ mailbox' = mailbox
  <2>1. worker.gen # 0 /\ \A m \in VaultElems(mailbox) : m.gen # worker.gen
    BY <1>0, <1>15 DEF VaultNewInv, VaultUnknown
  <2> QED
    BY <1>15, <2>1 DEF VaultDestroyInv, VaultDeleting, VaultElems
<1>16. CASE Vault!Load \/ Vault!CreateFile \/ Vault!Check \/ Vault!Run \/ Vault!Failed
  <2>1. CASE worker'.pc = "tombstone"
    <3>1. Vault!CreateFile
      BY <1>0, <1>16, <2>1, VaultOnlyGoto, VaultIdleFacts DEF Vault!Load, Vault!Check,
         Vault!Run, Vault!Failed
    <3> QED
      BY <1>0, <1>15, <1>16, <2>1, <3>1, VaultOnlyGoto, VaultIdleFacts DEF
         Vault!CreateFile, Vault!process
  <2>2. CASE worker'.pc # "tombstone"
    BY <1>0, <1>3, <1>16, <2>2, VaultOnlyGoto, VaultIdleFacts DEF VaultDestroying
  <2> QED
    BY <2>1, <2>2
<1>17. CASE Vault!Publish
  <2>1. worker.pc = "publish" /\ worker.left = {} /\ mailbox' = mailbox
    BY <1>0, <1>17, VaultPublishFacts, VaultWorkerShape DEF Vault!process
  <2>2. CASE Vault!Goto("tombstone")
    BY <1>0, <1>15, <2>1, <2>2, VaultGotoFacts
  <2>3. CASE Vault!Goto("check")
    BY <1>0, <1>3, <2>1, <2>3, VaultGotoFacts DEF VaultDestroying
  <2> QED
    BY <1>0, <1>17, <2>2, <2>3, VaultPublishFacts
<1> QED
  BY <1>1, <1>2, <1>4, <1>5, <1>8, <1>9, <1>10, <1>11, <1>12, <1>13, <1>14, <1>16, <1>17 DEF
     Vault!WorkerStep

LEMMA VaultServeKept == ASSUME VaultAssumed, VaultIInv, Vault!Next PROVE VaultServeInv'
<1> DEFINE S == {"load", "check", "run"}
<1>0. VaultTypes /\ VaultHalvesInv /\ VaultAccountInv /\ VaultDestroyInv /\ VaultServeInv
          /\ VaultNewInv /\ worker \in VaultWorkers
  BY DEF VaultIInv, VaultTypes
<1>1. CASE Vault!Restart
  BY <1>1, VaultIdleFacts DEF Vault!Restart, VaultServeInv
<1>2. CASE ~Vault!WorkerStep /\ ~Vault!Restart
  <2>1. /\ worker' = worker /\ prefs'.mem.gen \in {0, prefs.mem.gen}
        /\ prefs'.mem.gen # prefs.mem.gen
              => prefs.mem.gen \in cleanup.mem /\ worker.pc # "replace"
        /\ cleanup.mem \subseteq cleanup'.mem
    BY <1>2, VaultOutsideFacts
  <2>2. ASSUME worker.pc \in S
        PROVE  /\ worker.gen # 0
               /\ \A t, g : t = worker.token /\ g = worker.gen => VaultBound(t, g)'
               /\ worker.gen = prefs'.mem.gen \/ worker.gen \in cleanup'.mem
    <3>1. /\ worker.gen # 0 /\ VaultBound(worker.token, worker.gen) /\ VaultServing
          /\ worker.gen = prefs.mem.gen \/ worker.gen \in cleanup.mem
          /\ worker.pc \notin VaultDestroying
      BY <1>0, <2>2 DEF VaultServeInv, VaultServing, VaultServingSteps, VaultDestroying
    <3>2. ASSUME NEW t, NEW g, t = worker.token, g = worker.gen PROVE VaultBound(t, g)'
      BY <1>2, <3>1, <3>2, VaultServingHeld, VaultBoundKept
    <3> QED
      BY <2>1, <3>1, <3>2
  <2>3. worker.pc = "replace" => worker.gen = prefs'.mem.gen /\ worker.gen # 0
    BY <1>0, <2>1 DEF VaultServeInv
  <2> QED
    BY <2>1, <2>2, <2>3 DEF VaultServeInv
<1>3. CASE worker'.pc \notin S \cup {"replace"}
  BY <1>3 DEF VaultServeInv
<1>4. CASE Vault!Tombstone \/ Vault!Unbind \/ Vault!DeleteKey \/ Vault!DeleteFile
               \/ Vault!Forget
  <2>1. worker.pc \in VaultDestroying
            /\ (Vault!Destroyed \/ \E p \in VaultDestroying : Vault!Goto(p))
    BY <1>4 DEF Vault!Tombstone, Vault!Unbind, Vault!DeleteKey, Vault!DeleteFile,
       Vault!Forget, VaultDestroying
  <2> QED
    BY <1>0, <1>3, <2>1, VaultGotoFacts, VaultDestroyedFacts, VaultIdleFacts DEF VaultDestroying
<1>5. CASE Vault!Take \/ Vault!SweepNext \/ Vault!CreateKey
  BY <1>0, <1>3, <1>5, VaultTakeFacts, VaultSweepFacts, VaultCreateKeyFacts, VaultIdleFacts
<1>6. CASE Vault!ReadMetadata
  <2>1. /\ UNCHANGED <<prefs, gate>> /\ worker'.token = worker.token
    BY <1>0, <1>6, VaultOpenFacts DEF Vault!process
  <2>2. CASE worker'.pc = "load"
    <3>1. /\ prefs.mem.gen \notin cleanup.mem /\ worker'.gen = prefs.mem.gen
                /\ prefs.mem.gen # 0
          /\ cleanup' = cleanup /\ prefs.mem.owner = worker.token.user
      BY <1>0, <1>6, <2>2, VaultOpenFacts
    <3> QED
      BY <2>1, <2>2, <3>1 DEF VaultServeInv, VaultBound
  <2>3. CASE worker'.pc = "replace"
    <3>1. worker'.gen = prefs.mem.gen /\ prefs.mem.gen \in Vault!Generations
      BY <1>0, <1>6, <2>3, VaultOpenFacts
    <3> QED
      BY <2>1, <2>3, <3>1 DEF VaultServeInv, Vault!Generations
  <2> QED
    BY <1>0, <1>3, <1>6, <2>2, <2>3, VaultOpenFacts
<1>7. CASE Vault!Abandon
  <2>1. worker'.pc \in {"tombstone", "failed"}
    BY <1>0, <1>7, VaultAbandonFacts, VaultGotoFacts DEF VaultWorkers, VaultServants,
       VaultSweepers
  <2> QED
    BY <1>3, <2>1
<1>8. CASE Vault!Load \/ Vault!CreateFile \/ Vault!Check \/ Vault!Run \/ Vault!Failed
  <2>1. CASE worker'.pc \in S
    <3>1. /\ worker'.gen = worker.gen /\ worker'.token = worker.token /\ worker.pc \in S
          /\ UNCHANGED <<prefs, gate, cleanup>>
      BY <1>0, <1>8, <2>1, VaultOnlyGoto, VaultIdleFacts
    <3> QED
      BY <1>0, <2>1, <3>1 DEF VaultServeInv, VaultBound, VaultValid
  <2>2. CASE worker'.pc \notin S
    BY <1>0, <1>3, <1>8, <2>2, VaultOnlyGoto, VaultIdleFacts
  <2> QED
    BY <2>1, <2>2
<1>9. CASE Vault!Publish
  <2>1. CASE worker'.pc = "check"
    <3>1. Vault!Goto("check")
      BY <1>0, <1>9, <2>1, VaultPublishFacts, VaultGotoFacts
    <3>2. /\ worker'.gen = worker.gen /\ worker'.token = worker.token
      BY <1>0, <1>9, <3>1, VaultPublishFacts, VaultGotoFacts, VaultWorkerShape
    <3>3. /\ prefs'.mem.gen = worker.gen /\ prefs'.mem.owner = worker.token.user
                /\ cleanup' = cleanup
          /\ worker.pc = "publish"
      BY <1>0, <1>9, <2>1, VaultPublishFacts, VaultGotoFacts
    <3>4. worker.gen # 0 /\ worker.gen \notin cleanup.mem
      BY <1>0, <3>3 DEF VaultNewInv, VaultUnknown
    <3> QED
      BY <2>1, <3>2, <3>3, <3>4 DEF VaultServeInv, VaultBound
  <2> QED
    BY <1>0, <1>3, <1>9, <2>1, VaultPublishFacts, VaultGotoFacts
<1> QED
  BY <1>1, <1>2, <1>4, <1>5, <1>6, <1>7, <1>8, <1>9 DEF Vault!WorkerStep

----------------------------------------------------------------------------
(* What is on disk.  One lemma for each way a step changes it.             *)

(* Keys, databases and contents apart, little changes.                     *)
LEMMA VaultKeptStill ==
    ASSUME NEW g, VaultKept(g), cleanup' = cleanup, content' = content,
           prefs'.mem.gen = prefs.mem.gen, prefs'.disk.gen = prefs.disk.gen,
           keys \subseteq keys', files \subseteq files',
           worker' = worker \/ worker.pc # "tombstone"
    PROVE  VaultKept(g)'
  BY DEF VaultKept

(* A tombstone is written for p.                                           *)
LEMMA VaultKeptRetired ==
    ASSUME NEW g, VaultKept(g), NEW p, UNCHANGED <<prefs, content, keys, files>>,
           cleanup'.mem = cleanup.mem \cup {p},
           cleanup'.disk = cleanup.disk \/ cleanup'.disk = cleanup'.mem,
           g = p => cleanup'.disk = cleanup'.mem,
           worker' = worker \/ worker.pc # "tombstone" \/ worker.gen = p
    PROVE  VaultKept(g)'
<1>1. CASE cleanup'.disk = cleanup'.mem
  BY <1>1 DEF VaultKept
<1>2. CASE cleanup'.disk = cleanup.disk /\ g # p
  BY <1>2 DEF VaultKept
<1> QED
  BY <1>1, <1>2

(* The reference in the preferences is removed.                            *)
LEMMA VaultKeptRemoved ==
    ASSUME NEW g, VaultKept(g), g # 0, UNCHANGED <<cleanup, content, keys, files>>,
           prefs'.mem.gen = 0,
           prefs'.disk.gen = prefs.disk.gen \/ prefs'.disk.gen = 0,
           g = prefs.mem.gen => prefs'.disk.gen = 0 /\ g \in cleanup.mem
    PROVE  VaultKept(g)'
  BY DEF VaultKept

(* The preferences reach the disk.                                         *)
LEMMA VaultKeptSaved ==
    ASSUME NEW g, VaultKept(g), UNCHANGED <<cleanup, content, keys, files, worker>>,
           prefs'.mem.gen = prefs.mem.gen, prefs'.disk.gen = prefs.mem.gen
    PROVE  VaultKept(g)'
  BY DEF VaultKept

(* The key or the database of p goes.                                      *)
LEMMA VaultKeptDeleted ==
    ASSUME NEW g, VaultKept(g), NEW p, UNCHANGED <<prefs, cleanup>>, p # prefs.mem.gen,
           content' \subseteq content, keys \subseteq keys' \cup {p},
                 files \subseteq files' \cup {p},
           worker.pc # "tombstone"
    PROVE  VaultKept(g)'
  BY DEF VaultKept

(* The tombstone of p goes.                                                *)
LEMMA VaultKeptForgotten ==
    ASSUME NEW g, VaultKept(g), NEW p, UNCHANGED <<prefs, content, keys, files>>,
           cleanup'.mem = cleanup.mem \ {p},
           cleanup'.disk = cleanup.disk \/ cleanup'.disk = cleanup'.mem,
           p \notin content, p # prefs.mem.gen, worker.pc # "tombstone"
    PROVE  VaultKept(g)'
<1>1. CASE cleanup'.disk = cleanup'.mem
  BY <1>1 DEF VaultKept
<1>2. CASE cleanup'.disk = cleanup.disk
  BY <1>2 DEF VaultKept
<1> QED
  BY <1>1, <1>2

(* A new generation p is published.                                        *)
LEMMA VaultKeptPublished ==
    ASSUME NEW g, VaultKept(g), g # 0, NEW p, UNCHANGED <<cleanup, content, keys, files>>,
           prefs.mem.gen = 0, prefs'.mem.gen = p,
           \/ prefs'.disk.gen = p
           \/ prefs'.disk.gen = prefs.disk.gen /\ worker'.pc = "tombstone" /\ worker'.gen = p,
           p \in keys, p \in files, p \notin content,
           p \notin cleanup.mem \cup cleanup.disk
    PROVE  VaultKept(g)'
  BY DEF VaultKept

(* The user writes to p.                                                   *)
LEMMA VaultKeptWritten ==
    ASSUME NEW g, VaultKept(g), NEW p, UNCHANGED <<prefs, cleanup, keys, files>>,
           content' \in {content, content \cup {p}}, p = prefs.mem.gen \/ p \in cleanup.mem,
           worker.pc # "tombstone"
    PROVE  VaultKept(g)'
  BY DEF VaultKept

(* Memory is read from the disk.                                           *)
LEMMA VaultKeptRestarted ==
    ASSUME NEW g, VaultKept(g), UNCHANGED <<content, keys, files>>,
           prefs'.mem.gen = prefs.disk.gen, prefs'.disk.gen = prefs.disk.gen,
           cleanup'.mem = cleanup.disk, cleanup'.disk = cleanup.disk
    PROVE  VaultKept(g)'
  BY SMTT(30) DEF VaultKept

LEMMA VaultTroubledGrows == ASSUME VaultAssumed, VaultTypes, VaultDestroyInv, VaultServeInv, VaultHalvesInv, Vault!Next
    PROVE troubled \subseteq troubled'
<1>1. CASE Vault!RetireStored
  BY <1>1 DEF Vault!RetireStored, Vault!Retire, Vault!Noted
<1>2. CASE Vault!RemoveStored \/ Vault!Abandon \/ Vault!Unbind
  BY <1>2 DEF Vault!RemoveStored, Vault!Noted, Vault!Abandon, Vault!Unbind
<1>3. CASE Vault!Tombstone \/ Vault!ReadMetadata
  BY <1>3 DEF Vault!Tombstone, Vault!ReadMetadata, Vault!Retire, Vault!Noted
<1> QED
  BY <1>1, <1>2, <1>3 DEF Vault!Next, Vault!AccountStep, Vault!WorkerStep,
     Vault!SetCurrentUser, Vault!onOwnerChanged, Vault!Revoke, Vault!EnqueueDestroy,
     Vault!ClearConfig, Vault!SaveConfig, Vault!onLock, Vault!Unlock, Vault!Submit,
     Vault!Callback, Vault!DeleteKey, Vault!DeleteFile, Vault!Forget, Vault!Take,
     Vault!SweepNext, Vault!Load, Vault!CreateKey, Vault!CreateFile, Vault!Publish,
     Vault!Check, Vault!Run, Vault!Failed, Vault!Restart, Vault!Threw

LEMMA VaultKeptOutside ==
    ASSUME VaultAssumed, VaultIInv, Vault!Next, ~Vault!WorkerStep, ~Vault!Restart,
          NEW g \in Vault!Generations \ troubled', VaultKept(g)
    PROVE  VaultKept(g)'
<1>0. VaultTypes /\ VaultAccountInv /\ VaultDestroyInv /\ VaultHalvesInv /\ g # 0
  BY DEF VaultIInv, Vault!Generations
<1>1. worker' = worker /\ UNCHANGED <<keys, files, content>>
  BY VaultOutsideFacts
<1>2. CASE Vault!RetireStored
  <2>1. prefs' = prefs
    BY <1>2 DEF Vault!RetireStored
  <2>2. CASE prefs.mem.gen = 0
    BY <1>1, <1>2, <2>1, <2>2, VaultKeptStill DEF Vault!RetireStored
  <2>3. CASE prefs.mem.gen # 0
    <3>1. prefs.mem.gen \in Vault!Generations /\ Vault!Retire(prefs.mem.gen)
      BY <1>0, <1>2, <2>3 DEF Vault!RetireStored, VaultTypes, VaultHalves, Vault!Generations
    <3>2. /\ cleanup'.mem = cleanup.mem \cup {prefs.mem.gen}
          /\ cleanup'.disk = cleanup.disk \/ cleanup'.disk = cleanup'.mem
          /\ prefs.mem.gen \in troubled' \/ cleanup'.disk = cleanup'.mem
      BY <1>0, <3>1, VaultRetireFacts
    <3> QED
      BY <1>1, <2>1, <3>2, VaultKeptRetired
  <2> QED
    BY <2>2, <2>3
<1>3. CASE Vault!RemoveStored
  <2>1. /\ prefs'.mem.gen = 0
        /\ prefs'.disk = prefs.disk \/ prefs'.disk = prefs'.mem
        /\ account.gen # 0 => account.gen \in troubled' \/ prefs'.disk = prefs'.mem
    BY <1>0, <1>3, VaultRemoveStoredFacts, VaultClearedFacts
  <2>2. /\ prefs'.mem.gen = 0
        /\ account.gen = prefs.mem.gen
        /\ account.gen # 0 => account.gen \in cleanup.mem
    BY <1>0, <1>3, <2>1, VaultRemoveStoredFacts, VaultClearedFacts DEF VaultAccountInv,
       Vault!RemoveStored
  <2>3. cleanup' = cleanup
    BY <1>3 DEF Vault!RemoveStored
  <2>4. prefs'.disk.gen = prefs.disk.gen \/ prefs'.disk.gen = 0
    BY <1>0, <1>3, <2>2, VaultRemoveStoredFacts
  <2>5. g = prefs.mem.gen => prefs'.disk.gen = 0 /\ g \in cleanup.mem
    BY <1>0, <1>3, <2>2, VaultRemoveStoredFacts
  <2> QED
    BY <1>0, <1>1, <2>2, <2>3, <2>4, <2>5, VaultKeptRemoved
<1>4. CASE Vault!SaveConfig
  BY <1>0, <1>1, <1>4, VaultKeptSaved DEF Vault!SaveConfig, VaultTypes
<1>5. CASE ~Vault!RetireStored /\ ~Vault!RemoveStored /\ ~Vault!SaveConfig
  <2>1. cleanup' = cleanup
    BY <1>5, VaultCleanupSteps DEF Vault!WorkerStep
  <2>2. prefs'.disk = prefs.disk
    BY <1>0, <1>5, VaultDiskSteps DEF Vault!WorkerStep
  <2>3. prefs'.mem.gen = prefs.mem.gen
    <3>1. ASSUME NEW u \in Users, Vault!SetCurrentUser(u) PROVE prefs'.mem.gen = prefs.mem.gen
      BY <1>0, <3>1 DEF Vault!SetCurrentUser, VaultTypes, VaultHalves
    <3>2. CASE Vault!ClearConfig
      BY <1>0, <3>2 DEF Vault!ClearConfig, VaultAccountInv, VaultTypes, Vault!Nobody
    <3> QED
      BY <1>0, <1>5, <3>1, <3>2, VaultMemSteps DEF Vault!WorkerStep
  <2> QED
    BY <1>1, <2>1, <2>2, <2>3, VaultKeptStill
<1> QED
  BY <1>2, <1>3, <1>4, <1>5

LEMMA VaultKeptByWorker ==
    ASSUME VaultAssumed, VaultIInv, Vault!WorkerStep, NEW g \in Vault!Generations \ troubled',
          VaultKept(g)
    PROVE  VaultKept(g)'
<1>0. /\ VaultTypes /\ VaultHalvesInv /\ VaultDestroyInv /\ VaultServeInv /\ VaultNewInv
            /\ worker \in VaultWorkers
      /\ g # 0 /\ g \notin troubled'
  <2>1. g # 0
    BY DEF Vault!Generations
  <2> QED
    BY <2>1 DEF VaultIInv, VaultTypes
<1>1. CASE Vault!Tombstone
  <2>1. /\ worker.gen \in Vault!Generations /\ Vault!Retire(worker.gen)
              /\ UNCHANGED <<prefs, content, keys, files>>
    BY <1>0, <1>1, VaultTombstoneFacts DEF Vault!disk
  <2>2. /\ cleanup'.mem = cleanup.mem \cup {worker.gen}
        /\ cleanup'.disk = cleanup.disk \/ cleanup'.disk = cleanup'.mem
        /\ worker.gen \in troubled' \/ cleanup'.disk = cleanup'.mem
    BY <1>0, <2>1, VaultRetireFacts
  <2>3. \A p : p = worker.gen =>
          /\ cleanup'.mem = cleanup.mem \cup {p}
          /\ g = p => cleanup'.disk = cleanup'.mem
    BY <1>0, <2>2
  <2> QED
    BY <2>1, <2>2, <2>3, VaultKeptRetired
<1>2. CASE Vault!Unbind
  <2>1. /\ worker.pc = "unbind" /\ worker.gen \in cleanup.mem
              /\ UNCHANGED <<cleanup, content, keys, files>>
    BY <1>0, <1>2, VaultUnbindFacts DEF VaultDestroyInv, Vault!disk
  <2>2. CASE prefs.mem.gen = worker.gen
    <3>1. /\ prefs'.mem.gen = 0
          /\ prefs'.disk = prefs.disk \/ prefs'.disk = prefs'.mem
          /\ prefs.mem.gen \in troubled' \/ prefs'.disk = prefs'.mem
      BY <1>0, <1>2, <2>2, VaultUnbindFacts, VaultClearedFacts
    <3> QED
      BY <1>0, <2>1, <2>2, <3>1, VaultKeptRemoved
  <2>3. CASE prefs.mem.gen # worker.gen
    BY <1>0, <1>2, <2>1, <2>3, VaultUnbindFacts, VaultKeptStill
  <2> QED
    BY <2>2, <2>3
<1>3. CASE Vault!DeleteKey \/ Vault!DeleteFile
  <2>1. /\ worker.pc \in {"deleteKey", "deleteFile"} /\ UNCHANGED <<prefs, cleanup>>
        /\ keys \subseteq keys' \cup {worker.gen} /\ files \subseteq files' \cup {worker.gen}
        /\ content' \subseteq content
    BY <1>0, <1>3, VaultDeleteFacts
  <2>2. worker.gen # prefs.mem.gen
    BY <1>0, <2>1 DEF VaultDestroyInv, VaultDeleting
  <2> QED
    BY <2>1, <2>2, VaultKeptDeleted
<1>4. CASE Vault!Forget
  <2>1. /\ worker.pc = "forget" /\ UNCHANGED <<prefs, content, keys, files>>
        /\ cleanup'.mem = cleanup.mem \ {worker.gen}
        /\ cleanup'.disk = cleanup.disk \/ cleanup'.disk = cleanup'.mem
    BY <1>0, <1>4, VaultForgetFacts DEF Vault!disk
  <2>2. worker.gen # prefs.mem.gen /\ worker.gen \notin content
    BY <1>0, <2>1 DEF VaultDestroyInv, VaultDeleting
  <2> QED
    BY <2>1, <2>2, VaultKeptForgotten
<1>5. CASE Vault!Take \/ Vault!SweepNext
  <2>1. /\ worker.pc \in {"idle", "sweep"} /\ UNCHANGED <<prefs, cleanup, content, keys, files>>
    BY <1>0, <1>5, VaultTakeFacts, VaultSweepFacts DEF Vault!disk
  <2> QED
    BY <2>1, VaultKeptStill
<1>6. CASE Vault!ReadMetadata
  <2>1. /\ worker.pc = "open" /\ UNCHANGED <<prefs, content, keys, files>>
    BY <1>0, <1>6, VaultOpenFacts DEF Vault!disk
  <2>2. CASE cleanup' = cleanup
    BY <2>1, <2>2, VaultKeptStill
  <2>3. CASE prefs.mem.gen \in Vault!Generations /\ Vault!Retire(prefs.mem.gen)
    <3>1. /\ cleanup'.mem = cleanup.mem \cup {prefs.mem.gen}
          /\ cleanup'.disk = cleanup.disk \/ cleanup'.disk = cleanup'.mem
          /\ prefs.mem.gen \in troubled' \/ cleanup'.disk = cleanup'.mem
      BY <1>0, <2>3, VaultRetireFacts
    <3> QED
      BY <1>0, <2>1, <3>1, VaultKeptRetired
  <2> QED
    BY <1>0, <1>6, <2>2, <2>3, VaultOpenFacts
<1>7. CASE Vault!Abandon
  <2>1. /\ worker.gen \in cleanup.mem /\ prefs.mem.gen = worker.gen
        /\ UNCHANGED <<cleanup, content, keys, files>>
        /\ prefs'.mem.gen = 0
        /\ prefs'.disk = prefs.disk \/ prefs'.disk = prefs'.mem
        /\ worker.gen \in troubled' \/ prefs'.disk = prefs'.mem
    BY <1>0, <1>7, VaultAbandonFacts, VaultClearedFacts DEF VaultDestroyInv, Vault!disk
  <2> QED
    BY <1>0, <2>1, VaultKeptRemoved
<1>8. CASE Vault!CreateKey
  <2>1. /\ worker.pc = "create" /\ UNCHANGED <<prefs, cleanup, files, content>>
              /\ keys \subseteq keys'
    BY <1>0, <1>8, VaultCreateKeyFacts
  <2> QED
    BY <2>1, VaultKeptStill
<1>9. CASE Vault!Run
  <2>1. /\ UNCHANGED <<prefs, cleanup, keys, files>> /\ worker.pc = "run"
        /\ content' \in {content, content \cup {worker.gen}}
    BY <1>9 DEF Vault!Run
  <2>2. worker.gen = prefs.mem.gen \/ worker.gen \in cleanup.mem
    BY <1>0, <2>1 DEF VaultServeInv
  <2> QED
    BY <2>1, <2>2, VaultKeptWritten
<1>10. CASE Vault!Load \/ Vault!CreateFile \/ Vault!Check \/ Vault!Failed
  <2>1. /\ worker.pc \in VaultServingSteps /\ UNCHANGED <<prefs, cleanup, keys>>
    BY <1>0, <1>10, VaultOnlyGoto
  <2>2. content' = content /\ files \subseteq files'
    BY <1>10 DEF Vault!Load, Vault!CreateFile, Vault!Check, Vault!Failed, Vault!disk
  <2> QED
    BY <2>1, <2>2, VaultKeptStill DEF VaultServingSteps
<1>11. CASE Vault!Publish
  <2>1. /\ worker.pc = "publish" /\ UNCHANGED <<cleanup, content, keys, files>>
    BY <1>0, <1>11, VaultPublishFacts DEF Vault!disk
  <2>2. CASE prefs' = prefs
    BY <2>1, <2>2, VaultKeptStill
  <2>3. CASE prefs' # prefs
    <3>1. /\ prefs.mem.gen = 0 /\ prefs'.mem.gen = worker.gen
          /\ \/ prefs'.disk = prefs'.mem
             \/ Vault!Goto("tombstone") /\ prefs'.disk = prefs.disk
      BY <1>0, <1>11, <2>3, VaultPublishFacts
    <3>2. \/ prefs'.disk.gen = worker.gen
          \/ prefs'.disk.gen = prefs.disk.gen /\ worker'.pc = "tombstone"
                /\ worker'.gen = worker.gen
      BY <1>0, <3>1, VaultGotoFacts
    <3>3. /\ worker.gen \in keys /\ worker.gen \in files /\ worker.gen \notin content
          /\ worker.gen \notin cleanup.mem \cup cleanup.disk
      BY <1>0, <2>1 DEF VaultNewInv, VaultUnknown
    <3> QED
      BY <1>0, <2>1, <3>1, <3>2, <3>3, VaultKeptPublished
  <2> QED
    BY <2>2, <2>3
<1> QED
  BY <1>1, <1>2, <1>3, <1>4, <1>5, <1>6, <1>7, <1>8, <1>9, <1>10, <1>11 DEF Vault!WorkerStep

LEMMA VaultDiskKept == ASSUME VaultAssumed, VaultIInv, Vault!Next PROVE VaultDiskInv'
<1>0. VaultTypes /\ VaultDestroyInv /\ VaultServeInv /\ VaultHalvesInv
  BY DEF VaultIInv
<1>1. ASSUME NEW g \in Vault!Generations \ troubled' PROVE VaultKept(g)'
  <2>1. VaultKept(g)
    BY <1>0, VaultTroubledGrows DEF VaultIInv, VaultDiskInv
  <2>2. CASE Vault!Restart
    <3>1. /\ prefs'.mem = prefs.disk /\ prefs'.disk = prefs.disk
          /\ cleanup'.mem = cleanup.disk /\ cleanup'.disk = cleanup.disk
          /\ UNCHANGED <<content, keys, files>>
      BY <1>0, <2>2 DEF Vault!Restart, VaultTypes, Vault!disk
    <3> QED
      BY <2>1, <3>1, VaultKeptRestarted
  <2> QED
    BY <2>1, <2>2, VaultKeptOutside, VaultKeptByWorker
<1>2. ASSUME NEW g \in Vault!Generations' \ Vault!Generations PROVE VaultKept(g)'
  <2>1. Vault!CreateKey
    <3>1. madeFor' # madeFor
      BY <1>2 DEF Vault!Generations
    <3>2. Vault!DeleteKey => madeFor' = madeFor
      BY DEF Vault!DeleteKey
    <3> QED
      BY <3>1, <3>2, VaultFilesSteps
  <2>2. UNCHANGED <<prefs, cleanup, content>>
    BY <1>0, <2>1, VaultCreateKeyFacts
  <2>3. g # 0 /\ g \notin 0..Len(madeFor)
    BY <1>2 DEF Vault!Generations
  <2>4. /\ prefs.mem.gen # g /\ prefs.disk.gen # g /\ g \notin content
        /\ g \notin cleanup.mem \cup cleanup.disk
    BY <1>0, <1>2, <2>3 DEF VaultTypes, VaultHalves
  <2> QED
    BY <2>2, <2>4 DEF VaultKept
<1>3. ASSUME NEW g \in Vault!Generations' \ troubled' PROVE VaultKept(g)'
  BY <1>1, <1>2, <1>3
<1> QED
  BY <1>3 DEF VaultDiskInv, VaultKept

----------------------------------------------------------------------------
(* Who destroys what was retired *)

LEMMA VaultIdleKept == ASSUME VaultAssumed, VaultIInv, Vault!Next PROVE VaultIdleInv'
<1>0. VaultTypes /\ VaultDestroyInv /\ VaultServeInv /\ VaultHalvesInv
          /\ worker \in VaultWorkers
  BY DEF VaultIInv, VaultTypes
<1>1. CASE worker' = worker \/ worker' = Vault!Idle \/ worker'.pc # "idle"
  BY <1>1 DEF VaultIInv, VaultIdleInv, Vault!Idle
<1>2. CASE Vault!Tombstone \/ Vault!Unbind \/ Vault!DeleteKey \/ Vault!DeleteFile
               \/ Vault!Forget
  <2>1. worker.pc \in VaultDestroying
            /\ (Vault!Destroyed \/ \E p \in VaultDestroying : Vault!Goto(p))
    BY <1>2 DEF Vault!Tombstone, Vault!Unbind, Vault!DeleteKey, Vault!DeleteFile,
       Vault!Forget, VaultDestroying
  <2> QED
    BY <1>0, <1>1, <2>1, VaultGotoFacts, VaultDestroyedFacts DEF VaultDestroying
<1>3. CASE Vault!Take \/ Vault!SweepNext \/ Vault!ReadMetadata \/ Vault!CreateKey
  BY <1>0, <1>1, <1>3, VaultTakeFacts, VaultSweepFacts, VaultOpenFacts, VaultCreateKeyFacts
<1>4. CASE Vault!Load \/ Vault!CreateFile \/ Vault!Check \/ Vault!Run \/ Vault!Failed
  BY <1>0, <1>1, <1>4, VaultOnlyGoto
<1>5. CASE Vault!Abandon
  <2>1. worker'.pc \in {"tombstone", "failed"}
    BY <1>0, <1>5, VaultAbandonFacts, VaultGotoFacts DEF VaultWorkers, VaultServants,
       VaultSweepers
  <2> QED
    BY <1>1, <2>1
<1>6. CASE Vault!Publish
  BY <1>0, <1>1, <1>6, VaultPublishFacts, VaultGotoFacts
<1>7. CASE Vault!Restart
  BY <1>1, <1>7 DEF Vault!Restart
<1> QED
  BY <1>1, <1>2, <1>3, <1>4, <1>5, <1>6, <1>7, VaultWorkerSteps DEF Vault!WorkerStep

(* What is awaited stays so if the queue and the worker keep it.           *)
LEMMA VaultAwaitedStill ==
    ASSUME NEW g, VaultAwaited(g), account' = account,
           VaultElems(queue) \subseteq VaultElems(queue'), g \in worker.left
                 => g \in worker'.left,
           worker.pc \in VaultDestroying \cup {"replace"} /\ worker.gen = g =>
              worker'.pc \in VaultDestroying \cup {"replace"} /\ worker'.gen = g
    PROVE  VaultAwaited(g)'
<1>1. VaultToDestroy \subseteq VaultToDestroy'
  BY DEF VaultToDestroy, VaultElems
<1> QED
  BY <1>1 DEF VaultAwaited, VaultElems, VaultDestroying, Vault!Sweep

LEMMA VaultAwaitedOutside ==
    ASSUME VaultAssumed, VaultIInv, Vault!Next, ~Vault!WorkerStep, ~Vault!Restart,
          faults' = 0, NEW g \in cleanup'.mem
    PROVE  VaultAwaited(g)'
<1>0. VaultTypes /\ VaultAccountInv /\ VaultDestroyInv /\ VaultHalvesInv
  BY DEF VaultIInv
<1>1. worker' = worker
  BY VaultOutsideFacts
<1>2. VaultElems(queue) \subseteq VaultElems(queue')
  BY <1>0, VaultQueueSteps, VaultEnqueueFacts, VaultSubmitFacts DEF Vault!WorkerStep
<1>3. faults = 0
  <2>1. CASE Vault!RetireStored /\ prefs.mem.gen # 0
    <3>1. prefs.mem.gen \in Vault!Generations /\ Vault!Retire(prefs.mem.gen)
      BY <1>0, <2>1 DEF Vault!RetireStored, VaultTypes, VaultHalves, Vault!Generations
    <3> QED
      BY <1>0, <3>1, VaultRetireFacts
  <2>2. CASE Vault!RemoveStored
    BY <1>0, <2>2, VaultRemoveStoredFacts
  <2> QED
    BY <2>1, <2>2 DEF Vault!Next, Vault!AccountStep, Vault!SetCurrentUser,
       Vault!onOwnerChanged, Vault!Revoke, Vault!RetireStored, Vault!EnqueueDestroy,
       Vault!ClearConfig, Vault!SaveConfig, Vault!onLock, Vault!Unlock, Vault!Submit,
       Vault!Callback
<1>4. CASE Vault!RetireStored /\ g = prefs.mem.gen
  <2>1. account'.pc = "remove" /\ account'.gen = g
    BY <1>0, <1>4, VaultAccountMoves
  <2> QED
    BY <2>1 DEF VaultAwaited
<1>5. CASE g \in cleanup.mem
  <2>1. VaultAwaited(g)
    BY <1>3, <1>5 DEF VaultIInv, VaultAwaitInv
  <2>2. CASE account.pc \in {"remove", "destroy"} /\ account.gen = g /\ account' # account
    <3>0. g # 0
      BY <1>0, <1>5 DEF VaultTypes, Vault!Generations
    <3>1. Vault!RemoveStored \/ Vault!EnqueueDestroy
      BY <1>0, <2>2, VaultAccountSteps, VaultAccountMoves DEF Vault!AccountStep
    <3>2. CASE Vault!RemoveStored
      <4>1. account'.pc = "destroy" /\ account'.gen = g
        BY <1>0, <2>2, <3>2, VaultAccountMoves
      <4> QED
        BY <4>1 DEF VaultAwaited
    <3>3. CASE Vault!EnqueueDestroy
      <4>1. [kind |-> "destroy", gen |-> g] \in VaultElems(queue')
        BY <1>0, <2>2, <3>0, <3>3, VaultEnqueueFacts
      <4>2. g \in VaultToDestroy'
        BY <4>1 DEF VaultToDestroy, VaultElems
      <4> QED
        BY <4>2 DEF VaultAwaited
    <3> QED
      BY <3>1, <3>2, <3>3
  <2>3. CASE account' = account
    BY <1>1, <1>2, <2>1, <2>3, VaultAwaitedStill
  <2>4. CASE ~(account.pc \in {"remove", "destroy"} /\ account.gen = g)
    <3>1. VaultToDestroy \subseteq VaultToDestroy'
      BY <1>2 DEF VaultToDestroy, VaultElems
    <3> QED
      BY <1>1, <1>2, <2>1, <2>4, <3>1 DEF VaultAwaited, VaultElems, VaultDestroying, Vault!Sweep
  <2> QED
    BY <2>2, <2>3, <2>4
<1>6. g \in cleanup.mem \/ Vault!RetireStored
  BY VaultCleanupSteps DEF Vault!WorkerStep
<1> QED
  BY <1>0, <1>4, <1>5, <1>6, VaultOutsideFacts

LEMMA VaultAwaitedByWorker ==
    ASSUME VaultAssumed, VaultIInv, Vault!WorkerStep, ~Vault!Take, faults' = 0,
          NEW g \in cleanup'.mem
    PROVE  VaultAwaited(g)'
<1>0. /\ VaultTypes /\ VaultHalvesInv /\ VaultDestroyInv /\ VaultServeInv /\ VaultNewInv
            /\ worker \in VaultWorkers
      /\ account' = account
  BY VaultWorkerLeaves DEF VaultIInv, VaultTypes
<1>1. ASSUME faults = 0, g \in cleanup.mem PROVE VaultAwaited(g)
  BY <1>1 DEF VaultIInv, VaultAwaitInv
(* A destruction that goes on.                                             *)
<1>2. CASE /\ worker.pc \in VaultDestroying /\ worker'.pc \in VaultDestroying
                 /\ worker'.gen = worker.gen
           /\ worker'.left = worker.left /\ queue' = queue /\ faults = 0
           /\ cleanup'.mem \subseteq cleanup.mem \cup {worker.gen}
  <2>1. CASE g = worker.gen
    BY <1>2, <2>1 DEF VaultAwaited, VaultDestroying
  <2>2. CASE g \in cleanup.mem
    BY <1>0, <1>1, <1>2, <2>2, VaultAwaitedStill
  <2> QED
    BY <1>2, <2>1, <2>2
<1>3. CASE Vault!Tombstone
  <2>1. /\ worker.pc = "tombstone" /\ worker.gen \in Vault!Generations
              /\ Vault!Retire(worker.gen)
        /\ worker'.pc = "unbind" /\ worker'.gen = worker.gen /\ worker'.left = worker.left
        /\ cleanup'.mem = cleanup.mem \cup {worker.gen} /\ queue' = queue
    BY <1>0, <1>3, VaultTombstoneFacts
  <2>2. faults = 0
    BY <1>0, <2>1, VaultRetireFacts
  <2> QED
    BY <1>2, <2>1, <2>2 DEF VaultDestroying
<1>4. CASE Vault!Unbind
  <2>1. /\ worker.pc = "unbind" /\ Vault!Goto("deleteKey") /\ faults = 0
              /\ UNCHANGED <<cleanup, queue>>
    BY <1>0, <1>4, VaultUnbindFacts
  <2> QED
    BY <1>0, <1>2, <2>1, VaultGotoFacts DEF VaultDestroying
<1>5. CASE Vault!DeleteKey \/ Vault!DeleteFile
  <2>1. /\ worker.pc \in {"deleteKey", "deleteFile"}
              /\ (Vault!Goto("deleteFile") \/ Vault!Goto("forget"))
        /\ faults = 0 /\ UNCHANGED <<cleanup, queue>>
    BY <1>0, <1>5, VaultDeleteFacts
  <2> QED
    BY <1>0, <1>2, <2>1, VaultGotoFacts DEF VaultDestroying
<1>6. CASE Vault!Forget
  <2>1. /\ worker.pc = "forget" /\ Vault!Destroyed /\ faults = 0 /\ queue' = queue
        /\ cleanup'.mem = cleanup.mem \ {worker.gen}
    BY <1>0, <1>6, VaultForgetFacts
  <2>2. VaultAwaited(g) /\ g # worker.gen
    BY <1>1, <2>1
  <2>3. g \in worker.left => g \in worker'.left
    <3>1. SUFFICES ASSUME g \in worker.left PROVE g \in worker'.left
      OBVIOUS
    <3>2. worker.back = "sweep"
      BY <1>0, <2>1, <3>1 DEF VaultDestroyInv
    <3> QED
      BY <1>0, <2>1, <3>1, <3>2, VaultDestroyedFacts, VaultGotoFacts DEF VaultDestroying
  <2> QED
    BY <1>0, <2>1, <2>2, <2>3, VaultAwaitedStill
<1>7. CASE Vault!SweepNext
  <2>1. worker.pc = "sweep" /\ UNCHANGED <<cleanup, queue, faults>>
    BY <1>0, <1>7, VaultSweepFacts
  <2>2. VaultAwaited(g)
    BY <1>1, <2>1
  <2>3. CASE worker'.gen = g /\ worker'.pc = "tombstone"
    BY <2>3 DEF VaultAwaited, VaultDestroying
  <2>4. CASE worker'.gen # g \/ worker'.pc # "tombstone"
    <3>1. g \in worker.left => g \in worker'.left
      BY <1>0, <1>7, <2>4, VaultSweepFacts
    <3> QED
      BY <1>0, <2>1, <2>2, <3>1, VaultAwaitedStill DEF VaultDestroying
  <2> QED
    BY <2>3, <2>4
<1>8. CASE Vault!ReadMetadata
  <2>1. /\ worker.pc = "open" /\ worker.left = {} /\ queue' = queue
    BY <1>0, <1>8, VaultOpenFacts
  <2>2. CASE g = prefs.mem.gen /\ worker'.pc = "replace" /\ worker'.gen = g
    BY <2>2 DEF VaultAwaited
  <2>3. CASE g \in cleanup.mem
    <3>1. faults = 0
      BY <1>0, <1>8, VaultOpenFacts, VaultRetireFacts
    <3> QED
      BY <1>0, <1>1, <2>1, <2>3, <3>1, VaultAwaitedStill DEF VaultDestroying
  <2> QED
    BY <1>0, <1>8, <2>2, <2>3, VaultOpenFacts, VaultRetireFacts
<1>9. CASE Vault!Abandon
  <2>1. /\ worker.pc = "replace" /\ UNCHANGED <<cleanup, queue>> /\ faults = 0
        /\ worker' = [worker EXCEPT !.pc = "tombstone", !.back = "create"]
    BY <1>0, <1>9, VaultAbandonFacts
  <2>2. worker'.pc = "tombstone" /\ worker'.gen = worker.gen /\ worker'.left = worker.left
    BY <1>0, <2>1 DEF VaultWorkers, VaultServants, VaultSweepers
  <2> QED
    BY <1>0, <1>1, <2>1, <2>2, VaultAwaitedStill DEF VaultDestroying
<1>10. CASE Vault!CreateKey
  <2>1. /\ worker.pc = "create" /\ worker.left = {} /\ UNCHANGED <<cleanup, queue>>
              /\ faults = 0
    BY <1>0, <1>10, VaultCreateKeyFacts
  <2> QED
    BY <1>0, <1>1, <2>1, VaultAwaitedStill DEF VaultDestroying
<1>11. CASE Vault!Load \/ Vault!CreateFile \/ Vault!Check \/ Vault!Run \/ Vault!Failed
  <2>1. /\ worker.pc \in VaultServingSteps \ {"replace"} /\ worker.left = {}
        /\ UNCHANGED <<cleanup, queue>> /\ faults = 0
    BY <1>0, <1>11, VaultOnlyGoto
  <2> QED
    BY <1>0, <1>1, <2>1, VaultAwaitedStill DEF VaultDestroying, VaultServingSteps
<1>12. CASE Vault!Publish
  <2>1. /\ worker.pc = "publish" /\ UNCHANGED <<cleanup, queue>> /\ faults = 0
    BY <1>0, <1>12, VaultPublishFacts
  <2>2. worker.left = {}
    BY <1>0, <1>12, VaultPublishFacts, VaultWorkerShape
  <2> QED
    BY <1>0, <1>1, <2>1, <2>2, VaultAwaitedStill DEF VaultDestroying
<1> QED
  BY <1>3, <1>4, <1>5, <1>6, <1>7, <1>8, <1>9, <1>10, <1>11, <1>12 DEF Vault!WorkerStep

LEMMA VaultAwaitKept == ASSUME VaultAssumed, VaultIInv, Vault!Next PROVE VaultAwaitInv'
<1>0. VaultTypes /\ worker \in VaultWorkers
  BY DEF VaultIInv, VaultTypes
<1>1. ASSUME faults' = 0, NEW g \in cleanup'.mem PROVE VaultAwaited(g)'
  <2>1. CASE Vault!Restart
    <3>1. queue' = <<Vault!Sweep>>
      BY <2>1 DEF Vault!Restart
    <3>2. \A s : s = <<Vault!Sweep>> => Vault!Sweep \in VaultElems(s)
      BY VaultOneElem
    <3> QED
      BY <3>1, <3>2 DEF VaultAwaited, VaultElems, Vault!Sweep
  <2>2. CASE Vault!Take
    <3>1. /\ worker.pc = "idle" /\ UNCHANGED <<cleanup, faults, account>>
          /\ VaultElems(queue) = {Head(queue)} \cup VaultElems(queue')
      BY <1>0, <2>2, VaultTakeFacts DEF Vault!process
    <3>2. VaultAwaited(g) /\ worker.left = {}
      BY <1>1, <3>1, VaultIdleFacts DEF VaultIInv, VaultAwaitInv, VaultIdleInv
    <3>3. CASE Head(queue) = Vault!Sweep \/ (Head(queue).kind = "destroy"
                   /\ Head(queue).gen = g)
      <4>1. \/ worker'.left = cleanup.mem
            \/ worker'.pc = "tombstone" /\ worker'.gen = g
        BY <1>0, <2>2, <3>3, VaultTakeFacts DEF Vault!Sweep
      <4> QED
        BY <1>1, <3>1, <4>1 DEF VaultAwaited, VaultDestroying
    <3>4. CASE ~(Head(queue) = Vault!Sweep \/ (Head(queue).kind = "destroy"
                   /\ Head(queue).gen = g))
      <4>1. Vault!Sweep \in VaultElems(queue) => Vault!Sweep \in VaultElems(queue')
        BY <3>1, <3>4
      <4>2. g \in VaultToDestroy => g \in VaultToDestroy'
        BY <3>1, <3>4 DEF VaultToDestroy, VaultElems
      <4> QED
        BY <3>1, <3>2, <4>1, <4>2 DEF VaultAwaited, VaultDestroying, VaultElems, Vault!Sweep
    <3> QED
      BY <3>3, <3>4
  <2> QED
    BY <1>1, <2>1, <2>2, VaultAwaitedOutside, VaultAwaitedByWorker
<1> QED
  BY <1>1 DEF VaultAwaitInv, VaultAwaited

----------------------------------------------------------------------------
(* Theorems *)

LEMMA VaultInitSound == ASSUME VaultAssumed, Vault!Init PROVE VaultIInv
<1>1. /\ madeFor = <<>> /\ Len(madeFor) = 0 /\ loggedIn = 0 /\ Vault!Generations = {}
      /\ 0 \in 0..Len(madeFor) /\ 0 \in 0..loggedIn
  BY DEF Vault!Init, Vault!Generations
<1>2. VaultElems(queue) = {Vault!Sweep} /\ VaultElems(mailbox) = {}
  BY VaultOneElem, VaultNoElems DEF Vault!Init
<1>3. ~VaultServing /\ VaultHeld = {} /\ VaultToDestroy = {}
  BY <1>2 DEF VaultServing, VaultHeld, VaultToDestroy, Vault!Init, Vault!Idle, Vault!Sweep,
     VaultServingSteps
<1>4. VaultTypes
  <2>1. Vault!Nobody \in VaultHalves
    BY <1>1 DEF Vault!Nobody, VaultHalves
  <2>2. queue \in Seq(VaultTasks)
            /\ mailbox \in Seq([token : Vault!Token, gen : 0..Len(madeFor)])
    <3>1. Vault!Sweep \in VaultTasks
      BY DEF VaultTasks, Vault!Sweep
    <3> QED
      BY <3>1 DEF Vault!Init
  <2>3. madeFor \in Seq([user : Users, login : 1..loggedIn])
    BY <1>1
  <2>4. worker \in VaultWorkers
    BY <1>1 DEF Vault!Init, Vault!Idle, VaultWorkers, VaultSweepers
  <2>5. account \in VaultAccounts
    BY <1>1 DEF Vault!Init, VaultAccounts
  <2>6. /\ gate \in [epoch : Nat, retired : BOOLEAN, lockEpoch : 0..MaxLocks,
              unlocked : BOOLEAN]
        /\ counts \in [submits : Nat, restarts : Nat] /\ faults \in 0..MaxFaults
              /\ loggedIn \in 0..MaxLogins
    BY DEF Vault!Init, VaultAssumed
  <2> QED
    BY <2>1, <2>2, <2>3, <2>4, <2>5, <2>6 DEF VaultTypes, Vault!Init
<1>5. VaultHalvesInv
  BY DEF Vault!Init, VaultHalvesInv, VaultWhole, Vault!Nobody, VaultAssumed
<1>6. VaultAccountInv /\ VaultTokenInv /\ VaultMailInv /\ VaultQueueInv
  BY <1>2, <1>3 DEF Vault!Init, VaultAccountInv, VaultTokenInv, VaultMailInv, VaultQueueInv
<1>7. VaultNewInv /\ VaultDestroyInv /\ VaultServeInv /\ VaultIdleInv
  BY DEF Vault!Init, VaultNewInv, VaultDestroyInv, VaultServeInv, VaultIdleInv, Vault!Idle,
     VaultDestroying, VaultDeleting
<1>8. VaultDiskInv /\ VaultAwaitInv
  BY <1>1 DEF Vault!Init, VaultDiskInv, VaultAwaitInv
<1> QED
  BY <1>4, <1>5, <1>6, <1>7, <1>8 DEF VaultIInv

LEMMA VaultStepSound == ASSUME VaultAssumed, VaultIInv, [Vault!Next]_(Vault!vars)
    PROVE VaultIInv'
<1>1. CASE Vault!Next
  <2>1. VaultTypes'
    BY <1>1, VaultTypesKept
  <2> QED
    BY <1>1, <2>1, VaultHalvesKept, VaultAccountKept, VaultTokenKept, VaultMailKept,
       VaultQueueKept, VaultNewKept, VaultDestroyKept, VaultServeKept, VaultDiskKept,
       VaultIdleKept, VaultAwaitKept DEF VaultIInv
<1>2. CASE UNCHANGED Vault!vars
  <2>1. UNCHANGED <<prefs, cleanup, keys, files, content, madeFor, loggedIn, gate, account,
            queue, worker,
                    mailbox, counts, faults, troubled>>
    BY <1>2 DEF Vault!vars, Vault!disk, Vault!process
  <2>2. Vault!Generations' = Vault!Generations /\ Vault!Token' = Vault!Token
    BY <2>1 DEF Vault!Generations, Vault!Token
  <2>3. VaultTypes'
    BY <2>1, VaultStillTypes DEF VaultIInv, VaultTypes
  <2>4. VaultHeld' = VaultHeld /\ VaultToDestroy' = VaultToDestroy
    BY <2>1 DEF VaultHeld, VaultToDestroy, VaultElems, VaultServing
  <2>5. VaultHalvesInv' /\ VaultAccountInv' /\ VaultIdleInv'
    BY <2>1 DEF VaultIInv, VaultHalvesInv, VaultAccountInv, VaultIdleInv, VaultWhole
  <2>6. VaultTokenInv' /\ VaultMailInv' /\ VaultQueueInv'
    BY <2>1, <2>4 DEF VaultIInv, VaultTokenInv, VaultTimely, VaultMailInv, VaultBound,
       VaultValid, VaultQueueInv, VaultElems
  <2>7. VaultNewInv' /\ VaultDestroyInv' /\ VaultServeInv'
    BY <2>1, <2>4 DEF VaultIInv, VaultNewInv, VaultUnknown, VaultDestroyInv, VaultServeInv,
       VaultBound, VaultValid, VaultElems
  <2>8. VaultDiskInv' /\ VaultAwaitInv'
    BY <2>1, <2>2, <2>4 DEF VaultIInv, VaultDiskInv, VaultKept, VaultAwaitInv, VaultAwaited,
       VaultElems
  <2> QED
    BY <2>3, <2>5, <2>6, <2>7, <2>8 DEF VaultIInv
<1> QED
  BY <1>1, <1>2

(* The inductive invariant of the vault, whatever fails and whenever the   *)
(* process is stopped.                                                     *)
THEOREM VaultInvariance == ASSUME VaultAssumed PROVE Vault!Spec => []VaultIInv
  BY VaultInitSound, VaultStepSound, PTL DEF Vault!Spec

LEMMA VaultTypeSound == ASSUME VaultTypes, VaultHalvesInv PROVE Vault!TypeOK
<1>1. prefs.mem \in VaultHalves /\ prefs.disk \in VaultHalves /\ DOMAIN prefs = {"mem", "disk"}
  BY DEF VaultTypes
<1>2. Vault!Metadata(prefs.mem) /\ Vault!Metadata(prefs.disk)
  BY <1>1 DEF Vault!Metadata, VaultHalves, VaultHalvesInv, VaultWhole
<1>3. \A i \in 1..Len(mailbox) : mailbox[i].gen \in 0..Len(madeFor)
          /\ mailbox[i].token \in Vault!Token
  <2>1. mailbox \in Seq([token : Vault!Token, gen : 0..Len(madeFor)])
    BY DEF VaultTypes
  <2>2. \A i \in 1..Len(mailbox) : mailbox[i] \in [token : Vault!Token, gen : 0..Len(madeFor)]
    BY <2>1, ElementOfSeq, Zenon
  <2> QED
    BY <2>2
<1> QED
  BY <1>1, <1>2, <1>3 DEF Vault!TypeOK, VaultTypes

(* A callback that may be shown was read from, or written to, a generation *)
(* of the login in force that is not being destroyed.                      *)
THEOREM VaultRepliesStayInLogin == ASSUME VaultAssumed PROVE Vault!Spec => []Vault!ReplyInLogin
<1>1. VaultIInv => Vault!ReplyInLogin
  <2>1. SUFFICES ASSUME VaultIInv, NEW i \in 1..Len(mailbox), mailbox[i].gen # 0,
                            Vault!IsCurrent(mailbox[i].token)
                 PROVE  /\ madeFor[mailbox[i].gen] = [user |-> prefs.mem.user,
                              login |-> prefs.mem.login]
                        /\ mailbox[i].gen \notin cleanup.mem
    BY DEF Vault!ReplyInLogin
  <2>2. mailbox[i] \in VaultElems(mailbox)
    BY DEF VaultElems
  <2>3. VaultValid(mailbox[i].token) /\ mailbox[i].token.user = prefs.mem.user
    BY <2>1, <2>2, VaultHeldFacts, VaultCurrentFacts DEF VaultIInv
  <2>4. mailbox[i].gen = prefs.mem.gen /\ prefs.mem.owner = prefs.mem.user
            /\ mailbox[i].gen \notin cleanup.mem
    BY <2>1, <2>2, <2>3 DEF VaultIInv, VaultMailInv, VaultBound
  <2> QED
    BY <2>1, <2>4 DEF VaultIInv, VaultHalvesInv, VaultWhole
<1> QED
  BY <1>1, VaultInvariance, PTL

(* At every point the process may stop at, the metadata on disk refers to  *)
(* a whole generation or a tombstone says otherwise, and what the user     *)
(* wrote is referred to or will be destroyed.                              *)
THEOREM VaultDataAlwaysAccounted == ASSUME VaultAssumed
      PROVE Vault!Spec => []Vault!DataAccounted
<1>1. VaultIInv => Vault!DataAccounted
  <2>1. SUFFICES ASSUME VaultIInv PROVE Vault!DataAccounted
    OBVIOUS
  <2>2. Vault!TypeOK
    BY <2>1, VaultTypeSound DEF VaultIInv
  <2>3. \A g \in {x \in Vault!Generations : Vault!Sound(x)} : VaultKept(g)
    BY <2>1 DEF VaultIInv, VaultDiskInv, Vault!Sound
  <2> QED
    BY <2>2, <2>3 DEF Vault!DataAccounted, VaultKept
<1> QED
  BY <1>1, VaultInvariance, PTL

(* In a process that met no failure nothing retired is left when both      *)
(* threads are at rest, whatever its predecessor left behind.              *)
THEOREM VaultRetiredAlwaysDestroyed == ASSUME VaultAssumed
      PROVE Vault!Spec => []Vault!RetiredDestroyed
<1>1. VaultIInv => Vault!RetiredDestroyed
  <2>1. SUFFICES ASSUME VaultIInv, faults = 0, account.pc = "idle", worker.pc = "idle",
                            queue = <<>>
                 PROVE  /\ cleanup.mem = {}
                        /\ \A g \in Vault!Generations : Vault!Sound(g) /\ g \in content
                              => g = prefs.mem.gen
    BY DEF Vault!RetiredDestroyed
  <2>2. cleanup.mem = {}
    <3>1. VaultElems(queue) = {} /\ VaultToDestroy = {}
      BY <2>1, VaultNoElems DEF VaultToDestroy
    <3>2. worker.left = {}
      BY <2>1, VaultIdleFacts DEF VaultIInv, VaultIdleInv
    <3>3. ASSUME NEW g \in cleanup.mem PROVE FALSE
      BY <2>1, <3>1, <3>2, <3>3 DEF VaultIInv, VaultAwaitInv, VaultAwaited, VaultDestroying
    <3> QED
      BY <3>3
  <2>3. \A g \in {x \in Vault!Generations : Vault!Sound(x)} : VaultKept(g)
    BY <2>1 DEF VaultIInv, VaultDiskInv, Vault!Sound
  <2> QED
    BY <2>2, <2>3 DEF VaultKept
<1> QED
  BY <1>1, VaultInvariance, PTL

(* Whichever part of the slot runs, a callback that may be shown is of the *)
(* login in force and of a generation that is not being destroyed.         *)
THEOREM RepliesStayInLogin == ASSUME VaultAssumed PROVE SlotSpec => []ReplyInLogin
<1>1. SlotInit => Vault!Init
  BY DEF SlotInit
<1>2. [SlotNext]_<<vars, vaultVars, part>> => [Vault!Next]_(Vault!vars)
  BY DEF SlotNext, vaultVars, Vault!vars, Vault!disk, Vault!process
<1>3. Vault!Spec => []Vault!ReplyInLogin
  BY VaultRepliesStayInLogin
<1>4. Vault!ReplyInLogin => ReplyInLogin
  BY DEF ReplyInLogin
<1> QED
  BY <1>1, <1>2, <1>3, <1>4, PTL DEF SlotSpec, Vault!Spec

(* Whichever part of the slot runs, what the disk refers to is whole, and   *)
(* what the user wrote is referred to or will be destroyed.                *)
THEOREM DataAlwaysAccounted == ASSUME VaultAssumed PROVE SlotSpec => []DataAccounted
<1>1. SlotInit => Vault!Init
  BY DEF SlotInit
<1>2. [SlotNext]_<<vars, vaultVars, part>> => [Vault!Next]_(Vault!vars)
  BY DEF SlotNext, vaultVars, Vault!vars, Vault!disk, Vault!process
<1>3. Vault!Spec => []Vault!DataAccounted
  BY VaultDataAlwaysAccounted
<1>4. Vault!DataAccounted => DataAccounted
  BY DEF DataAccounted
<1> QED
  BY <1>1, <1>2, <1>3, <1>4, PTL DEF SlotSpec, Vault!Spec

(* Whichever part of the slot runs, nothing retired is left at rest in a    *)
(* process that met no failure.                                            *)
THEOREM RetiredAlwaysDestroyed == ASSUME VaultAssumed PROVE SlotSpec => []RetiredDestroyed
<1>1. SlotInit => Vault!Init
  BY DEF SlotInit
<1>2. [SlotNext]_<<vars, vaultVars, part>> => [Vault!Next]_(Vault!vars)
  BY DEF SlotNext, vaultVars, Vault!vars, Vault!disk, Vault!process
<1>3. Vault!Spec => []Vault!RetiredDestroyed
  BY VaultRetiredAlwaysDestroyed
<1>4. Vault!RetiredDestroyed => RetiredDestroyed
  BY DEF RetiredDestroyed
<1> QED
  BY <1>1, <1>2, <1>3, <1>4, PTL DEF SlotSpec, Vault!Spec

(* Whichever part of the slot runs, receipts leave only where they may.     *)
THEOREM SlotReceiptsPermitted == ASSUME Assumed PROVE SlotSpec => []ReceiptsPermitted
<1>1. SlotInit => Init
  BY DEF SlotInit
<1>2. [SlotNext]_<<vars, vaultVars, part>> => [Next]_(vars)
  BY DEF SlotNext, vars
<1>3. Spec => []ReceiptsPermitted
  BY ReceiptsAlwaysPermitted
<1> QED
  BY <1>1, <1>2, <1>3, PTL DEF SlotSpec, Spec

(* Whichever part of the slot runs, reports, checked answers, what          *)
(* notifications do and modes stay with their user.                        *)
THEOREM SlotNothingCrosses == ASSUME Assumed PROVE SlotSpec => []StaysWithUser
<1>1. SlotInit => Init
  BY DEF SlotInit
<1>2. [SlotNext]_<<vars, vaultVars, part>> => [Next]_(vars)
  BY DEF SlotNext, vars
<1>3. Spec => []StaysWithUser
  BY NothingCrosses
<1> QED
  BY <1>1, <1>2, <1>3, PTL DEF SlotSpec, Spec
=============================================================================
