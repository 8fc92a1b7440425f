-------------------------- MODULE AndroidRequests --------------------------
(***************************************************************************)
(* What the Android client sends for one account slot while its user logs  *)
(* in and out: read receipts under the silent mode (ci/read-mode), reports *)
(* of screenshots (ci/android-capture) and actions of notifications        *)
(* (ci/accounts).                                                          *)
(*                                                                         *)
(* Sessions are numbered in the order CapyReadReceipts makes them, logins  *)
(* in the order the users log in; 0 is none.  The calls that log a user in *)
(* and out come from any thread.  A handler is one step, except that what  *)
(* the user confirmed is looked at and carried out in two.  A policy is    *)
(* reset only with its session, so its generation is left out.             *)
(***************************************************************************)
EXTENDS Naturals, Sequences, FiniteSets

CONSTANTS Users, None,               \* user ids, and the 0 of nobody
          MaxLogins, MaxRequests     \* bounds

NobodyIsNoUser == None \notin Users

VARIABLES
    owner,      \* UserConfig.clientUserId
    life,       \* where the thread that logs in and out is
    logins,     \* number of logins so far
    made,       \* number of CapyReadReceipts.Session made so far
    slot,       \* sessions[account]: its number, owner, silent, retired
    mode,       \* preference: user -> silent reading
    reporting,  \* preference: user -> screenshot reports
    dialog,     \* the read mode dialog: session, user, silent, doing
    requests,   \* every request so far
    stage       \* Utilities.stageQueue: request and what to do with it

vars == <<owner, life, logins, made, slot, mode, reporting, dialog, requests, stage>>

Receipts == {"read", "secret", "explicit"}
Actions  == {"reply", "callback"}     \* of a notification
Kinds    == Receipts \cup Actions \cup {"report"}
Ids      == 1..Len(requests)
NoDialog == [session |-> 0, user |-> None, silent |-> FALSE, doing |-> "closed"]
NoSession == [id |-> 0, owner |-> None, silent |-> FALSE, retired |-> FALSE]

TypeOK ==
    /\ owner \in Users \cup {None} /\ logins \in 0..MaxLogins
    /\ life \in {"out", "arriving", "in", "leaving"}
    /\ slot \in [id : 0..made, owner : Users \cup {None}, silent : BOOLEAN, retired : BOOLEAN]
    /\ mode \in [Users -> BOOLEAN] /\ reporting \in [Users -> BOOLEAN]
    /\ dialog \in [session : 0..made, user : Users \cup {None}, silent : BOOLEAN,
                   doing : {"closed", "open", "toggle", "read"}]
    /\ \A r \in Ids : requests[r].kind \in Kinds /\ requests[r].session \in 0..made
    /\ \A i \in 1..Len(stage) : stage[i].id \in Ids /\ stage[i].what \in {"gate", "fail"}

Init ==
    /\ owner = None /\ life = "out" /\ logins = 0
    /\ made = 0 /\ slot = NoSession
    /\ mode = [u \in Users |-> FALSE] /\ reporting = [u \in Users |-> FALSE]
    /\ dialog = NoDialog
    /\ requests = <<>> /\ stage = <<>>

Silent(user) == user # None /\ mode[user]

(* The login in force, 0 if nobody is logged in.                           *)
Login == IF life \in {"arriving", "in"} THEN logins ELSE 0

(* CapyReadReceipts.session: every look at the slot may make a session.    *)
Found == IF slot.id # 0 /\ slot.owner = owner THEN slot
         ELSE [id |-> made + 1, owner |-> owner, silent |-> Silent(owner), retired |-> FALSE]

Keep(session) == slot' = session /\ made' = IF session.id > made THEN session.id ELSE made

Look == Keep(Found)

Usable == Found.owner # None /\ ~Found.retired

IsCurrent(session) == Found.id = session /\ Usable

----------------------------------------------------------------------------
(* UserConfig, on any thread *)

BeforeLogout ==
    /\ life = "in"
    /\ life' = "leaving"
    /\ Keep([Found EXCEPT !.retired = TRUE, !.silent = TRUE])
    /\ UNCHANGED <<owner, logins, mode, reporting, dialog, requests, stage>>

ClearConfig ==
    /\ life = "leaving"
    /\ life' = "out" /\ owner' = None
    /\ UNCHANGED <<logins, made, slot, mode, reporting, dialog, requests, stage>>

SetCurrentUser(user) ==
    /\ life \in {"out", "in"} /\ user # owner /\ logins < MaxLogins
    /\ life' = "arriving" /\ owner' = user /\ logins' = logins + 1
    /\ UNCHANGED <<made, slot, mode, reporting, dialog, requests, stage>>

(* Mutant: the session stays if the slot's owner is the one it was made for. *)
OwnerChangedKeep ==
    /\ life = "arriving"
    /\ life' = "in"
    /\ IF slot.owner = owner THEN Keep([slot EXCEPT !.retired = FALSE, !.silent = Silent(owner)])
                             ELSE Keep(NoSession)
    /\ UNCHANGED <<owner, logins, mode, reporting, dialog, requests, stage>>

(* The session is retired and forgotten, even if its owner logged in again. *)
OwnerChanged ==
    /\ life = "arriving"
    /\ life' = "in" /\ Keep(NoSession)
    /\ UNCHANGED <<owner, logins, mode, reporting, dialog, requests, stage>>

----------------------------------------------------------------------------
(* Making requests *)

Make(kind, user, identity) ==
    requests' = Append(requests,
        [kind |-> kind, user |-> user, identity |-> identity, session |-> Found.id,
         hushed |-> kind # "explicit" /\ Found.silent,
         state |-> IF kind \in Actions THEN "shown" ELSE "queued", bound |-> None,
         madeIn |-> Login, quiet |-> Silent(owner), sentIn |-> 0, sentAs |-> None,
         allowed |-> TRUE, usedIn |-> 0, usedAs |-> None])

Post(id, what) == stage' = Append(stage, [id |-> id, what |-> what])

Spare == Len(requests) < MaxRequests

(* sendRequest captures a receipt, and performSendEncryptedRequest one of a  *)
(* secret chat, before they post to the queue.  That the host also looks at  *)
(* isSilent earlier only spares requests.                                    *)
SendReceipt(kind) ==
    /\ Spare /\ owner # None /\ Make(kind, owner, Found.id) /\ Post(Len(requests) + 1, "gate") /\ Look
    /\ UNCHANGED <<owner, life, logins, mode, reporting, dialog>>

Report ==
    /\ Spare /\ owner # None /\ reporting[owner] /\ Usable
    /\ Make("report", owner, Found.id) /\ Post(Len(requests) + 1, "gate") /\ Look
    /\ UNCHANGED <<owner, life, logins, mode, reporting, dialog>>

(* A notification is shown, its intent stamped with the user.              *)
Notify(kind) ==
    /\ Spare /\ life = "in"
    /\ Make(kind, owner, 0) /\ Look
    /\ UNCHANGED <<owner, life, logins, mode, reporting, dialog, stage>>

SetReporting ==
    /\ Usable
    /\ reporting' = [reporting EXCEPT ![owner] = ~@] /\ Look
    /\ UNCHANGED <<owner, life, logins, mode, dialog, requests, stage>>

----------------------------------------------------------------------------
(* The read mode dialog, on the UI thread.  It is closed by the user, a    *)
(* pause, the lock or a closeAll posted when the owner changes.            *)

Show ==
    /\ dialog.doing = "closed" /\ Usable /\ Look
    /\ dialog' = [session |-> Found.id, user |-> owner,
                  silent |-> Found.silent, doing |-> "open"]
    /\ UNCHANGED <<owner, life, logins, mode, reporting, requests, stage>>

CloseAll ==
    /\ dialog.doing = "open" /\ dialog' = NoDialog
    /\ UNCHANGED <<owner, life, logins, made, slot, mode, reporting, requests, stage>>

Confirm(what) ==
    /\ dialog.doing = "open" /\ Look
    /\ dialog' = IF IsCurrent(dialog.session) THEN [dialog EXCEPT !.doing = what] ELSE dialog
    /\ UNCHANGED <<owner, life, logins, mode, reporting, requests, stage>>

SetSilent ==
    /\ dialog.doing = "toggle"
    /\ dialog' = NoDialog
    /\ IF Usable /\ dialog.user = Found.owner
       THEN /\ mode' = [mode EXCEPT ![dialog.user] = ~dialog.silent]
            /\ Keep([Found EXCEPT !.silent = ~dialog.silent])
       ELSE Look /\ UNCHANGED mode
    /\ UNCHANGED <<owner, life, logins, reporting, requests, stage>>

SendExplicit ==
    /\ dialog.doing = "read" /\ Spare
    /\ Make("explicit", dialog.user, dialog.session)
    /\ Post(Len(requests) + 1, "gate") /\ Look
    /\ dialog' = NoDialog
    /\ UNCHANGED <<owner, life, logins, mode, reporting>>

----------------------------------------------------------------------------
(* Stage queue: sendRequestInternal and the local completions *)

Consume(r) == IsCurrent(r.session) /\ ~r.hushed
              /\ (r.kind = "explicit" \/ ~Found.silent)

Allowed(r) == IsCurrent(r.identity) /\ owner = r.user /\ reporting[r.user]

Passes(r) ==
    CASE r.kind \in {"read", "secret"} -> Consume(r)
      [] r.kind = "explicit"           -> owner = r.user /\ Consume(r)
      [] r.kind = "report"             -> Allowed(r)
      [] OTHER                         -> TRUE

Sent(r) == [r EXCEPT !.state = "sent", !.sentIn = Login, !.sentAs = owner,
                     !.allowed = IF r.kind = "report" THEN reporting[owner]
                                 ELSE r.kind = "explicit" \/ ~Silent(owner)]

Gate ==
    /\ stage # <<>> /\ Head(stage).what = "gate"
    /\ LET id == Head(stage).id
           r  == requests[id]
       IN  IF Passes(r)
           THEN /\ requests' = [requests EXCEPT ![id] = Sent(r)]
                /\ stage' = Tail(stage)
           ELSE IF r.kind = "secret" \/ (r.kind = "explicit" /\ owner # r.user)
           THEN /\ requests' = [requests EXCEPT ![id].state = "failed"]
                /\ stage' = Tail(stage)
           ELSE /\ stage' = Append(Tail(stage), [id |-> id, what |-> "fail"])
                /\ UNCHANGED requests
    /\ Look
    /\ UNCHANGED <<owner, life, logins, mode, reporting, dialog>>

FailLocally ==
    /\ stage # <<>> /\ Head(stage).what = "fail"
    /\ requests' = [requests EXCEPT ![Head(stage).id].state = "failed"]
    /\ stage' = Tail(stage)
    /\ UNCHANGED <<owner, life, logins, made, slot, mode, reporting, dialog>>

----------------------------------------------------------------------------
(* Answers of the server *)

Used(r) == [r EXCEPT !.state = "done", !.usedIn = Login, !.usedAs = owner]

(* The callbacks of explicit reads and of reports look at the session they *)
(* were captured for before they use the answer.                           *)
Answer(id) ==
    LET r == requests[id] IN
    /\ r.state = "sent" /\ r.kind \in {"explicit", "report"} /\ Look
    /\ requests' = [requests EXCEPT ![id] = IF IsCurrent(r.identity) THEN Used(r)
                                            ELSE [r EXCEPT !.state = "done"]]
    /\ UNCHANGED <<owner, life, logins, mode, reporting, dialog, stage>>

(* An automatic receipt keeps its host's callback, which looks at nothing. *)
HostAnswer(id) ==
    LET r == requests[id] IN
    /\ r.state = "sent" /\ r.kind \in {"read", "secret"}
    /\ requests' = [requests EXCEPT ![id] = Used(r)]
    /\ UNCHANGED <<owner, life, logins, made, slot, mode, reporting, dialog, stage>>

----------------------------------------------------------------------------
(* The actions of a notification *)

(* The receiver compares the user of the intent.  Replies go on with that  *)
(* user, to the queue that loads a chat that is not known yet if need be.  *)
Receive(id) ==
    LET r == requests[id] IN
    /\ r.kind \in Actions /\ r.state = "shown"
    /\ \E next \in {"global", "ui"} : requests' = [requests EXCEPT ![id] =
           IF owner # r.user THEN [r EXCEPT !.state = "failed"]
           ELSE IF r.kind = "callback" THEN [r EXCEPT !.state = "taken"]
           ELSE [r EXCEPT !.state = next, !.bound = r.user]]
    /\ UNCHANGED <<owner, life, logins, made, slot, mode, reporting, dialog, stage>>

(* sendNotificationCallback goes on with whoever is logged in by then.     *)
SendNotificationCallback(id) ==
    LET r == requests[id] IN
    /\ r.kind = "callback" /\ r.state = "taken"
    /\ requests' = [requests EXCEPT ![id] = [r EXCEPT !.state = "ui", !.bound = owner]]
    /\ UNCHANGED <<owner, life, logins, made, slot, mode, reporting, dialog, stage>>

Hopping(r) == \/ r.kind \in Actions /\ r.state \in {"global", "ui"}
              \/ r.kind = "callback" /\ r.state = "sent"

Hopped(r) == CASE r.state = "global" -> [r EXCEPT !.state = "ui"]
               [] r.state = "ui"     -> Sent(r)
               [] OTHER              -> Used(r)

(* Mutant: only the receiver itself compares the user.                     *)
HopChecked(id) ==
    LET r == requests[id] IN
    /\ Hopping(r)
    /\ requests' = [requests EXCEPT ![id] = Hopped(r)]
    /\ UNCHANGED <<owner, life, logins, made, slot, mode, reporting, dialog, stage>>

(* Each queue compares the user, and so does the answer to a callback.     *)
Hop(id) ==
    LET r == requests[id] IN
    /\ Hopping(r)
    /\ requests' = [requests EXCEPT ![id] = IF owner = r.bound /\ owner # None THEN Hopped(r)
                                            ELSE [r EXCEPT !.state = "failed"]]
    /\ UNCHANGED <<owner, life, logins, made, slot, mode, reporting, dialog, stage>>

----------------------------------------------------------------------------
Account == BeforeLogout \/ ClearConfig \/ OwnerChanged \/ \E u \in Users : SetCurrentUser(u)

User == \/ SendReceipt("read") \/ SendReceipt("secret") \/ Report
        \/ (\E kind \in Actions : Notify(kind)) \/ SetReporting \/ Show \/ CloseAll \/ Confirm("toggle") \/ Confirm("read")

Ui == SetSilent \/ SendExplicit

Stage == Gate \/ FailLocally

Next == \/ Account \/ User \/ Ui \/ Stage
        \/ \E id \in Ids : \/ Answer(id) \/ HostAnswer(id)
                           \/ Receive(id) \/ SendNotificationCallback(id) \/ Hop(id)

Spec == Init /\ [][Next]_vars

----------------------------------------------------------------------------
(* Properties *)

(* An automatic receipt leaves only in the login it was captured in, and   *)
(* only if its user's silent mode was off both then and when it reached    *)
(* the gate; an explicit one leaves only for the user who confirmed it     *)
(* (read-mode/README.md: "captured while silent remain suppressed", "also  *)
(* suppressed if it reaches the gate while silent").                       *)
ReceiptsPermitted == \A id \in Ids :
    LET r == requests[id]
    IN  r.kind \in Receipts /\ r.sentAs # None =>
            /\ r.sentAs = r.user /\ r.allowed
            /\ r.kind # "explicit" => r.sentIn = r.madeIn /\ ~r.quiet

(* What a notification, a report or an answer does is done as the user it  *)
(* was made for, and reports and checked answers also in that user's same  *)
(* login.  A notification's callback is done as the user it was bound to   *)
(* when it was taken up.                                                   *)
ActsAsUser == \A id \in Ids :
    LET r == requests[id]
    IN  /\ r.kind \in {"reply", "report"} => r.sentAs \in {r.user, None}
        /\ r.kind = "callback" => {r.sentAs, r.usedAs} \subseteq {r.bound, None}
        /\ r.kind = "report" /\ r.sentAs # None => r.sentIn = r.madeIn /\ r.allowed
        /\ r.kind \in {"explicit", "report"} /\ r.usedAs # None =>
               r.usedAs = r.user /\ r.usedIn = r.madeIn

(* The mode a session applies is the one its user chose, whatever the      *)
(* order of choices and logins: a stale dialog cannot change another's.    *)
ModeKept == ~slot.retired => slot.silent = Silent(slot.owner)

(* Reports, checked answers, notifications and modes never cross from one  *)
(* user to another, though the account may log out and in at every hop.    *)
StaysWithUser == TypeOK /\ ActsAsUser /\ ModeKept
=============================================================================
