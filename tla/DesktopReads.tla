---------------------------- MODULE DesktopReads ----------------------------
(***************************************************************************)
(* Silent reading of the Windows client (ci/windows-read-mode) for one     *)
(* account: the setting of its session, the policy of its MTP instance,    *)
(* which outlives sessions, the central gate of sendRequest, and the box   *)
(* in which the user changes the mode or confirms one read.                *)
(*                                                                         *)
(* Everything runs on the UI thread; what comes later is a timer, an       *)
(* answer or a callback posted to it.  Requests are numbered, 0 is none.   *)
(* A request keeps its constructor, so a permit is only its number.        *)
(***************************************************************************)
EXTENDS Naturals, Sequences

CONSTANTS MaxRequests, MaxSessions   \* bounds

VARIABLES
    session,   \* Account::_session: its number, 0 if destroyed
    started,   \* number of sessions so far
    setting,   \* SessionSettings::_capySilentRead, saved with the account
    policy,    \* ReadReceiptPolicy: silent and the explicit permit
    later,     \* Histories: is a read scheduled for later?
    requests,  \* every read request so far
    box        \* the read mode box: session, silent, pending, request

vars == <<session, started, setting, policy, later, requests, box>>

Ids   == 1..Len(requests)
NoBox == [session |-> 0, silent |-> FALSE, pending |-> FALSE, request |-> 0]

TypeOK ==
    /\ session \in {0, started} /\ started \in 0..MaxSessions
    /\ setting \in BOOLEAN /\ later \in BOOLEAN
    /\ policy \in [silent : BOOLEAN, permit : 0..Len(requests)]
    /\ box \in [session : 0..started, silent : BOOLEAN, pending : BOOLEAN, request : 0..Len(requests)]
    /\ requests \in Seq([explicit : BOOLEAN, session : 1..started, silent : BOOLEAN, sent : BOOLEAN,
                         handler : {"held", "network", "called", "cancelled"}])

Init ==
    /\ session = 0 /\ started = 0
    /\ setting \in BOOLEAN /\ policy = [silent |-> FALSE, permit |-> 0]
    /\ later = FALSE /\ requests = <<>> /\ box = NoBox

Outstanding(r) == r.handler \in {"held", "network"}

Cancelled(rs, ids) == [i \in DOMAIN rs |->
    IF i \in ids /\ Outstanding(rs[i]) THEN [rs[i] EXCEPT !.handler = "cancelled"] ELSE rs[i]]

----------------------------------------------------------------------------
(* Session *)

(* Mutant: a new session does not tell the instance its setting.           *)
StartSessionUntold ==
    /\ session = 0 /\ started < MaxSessions
    /\ started' = started + 1 /\ session' = started + 1
    /\ UNCHANGED <<setting, policy, later, requests, box>>

StartSession ==
    /\ session = 0 /\ started < MaxSessions
    /\ started' = started + 1 /\ session' = started + 1
    /\ policy' = [silent |-> setting, permit |-> 0]
    /\ UNCHANGED <<setting, later, requests, box>>

(* The host cancels what the session's senders have in flight.             *)
DestroySession ==
    /\ session # 0
    /\ session' = 0
    /\ policy' = [silent |-> FALSE, permit |-> 0]
    /\ later' = FALSE
    /\ requests' = Cancelled(requests, Ids)
    /\ box' = NoBox
    /\ UNCHANGED <<started, setting>>

----------------------------------------------------------------------------
(* Instance::Private::sendRequest *)

Suppress(id, permit) == policy.silent /\ permit # id

(* The permit is used up by its own request, whatever became of it.        *)
Send(explicit, permit) ==
    LET id   == Len(requests) + 1
        held == Suppress(id, permit)
    IN  /\ id <= MaxRequests
        /\ requests' = Append(requests,
               [explicit |-> explicit, session |-> session, silent |-> setting, sent |-> ~held,
                handler |-> IF held THEN "held" ELSE "network"])
        /\ policy' = [policy EXCEPT !.permit = IF permit = id THEN 0 ELSE permit]

(* Requests of mentions, reactions, stories and contents come straight.    *)
SendRead ==
    /\ session # 0
    /\ Send(FALSE, policy.permit)
    /\ UNCHANGED <<session, started, setting, later, box>>

ReadInbox ==
    /\ session # 0 /\ ~policy.silent /\ ~later
    /\ later' = TRUE
    /\ UNCHANGED <<session, started, setting, policy, requests, box>>

SendReadRequest ==
    /\ later /\ later' = FALSE
    /\ IF policy.silent THEN UNCHANGED <<requests, policy>> ELSE Send(FALSE, policy.permit)
    /\ UNCHANGED <<session, started, setting, box>>

(* RepliesList and SavedSublist also cancel a read that is in flight.      *)
SendReadTillRequest ==
    /\ later /\ later' = FALSE
    /\ IF policy.silent
       THEN requests' = Cancelled(requests, {i \in Ids : ~requests[i].explicit}) /\ UNCHANGED policy
       ELSE Send(FALSE, policy.permit)
    /\ UNCHANGED <<session, started, setting, box>>

(* finish: the box of the request, if it is still there.                   *)
Finish(id) == IF box.request = id THEN [box EXCEPT !.pending = FALSE, !.request = 0] ELSE box

(* The zero timer: the handler fails once, unless it was taken away.       *)
CapyReadSuppressed(id) ==
    /\ requests[id].handler = "held"
    /\ requests' = [requests EXCEPT ![id].handler = "called"]
    /\ box' = Finish(id)
    /\ UNCHANGED <<session, started, setting, policy, later>>

Answer(id) ==
    /\ requests[id].handler = "network"
    /\ requests' = [requests EXCEPT ![id].handler = "called"]
    /\ box' = Finish(id)
    /\ UNCHANGED <<session, started, setting, policy, later>>

----------------------------------------------------------------------------
(* ShowReadMode *)

Open == box.session # 0

ShowReadMode ==
    /\ session # 0 /\ ~Open
    /\ box' = [NoBox EXCEPT !.session = session, !.silent = setting]
    /\ UNCHANGED <<session, started, setting, policy, later, requests>>

Toggle ==
    /\ Open /\ ~box.pending
    /\ setting' = ~box.silent
    /\ policy' = [silent |-> ~box.silent, permit |-> 0]
    /\ box' = NoBox
    /\ UNCHANGED <<session, started, later, requests>>

(* sendCapyExplicitRead: the permit is given to the number it will use.    *)
ExplicitRead ==
    /\ Open /\ ~box.pending
    /\ Send(TRUE, Len(requests) + 1)
    /\ box' = [box EXCEPT !.pending = TRUE, !.request = Len(requests) + 1]
    /\ UNCHANGED <<session, started, setting, later>>

(* Closed by the user, the passcode lock or a change of language.          *)
CloseBox ==
    /\ Open
    /\ requests' = Cancelled(requests, {box.request})
    /\ box' = NoBox
    /\ UNCHANGED <<session, started, setting, policy, later>>

----------------------------------------------------------------------------
Next == \/ StartSession \/ DestroySession
        \/ SendRead \/ ReadInbox \/ SendReadRequest \/ SendReadTillRequest
        \/ \E id \in Ids : CapyReadSuppressed(id) \/ Answer(id)
        \/ ShowReadMode \/ Toggle \/ ExplicitRead \/ CloseBox

Spec == Init /\ [][Next]_vars

----------------------------------------------------------------------------
(* Properties *)

(* While the user's setting says silent no read leaves but the one the     *)
(* user confirmed, through any change of session and mode in between, and  *)
(* that one always leaves.                                                 *)
SilentHolds == \A id \in Ids :
    requests[id].sent <=> requests[id].explicit \/ ~requests[id].silent

(* The box waits exactly as long as its own read is unanswered, and a read *)
(* whose box is gone is not waited for any more.                           *)
BoxHonest ==
    /\ box.pending <=> box.request # 0
    /\ \A id \in Ids : requests[id].explicit =>
          (Outstanding(requests[id]) <=> box.request = id /\ box.session = requests[id].session)

(* Silent reading is honoured and its answers reach whoever asked.         *)
ReadsSound == TypeOK /\ SilentHolds /\ BoxHonest
=============================================================================
