---------------------- MODULE WindowsConnection_proofs ----------------------
(***************************************************************************)
(* Theorems about WindowsConnection: for any number of requests its route  *)
(* is sound and it implements ConnectionSpec.                              *)
(*                                                                         *)
(* The argument: the reply of the latest request finds the worker at rest  *)
(* (ReplyInv and PendingInv), holding the tunnel the reply names; and a    *)
(* request is pending, in the worker's hands or in the reply exactly until *)
(* it is answered (AnswerInv).                                             *)
(*                                                                         *)
(* The second half is about the transcription beside it, VoiceWorker under *)
(* the name MCWindowsClient takes it by: for any boxes and any number of   *)
(* jobs, a cancel is heard by the engine, the callback and the box.  There *)
(* a job that is current, finished and not yet posted, or posted is the    *)
(* latest job of a box that waits for it (VoiceFlightInv), and is only one *)
(* of the three (VoiceOnceInv).  So a callback finds the box that asked    *)
(* and no newer question of it.                                            *)
(***************************************************************************)
EXTENDS MCWindowsClient, TLAPS, FiniteSetTheorems, SequenceTheorems

----------------------------------------------------------------------------
(* The inductive invariant *)

WorkerOK ==
    worker \in [pc: {"wait", "exchange", "stop", "start", "deliver", "ended"},
                revision: 0..Len(requests), previous: 0..Len(startedFor),
                code: Codes, endpoint: 0..Len(startedFor)]

(* Who may do what: the destructor ends the callbacks first, and only then *)
(* the commands.                                                           *)
LifeInv ==
    /\ alive <=> ui \in {"idle", "selecting"}
    /\ stopping => ~alive
    /\ alive => worker.pc # "ended"
    /\ worker.pc \in {"exchange", "start", "deliver"} => worker.revision # 0
    /\ worker.pc = "stop" /\ worker.revision = 0 => ~alive

(* The service knows the latest request; it is enabled and not answered    *)
(* yet, or up, exactly if that request asked for it and did not fail.      *)
ServiceInv ==
    /\ service.revision = Revision
    /\ service.enabled => Revision # 0 /\ requests[Revision]
    /\ service.enabled <=> service.phase \in {"starting", "up"}

(* The tunnels are the one in the worker's hands.                          *)
TunnelInv ==
    /\ tunnels = {handle, worker.previous} \ {0}
    /\ worker.pc # "stop" => worker.previous = 0
    /\ worker.pc \in {"stop", "start"} => handle = 0

(* A pending request is the latest and was not taken yet.                  *)
PendingInv == pending # 0 => pending = Revision /\ worker.revision < Revision

(* What the worker is about to deliver, and what it delivered.             *)
OutcomeInv ==
    /\ worker.pc = "deliver" /\ worker.code \in {"ready", "invalid"} =>
          /\ worker.endpoint = handle /\ handle # 0
          /\ startedFor[handle] = worker.revision
    /\ worker.pc = "start" => requests[worker.revision]
    /\ worker.pc = "deliver" /\ worker.code # "stopped" => requests[worker.revision]

ReplyInv == alive /\ reply # <<>> =>
    /\ reply[1].revision <= worker.revision
    /\ worker.pc # "wait" => reply[1].revision < worker.revision
    /\ reply[1].code # "stopped" => requests[reply[1].revision]
    /\ reply[1].code \in {"ready", "invalid"} /\ reply[1].revision = worker.revision =>
          /\ reply[1].endpoint = handle /\ handle # 0
          /\ startedFor[handle] = reply[1].revision

(* The latest request has not been answered.                               *)
Unanswered ==
    \/ pending # 0
    \/ worker.pc # "wait" /\ worker.revision = Revision
    \/ reply # <<>> /\ reply[1].revision = Revision

AnswerInv == alive /\ Unanswered /\ Revision # 0 /\ requests[Revision] =>
    service.phase = "starting"

ProxyInv == proxy # 0 /\ ui = "idle" =>
    /\ service.enabled /\ proxy = handle
    /\ startedFor[handle] = Revision
    /\ worker.revision = Revision /\ worker.pc = "wait"

IInv == TypeOK /\ WorkerOK /\ LifeInv /\ ServiceInv /\ TunnelInv /\ PendingInv
        /\ OutcomeInv /\ ReplyInv /\ AnswerInv /\ ProxyInv

----------------------------------------------------------------------------
(* Lemmas on single steps *)

(* A request makes the sequence of the requests one longer and leaves what *)
(* refers to it well typed.                                                *)
LEMMA Longer ==
    ASSUME TypeOK, NEW on \in BOOLEAN, Request(on)
    PROVE  /\ requests' \in Seq(BOOLEAN) /\ Len(requests') = Len(requests) + 1
           /\ pending' = Len(requests) + 1 /\ requests'[Len(requests) + 1] = on
           /\ \A i \in 1..Len(requests) : requests'[i] = requests[i]
           /\ startedFor \in Seq(1..Len(requests'))
           /\ reply # <<>> => reply[1] \in [revision : 1..Len(requests'), code : Codes,
                                            endpoint : 0..Len(startedFor)]
<1>1. requests \in Seq(BOOLEAN) /\ Len(requests) \in Nat /\ startedFor \in Seq(1..Len(requests))
  BY DEF TypeOK
<1>2. /\ requests' \in Seq(BOOLEAN) /\ Len(requests') = Len(requests) + 1
      /\ pending' = Len(requests) + 1 /\ requests'[Len(requests) + 1] = on
      /\ \A i \in 1..Len(requests) : requests'[i] = requests[i]
  BY <1>1 DEF Request, Revision
<1>3. startedFor \in Seq(1..Len(requests'))
  <2>1. \A i \in 1..Len(startedFor) : startedFor[i] \in 1..Len(requests')
    BY <1>1, <1>2
  <2>. QED  BY <1>1, <2>1
<1>4. reply # <<>> => reply[1] \in [revision : 1..Len(requests'), code : Codes,
                                    endpoint : 0..Len(startedFor)]
  BY <1>1, <1>2 DEF TypeOK, Reply
<1>. QED  BY <1>2, <1>3, <1>4

(* The reply of the latest request finds the worker at rest.               *)
LEMMA ReplyInForce ==
    ASSUME IInv, alive, reply # <<>>, reply[1].revision = Revision
    PROVE  /\ reply[1] \in Reply /\ Revision \in Nat \ {0}
           /\ pending = 0 /\ worker.pc = "wait" /\ worker.revision = Revision
           /\ reply[1].code # "stopped" => requests[Revision] /\ service.phase = "starting"
           /\ reply[1].code \in {"ready", "invalid"} =>
                 /\ reply[1].endpoint = handle /\ handle # 0
                 /\ startedFor[handle] = Revision
<1>1. reply[1] \in Reply /\ Revision \in Nat \ {0} /\ worker.revision \in 0..Revision
  BY DEF IInv, TypeOK, WorkerOK, Reply, Revision
<1>2. worker.revision = Revision /\ worker.pc = "wait"
  BY <1>1 DEF IInv, ReplyInv
<1>3. pending = 0
  BY <1>1, <1>2 DEF IInv, PendingInv, TypeOK
<1>4. reply[1].code # "stopped" => requests[Revision] /\ service.phase = "starting"
  BY <1>1 DEF IInv, ReplyInv, AnswerInv, Unanswered
<1>5. reply[1].code \in {"ready", "invalid"} =>
          /\ reply[1].endpoint = handle /\ handle # 0
          /\ startedFor[handle] = Revision
  BY <1>2 DEF IInv, ReplyInv
<1>. QED  BY <1>1, <1>2, <1>3, <1>4, <1>5

(* The two requests of the UI thread keep the types.                       *)
LEMMA WishTyped ==
    ASSUME IInv, NEW on \in BOOLEAN, SetEnabled(on) \/ (ManualProxySelected /\ on = FALSE)
    PROVE  TypeOK'
<1>1. Request(on) /\ TypeOK /\ service' = Wish(on)
  BY DEF IInv, SetEnabled, ManualProxySelected
<1>2. service' \in [enabled: BOOLEAN, phase: {"off", "starting", "up", "failed"},
                    revision: 0..Len(requests'), wishes: Nat]
  BY <1>1, Longer DEF Wish, TypeOK, Revision
<1>3. /\ UNCHANGED <<posted, WorkerState>> /\ proxy' \in {0, proxy}
      /\ ui' \in {"idle", "selecting"}
  BY DEF SetEnabled, ManualProxySelected, WorkerState
<1>4. /\ requests' \in Seq(BOOLEAN) /\ Len(requests') \in Nat
      /\ pending' \in 0..Len(requests') /\ startedFor \in Seq(1..Len(requests'))
      /\ reply # <<>> => reply[1] \in [revision : 1..Len(requests'), code : Codes,
                                       endpoint : 0..Len(startedFor)]
  <2>1. Len(requests) \in Nat
    BY <1>1 DEF TypeOK
  <2>. QED  BY <1>1, <2>1, Longer
<1>5. proxy' \in 0..Len(startedFor)
  BY <1>1, <1>3 DEF TypeOK
<1>. QED  BY <1>1, <1>2, <1>3, <1>4, <1>5 DEF WorkerState, TypeOK, Handles, Reply

(* The worker's own state stays well typed; revision 0 is the end.         *)
LEMMA ExchangeTyped == ASSUME IInv, Exchange PROVE WorkerOK'
<1>1. PICK r \in 0..Len(requests) :
          worker' = [worker EXCEPT !.pc = "stop", !.previous = handle, !.revision = r]
  <2>1. CASE worker.pc = "wait"
    <3>1. worker' = [worker EXCEPT !.pc = "stop", !.previous = handle, !.revision = 0]
      BY <2>1 DEF Exchange
    <3>2. 0 \in 0..Len(requests)
      BY DEF IInv, TypeOK
    <3>. QED  BY <3>1, <3>2
  <2>2. CASE worker.pc # "wait"
    BY <2>2 DEF IInv, Exchange, TypeOK, WorkerOK
  <2>. QED  BY <2>1, <2>2
<1>. QED  BY <1>1 DEF IInv, Exchange, TypeOK, WorkerOK, Others, uiVars

(* Where StopPrevious goes on.                                             *)
LEMMA StopPreviousNext ==
    ASSUME IInv, StopPrevious
    PROVE  \E pc \in {"ended", "start", "deliver"} :
              /\ worker' = [worker EXCEPT !.previous = 0, !.code = "stopped", !.endpoint = 0,
                                          !.pc = pc]
              /\ pc = "ended" <=> worker.revision = 0
              /\ pc = "start" => requests[worker.revision]
<1>1. CASE worker.revision = 0
  BY <1>1 DEF StopPrevious
<1>2. CASE worker.revision # 0 /\ requests[worker.revision]
  BY <1>2 DEF StopPrevious
<1>3. CASE worker.revision # 0 /\ ~requests[worker.revision]
  BY <1>3 DEF StopPrevious
<1>. QED  BY <1>1, <1>2, <1>3

(* The worker's own state stays well typed.                                *)
LEMMA StopPreviousTyped == ASSUME IInv, StopPrevious PROVE WorkerOK'
<1>1. PICK pc \in {"ended", "start", "deliver"} :
          worker' = [worker EXCEPT !.previous = 0, !.code = "stopped", !.endpoint = 0,
                                   !.pc = pc]
  BY StopPreviousNext
<1>2. Len(startedFor) \in Nat
  BY DEF IInv, TypeOK
<1>3. UNCHANGED <<requests, startedFor>>
  BY DEF StopPrevious, Others
<1>4. worker' = [pc |-> pc, revision |-> worker.revision, previous |-> 0,
                  code |-> "stopped", endpoint |-> 0]
  BY <1>1 DEF IInv, WorkerOK
<1>. QED  BY <1>2, <1>3, <1>4 DEF IInv, WorkerOK, Codes

(* A stop request is delivered as stopped, a start request is started.     *)
LEMMA StopPreviousLife == ASSUME IInv, StopPrevious PROVE LifeInv' /\ OutcomeInv'
<1>1. PICK pc \in {"ended", "start", "deliver"} :
              /\ worker' = [worker EXCEPT !.previous = 0, !.code = "stopped", !.endpoint = 0,
                                          !.pc = pc]
              /\ pc = "ended" <=> worker.revision = 0
              /\ pc = "start" => requests[worker.revision]
  BY StopPreviousNext
<1>2. worker'.pc = pc /\ worker'.revision = worker.revision /\ worker'.code = "stopped"
  BY <1>1 DEF IInv, WorkerOK
<1>. QED  BY <1>1, <1>2 DEF IInv, StopPrevious, TypeOK, LifeInv, OutcomeInv, Others, uiVars

(* capy_connection_start found the worker without a tunnel.                *)
LEMMA Started ==
    ASSUME IInv, Start
    PROVE  \/ \E code \in {"ready", "invalid"} :
                /\ worker' = [worker EXCEPT !.pc = "deliver", !.code = code,
                                            !.endpoint = Len(startedFor) + 1]
                /\ handle' = Len(startedFor) + 1 /\ tunnels' = {handle'}
                /\ startedFor' \in Seq(1..Len(requests))
                /\ Len(startedFor') = Len(startedFor) + 1
                /\ startedFor'[handle'] = worker.revision
           \/ /\ worker' = [worker EXCEPT !.pc = "deliver", !.code = "failed"]
              /\ UNCHANGED <<handle, tunnels, startedFor>>
<1>1. worker.pc = "start" /\ worker.revision \in 1..Len(requests) /\ tunnels = {}
  BY DEF IInv, Start, WorkerOK, LifeInv, TunnelInv
<1>2. startedFor \in Seq(1..Len(requests))
  BY DEF IInv, TypeOK
<1>3. CASE \E code \in {"ready", "invalid"} :
            /\ startedFor' = Append(startedFor, worker.revision)
            /\ tunnels' = tunnels \cup {Len(startedFor) + 1}
            /\ handle' = Len(startedFor) + 1
            /\ worker' = [worker EXCEPT !.pc = "deliver", !.code = code,
                                        !.endpoint = Len(startedFor) + 1]
  <2>1. /\ startedFor' = Append(startedFor, worker.revision)
        /\ handle' = Len(startedFor) + 1
    BY <1>3
  <2>2. /\ startedFor' \in Seq(1..Len(requests)) /\ Len(startedFor') = Len(startedFor) + 1
        /\ startedFor'[handle'] = worker.revision
    BY <1>1, <1>2, <2>1
  <2>3. tunnels' = {handle'}
    BY <1>1, <1>3
  <2>. QED  BY <1>3, <2>1, <2>2, <2>3
<1>. QED  BY <1>3 DEF Start

----------------------------------------------------------------------------
(* Each action preserves the invariant *)

(* The normal route is restored, so ProxyInv has nothing to show; the new  *)
(* request is the pending one and nothing answered it.                     *)
LEMMA SetEnabledStep == ASSUME IInv, NEW on \in BOOLEAN, SetEnabled(on) PROVE IInv'
<1>1. TypeOK'
  BY WishTyped
<1>2. WorkerOK' /\ LifeInv' /\ TunnelInv' /\ ProxyInv'
  BY DEF IInv, SetEnabled, Request, WorkerState, WorkerOK, LifeInv, TunnelInv, ProxyInv
<1>3. ServiceInv' /\ AnswerInv'
  BY DEF IInv, SetEnabled, Request, Wish, ServiceInv, AnswerInv, Revision
<1>4. PendingInv'
  BY DEF IInv, SetEnabled, Request, WorkerState, WorkerOK, PendingInv, Revision
<1>5. OutcomeInv'
  BY DEF IInv, SetEnabled, Request, WorkerState, WorkerOK, LifeInv, OutcomeInv
<1>6. ReplyInv'
  BY DEF IInv, SetEnabled, Request, WorkerState, TypeOK, ReplyInv, Reply
<1>. QED  BY <1>1, <1>2, <1>3, <1>4, <1>5, <1>6 DEF IInv

(* The proxy is reset one step later: ProxyInv speaks of an idle UI only.  *)
LEMMA ManualStep == ASSUME IInv, ManualProxySelected PROVE IInv'
<1>1. TypeOK'
  BY WishTyped
<1>2. WorkerOK' /\ LifeInv' /\ TunnelInv' /\ ProxyInv'
  BY DEF IInv, ManualProxySelected, Request, WorkerState, WorkerOK, LifeInv, TunnelInv,
     ProxyInv
<1>3. ServiceInv' /\ AnswerInv'
  BY DEF IInv, ManualProxySelected, Request, Wish, ServiceInv, AnswerInv, Revision
<1>4. PendingInv'
  BY DEF IInv, ManualProxySelected, Request, WorkerState, WorkerOK, PendingInv, Revision
<1>5. OutcomeInv'
  BY DEF IInv, ManualProxySelected, Request, WorkerState, WorkerOK, LifeInv, OutcomeInv
<1>6. ReplyInv'
  BY DEF IInv, ManualProxySelected, Request, WorkerState, TypeOK, ReplyInv, Reply
<1>. QED  BY <1>1, <1>2, <1>3, <1>4, <1>5, <1>6 DEF IInv

(* Only the proxy changes.                                                 *)
LEMMA ResetStep == ASSUME IInv, ProxyReset PROVE IInv'
<1>1. TypeOK'
  BY DEF IInv, ProxyReset, WorkerState, TypeOK, Handles, Reply
<1>2. WorkerOK' /\ LifeInv' /\ TunnelInv' /\ OutcomeInv'
  BY DEF IInv, ProxyReset, WorkerState, WorkerOK, LifeInv, TunnelInv, OutcomeInv
<1>3. ServiceInv' /\ PendingInv' /\ AnswerInv'
  BY DEF IInv, ProxyReset, WorkerState, ServiceInv, PendingInv, AnswerInv, Revision,
     Unanswered
<1>4. ReplyInv' /\ ProxyInv'
  BY DEF IInv, ProxyReset, WorkerState, ReplyInv, ProxyInv
<1>. QED  BY <1>1, <1>2, <1>3, <1>4 DEF IInv

(* A callback changes the service only for the reply of the latest         *)
(* request, which asked for the mode and was not answered before.          *)
InForce(code) ==
    alive /\ reply # <<>> /\ reply[1].revision = Revision /\ reply[1].code = code

Up ==
    /\ InForce("ready") /\ service.enabled
    /\ proxy' = handle /\ service' = [service EXCEPT !.phase = "up"]
    /\ UNCHANGED <<pending, requests>>

Disabled ==
    /\ InForce("invalid") /\ Request(FALSE) /\ proxy' = 0
    /\ service' = [service EXCEPT !.enabled = FALSE, !.phase = "failed",
                                  !.revision = Revision + 1]

Failed ==
    /\ InForce("failed") /\ proxy' = 0
    /\ service' = [service EXCEPT !.enabled = FALSE, !.phase = "failed"]
    /\ UNCHANGED <<pending, requests>>

(* What a callback can do.                                                 *)
LEMMA Completion ==
    ASSUME IInv, Dispatch
    PROVE  UNCHANGED <<service, proxy, pending, requests>> \/ Up \/ Disabled \/ Failed
<1>1. CASE ~(alive /\ reply # <<>> /\ reply[1].revision = Revision)
  BY <1>1 DEF Dispatch
<1>2. CASE alive /\ reply # <<>> /\ reply[1].revision = Revision
  <2>1. Completed(reply[1]) /\ reply[1].code \in Codes
    BY <1>2, ReplyInForce DEF Dispatch, IInv, ServiceInv, Reply
  <2>2. CASE reply[1].code = "ready" /\ service.enabled
    BY <1>2, <2>1, <2>2, ReplyInForce DEF Completed, Up, InForce
  <2>3. CASE reply[1].code = "invalid" /\ service.enabled
    BY <1>2, <2>1, <2>3 DEF Completed, Disabled, InForce
  <2>4. CASE reply[1].code = "failed"
    BY <1>2, <2>1, <2>4 DEF Completed, Failed, InForce
  <2>5. CASE /\ ~(reply[1].code \in {"ready", "invalid"} /\ service.enabled)
             /\ reply[1].code # "failed"
    <3>1. PICK phase : /\ service' = [service EXCEPT !.phase = phase]
                       /\ phase = IF ~service.enabled /\ service.phase # "failed"
                                  THEN "off" ELSE service.phase
                       /\ UNCHANGED <<proxy, pending, requests>>
      BY <2>1, <2>5 DEF Completed
    <3>2. phase = service.phase
      BY <3>1 DEF IInv, TypeOK, ServiceInv
    <3>. QED  BY <3>1, <3>2 DEF IInv, TypeOK
  <2>. QED  BY <2>2, <2>3, <2>4, <2>5
<1>. QED  BY <1>1, <1>2

(* The reply in force finds the worker at rest with the tunnel the reply   *)
(* names, so the proxy it sets is the tunnel of the latest request.        *)
LEMMA DispatchStep == ASSUME IInv, Dispatch PROVE IInv'
<1>1. /\ ui' = ui /\ reply' = <<>> /\ posted' = 0 /\ dispatchQueued' = FALSE
      /\ UNCHANGED <<alive, stopping, worker, handle, tunnels, startedFor>>
  BY DEF Dispatch, IInv, TypeOK
<1>2. TypeOK /\ Len(requests) \in Nat /\ Revision = Len(requests) /\ service.wishes \in Nat
      /\ service.revision = Revision
  BY DEF IInv, TypeOK, Revision, ServiceInv
<1>3. CASE UNCHANGED <<service, proxy, pending, requests>>
  <2>1. TypeOK'
    BY <1>1, <1>3 DEF IInv, TypeOK, Handles
  <2>2. WorkerOK' /\ LifeInv' /\ TunnelInv' /\ OutcomeInv'
    BY <1>1, <1>3 DEF IInv, WorkerOK, LifeInv, TunnelInv, OutcomeInv
  <2>3. ServiceInv' /\ PendingInv' /\ AnswerInv' /\ ProxyInv'
    BY <1>1, <1>3 DEF IInv, ServiceInv, PendingInv, AnswerInv, ProxyInv, Revision, Unanswered
  <2>4. ReplyInv'
    BY <1>1, <1>3 DEF IInv, ReplyInv
  <2>. QED  BY <2>1, <2>2, <2>3, <2>4 DEF IInv
<1>4. CASE Up
  <2>1. /\ alive /\ Revision # 0 /\ requests[Revision]
        /\ pending = 0 /\ worker.pc = "wait" /\ worker.revision = Revision
        /\ handle # 0 /\ startedFor[handle] = Revision
        /\ proxy' = handle /\ UNCHANGED <<pending, requests>>
        /\ service' = [enabled |-> TRUE, phase |-> "up", revision |-> Revision,
                       wishes |-> service.wishes]
    BY <1>2, <1>4, ReplyInForce DEF Up, InForce, TypeOK
  <2>3. TypeOK'
    <3>1. service' \in [enabled: BOOLEAN, phase: {"off", "starting", "up", "failed"},
                       revision: 0..Len(requests'), wishes: Nat]
      BY <1>2, <2>1
    <3>. QED  BY <1>1, <1>2, <2>1, <3>1 DEF TypeOK, Handles
  <2>4. WorkerOK' /\ LifeInv' /\ TunnelInv' /\ PendingInv'
    BY <1>1, <1>2, <2>1 DEF IInv, WorkerOK, LifeInv, TunnelInv, PendingInv
  <2>5. ServiceInv' /\ AnswerInv' /\ ProxyInv'
    BY <1>1, <1>2, <2>1 DEF IInv, ServiceInv, AnswerInv, ProxyInv, Revision, Unanswered
  <2>6. OutcomeInv' /\ ReplyInv'
    BY <1>1, <1>2, <2>1 DEF IInv, OutcomeInv, ReplyInv
  <2>. QED  BY <2>3, <2>4, <2>5, <2>6 DEF IInv
<1>5. CASE Disabled
  <2>1. /\ alive /\ Revision # 0 /\ requests[Revision]
        /\ pending = 0 /\ worker.pc = "wait" /\ worker.revision = Revision
        /\ Request(FALSE) /\ proxy' = 0
        /\ service' = [enabled |-> FALSE, phase |-> "failed", revision |-> Revision + 1,
                       wishes |-> service.wishes]
    BY <1>2, <1>5, ReplyInForce DEF Disabled, InForce, TypeOK
  <2>2. /\ requests' \in Seq(BOOLEAN) /\ Len(requests') = Len(requests) + 1
        /\ pending' = Len(requests) + 1 /\ requests'[Len(requests) + 1] = FALSE
        /\ \A i \in 1..Len(requests) : requests'[i] = requests[i]
        /\ startedFor \in Seq(1..Len(requests'))
    <3>1. Request(FALSE) =>
            /\ requests' \in Seq(BOOLEAN) /\ Len(requests') = Len(requests) + 1
            /\ pending' = Len(requests) + 1 /\ requests'[Len(requests) + 1] = FALSE
            /\ \A i \in 1..Len(requests) : requests'[i] = requests[i]
            /\ startedFor \in Seq(1..Len(requests'))
      BY <1>2, Longer
    <3>. QED  BY <2>1, <3>1
  <2>3. TypeOK'
    <3>1. service' \in [enabled: BOOLEAN, phase: {"off", "starting", "up", "failed"},
                       revision: 0..Len(requests'), wishes: Nat]
      BY <1>2, <2>1, <2>2
    <3>. QED  BY <1>1, <1>2, <2>1, <2>2, <3>1 DEF TypeOK, Handles
  <2>4. WorkerOK' /\ LifeInv' /\ TunnelInv' /\ OutcomeInv'
    BY <1>1, <1>2, <2>1, <2>2 DEF IInv, WorkerOK, LifeInv, TunnelInv, OutcomeInv
  <2>5. ServiceInv' /\ PendingInv' /\ AnswerInv'
    BY <1>1, <1>2, <2>1, <2>2 DEF IInv, ServiceInv, PendingInv, AnswerInv, Revision
  <2>6. ReplyInv' /\ ProxyInv'
    BY <1>1, <1>2, <2>1, <2>2 DEF IInv, ReplyInv, ProxyInv
  <2>. QED  BY <2>3, <2>4, <2>5, <2>6 DEF IInv
<1>6. CASE Failed
  <2>1. /\ alive /\ Revision # 0 /\ requests[Revision]
        /\ pending = 0 /\ worker.pc = "wait" /\ worker.revision = Revision
        /\ proxy' = 0 /\ UNCHANGED <<pending, requests>>
        /\ service' = [enabled |-> FALSE, phase |-> "failed", revision |-> Revision,
                       wishes |-> service.wishes]
    BY <1>2, <1>6, ReplyInForce DEF Failed, InForce, TypeOK
  <2>3. TypeOK'
    <3>1. service' \in [enabled: BOOLEAN, phase: {"off", "starting", "up", "failed"},
                       revision: 0..Len(requests'), wishes: Nat]
      BY <1>2, <2>1
    <3>. QED  BY <1>1, <1>2, <2>1, <3>1 DEF TypeOK, Handles
  <2>4. WorkerOK' /\ LifeInv' /\ TunnelInv' /\ PendingInv'
    BY <1>1, <1>2, <2>1 DEF IInv, WorkerOK, LifeInv, TunnelInv, PendingInv
  <2>5. ServiceInv' /\ AnswerInv'
    BY <1>1, <1>2, <2>1 DEF IInv, ServiceInv, AnswerInv, Revision, Unanswered
  <2>6. OutcomeInv' /\ ReplyInv' /\ ProxyInv'
    BY <1>1, <1>2, <2>1 DEF IInv, OutcomeInv, ReplyInv, ProxyInv
  <2>. QED  BY <2>3, <2>4, <2>5, <2>6 DEF IInv
<1>. QED  BY <1>3, <1>4, <1>5, <1>6, Completion

(* The destructor leaves the proxy to the application and ends the callbacks.*)
LEMMA RevokeStep == ASSUME IInv, Revoke PROVE IInv'
<1>1. TypeOK'
  BY DEF IInv, Revoke, TypeOK, Handles, Reply
<1>2. WorkerOK' /\ LifeInv' /\ TunnelInv' /\ OutcomeInv'
  BY DEF IInv, Revoke, WorkerOK, LifeInv, TunnelInv, OutcomeInv
<1>3. ServiceInv' /\ PendingInv'
  BY DEF IInv, Revoke, ServiceInv, PendingInv, Revision
<1>4. ReplyInv' /\ AnswerInv' /\ ProxyInv'
  BY DEF IInv, Revoke, ReplyInv, AnswerInv, ProxyInv
<1>. QED  BY <1>1, <1>2, <1>3, <1>4 DEF IInv

(* The pending command and the reply are dropped.                          *)
LEMMA StopWorkerStep == ASSUME IInv, StopWorker PROVE IInv'
<1>1. TypeOK'
  BY DEF IInv, StopWorker, uiVars, TypeOK, Handles
<1>2. WorkerOK' /\ LifeInv' /\ TunnelInv' /\ PendingInv'
  BY DEF IInv, StopWorker, uiVars, WorkerOK, LifeInv, TunnelInv, PendingInv
<1>3. ServiceInv' /\ AnswerInv'
  BY DEF IInv, StopWorker, uiVars, ServiceInv, AnswerInv, Revision, Unanswered
<1>4. OutcomeInv' /\ ReplyInv' /\ ProxyInv'
  BY DEF IInv, StopWorker, uiVars, OutcomeInv, ReplyInv, ProxyInv
<1>. QED  BY <1>1, <1>2, <1>3, <1>4 DEF IInv

(* Only the UI thread moves.                                               *)
LEMMA JoinStep == ASSUME IInv, Join PROVE IInv'
<1>1. TypeOK'
  BY DEF IInv, Join, WorkerState, TypeOK, Handles, Reply
<1>2. WorkerOK' /\ LifeInv' /\ TunnelInv' /\ OutcomeInv'
  BY DEF IInv, Join, WorkerState, WorkerOK, LifeInv, TunnelInv, OutcomeInv
<1>3. ServiceInv' /\ PendingInv' /\ AnswerInv'
  BY DEF IInv, Join, WorkerState, ServiceInv, PendingInv, AnswerInv, Revision, Unanswered
<1>4. ReplyInv' /\ ProxyInv'
  BY DEF IInv, Join, WorkerState, ReplyInv, ProxyInv
<1>. QED  BY <1>1, <1>2, <1>3, <1>4 DEF IInv

(* A proxy in use excludes a pending command, and any reply is older.      *)
LEMMA TakeStep == ASSUME IInv, Take PROVE IInv'
<1>1. WorkerOK'
  BY DEF IInv, Take, Others, uiVars, TypeOK, WorkerOK
<1>2. TypeOK'
  BY DEF IInv, Take, Others, uiVars, TypeOK, Handles, Reply
<1>3. LifeInv' /\ TunnelInv' /\ PendingInv' /\ OutcomeInv'
  BY DEF IInv, Take, Others, uiVars, LifeInv, TunnelInv, PendingInv, OutcomeInv
<1>4. ServiceInv' /\ AnswerInv'
  BY DEF IInv, Take, Others, uiVars, ServiceInv, AnswerInv, Revision, Unanswered
<1>5. ReplyInv'
  BY DEF IInv, Take, Others, TypeOK, WorkerOK, PendingInv, ReplyInv, Reply
<1>6. ProxyInv'
  BY DEF IInv, Take, Others, uiVars, PendingInv, ProxyInv, Revision
<1>. QED  BY <1>1, <1>2, <1>3, <1>4, <1>5, <1>6 DEF IInv

(* The worker leaves its rest only for a newer request or for the end, when*)
(* no proxy is in use.                                                     *)
LEMMA ExchangeStep == ASSUME IInv, Exchange PROVE IInv'
<1>1. WorkerOK'
  BY ExchangeTyped
<1>2. TypeOK'
  BY DEF IInv, Exchange, Others, uiVars, TypeOK, Handles, Reply
<1>3. LifeInv' /\ TunnelInv' /\ OutcomeInv'
  BY DEF IInv, Exchange, Others, uiVars, LifeInv, TunnelInv, OutcomeInv
<1>4. ServiceInv' /\ PendingInv' /\ AnswerInv'
  BY DEF IInv, Exchange, Others, uiVars, ServiceInv, PendingInv, AnswerInv, Revision,
     Unanswered
<1>5. ReplyInv'
  BY DEF IInv, Exchange, Others, TypeOK, LifeInv, ReplyInv
<1>6. ProxyInv'
  BY DEF IInv, Exchange, Others, uiVars, LifeInv, ProxyInv
<1>. QED  BY <1>1, <1>2, <1>3, <1>4, <1>5, <1>6 DEF IInv

(* The handle was given up before.                                         *)
LEMMA StopPreviousStep == ASSUME IInv, StopPrevious PROVE IInv'
<1>1. WorkerOK'
  BY StopPreviousTyped
<1>2. LifeInv' /\ OutcomeInv'
  BY StopPreviousLife
<1>3. TypeOK'
  BY DEF IInv, StopPrevious, Others, uiVars, TypeOK, Handles, Reply
<1>4. ServiceInv' /\ PendingInv' /\ AnswerInv'
  BY DEF IInv, StopPrevious, Others, uiVars, ServiceInv, PendingInv, AnswerInv, Revision,
     Unanswered
<1>5. TunnelInv' /\ ReplyInv' /\ ProxyInv'
  BY DEF IInv, StopPrevious, Others, uiVars, TunnelInv, ReplyInv, ProxyInv
<1>. QED  BY <1>1, <1>2, <1>3, <1>4, <1>5 DEF IInv

(* The tunnel that starts is the only one; a failure leaves none.          *)
LEMMA StartStep == ASSUME IInv, Start PROVE IInv'
<1>1. /\ worker.pc = "start" /\ worker.revision \in 1..Len(requests)
      /\ requests[worker.revision]
      /\ tunnels = {} /\ handle = 0 /\ worker.previous = 0
  BY DEF IInv, Start, WorkerOK, LifeInv, TunnelInv, OutcomeInv
<1>2. UNCHANGED <<service, proxy, ui, alive, stopping, requests, posted, reply,
                  dispatchQueued, pending>>
  BY DEF Start, Others, uiVars
<1>3. Len(startedFor) \in Nat /\ Len(requests) \in Nat
  BY DEF IInv, TypeOK
<1>4. ASSUME NEW code \in {"ready", "invalid"},
             worker' = [worker EXCEPT !.pc = "deliver", !.code = code,
                                      !.endpoint = Len(startedFor) + 1],
             handle' = Len(startedFor) + 1, tunnels' = {handle'},
             startedFor' \in Seq(1..Len(requests)), Len(startedFor') = Len(startedFor) + 1,
             startedFor'[handle'] = worker.revision
      PROVE  IInv'
  <2>1. worker' = [pc |-> "deliver", revision |-> worker.revision, previous |-> 0,
                   code |-> code, endpoint |-> Len(startedFor) + 1]
    BY <1>1, <1>4 DEF IInv, WorkerOK
  <2>2. TypeOK'
    <3>1. /\ requests' = requests /\ Len(startedFor') = Len(startedFor) + 1
          /\ tunnels' = {Len(startedFor) + 1}
      BY <1>2, <1>4
    <3>2. reply = <<>> \/ (Len(reply) = 1 /\ reply[1] \in Reply' /\ dispatchQueued)
      BY <1>3, <3>1 DEF IInv, TypeOK, Reply
    <3>3. /\ proxy \in 0..Len(startedFor') /\ handle' \in 0..Len(startedFor')
          /\ tunnels' \subseteq Handles'
      BY <1>3, <1>4, <3>1 DEF IInv, TypeOK, Handles
    <3>. QED  BY <1>2, <1>4, <2>1, <3>1, <3>2, <3>3 DEF IInv, TypeOK
  <2>3. WorkerOK'
    BY <1>1, <1>2, <1>3, <1>4, <2>1 DEF WorkerOK, Codes
  <2>4. LifeInv' /\ TunnelInv' /\ OutcomeInv' /\ ReplyInv'
    BY <1>1, <1>2, <1>3, <1>4, <2>1 DEF IInv, LifeInv, TunnelInv, OutcomeInv, ReplyInv
  <2>5. ServiceInv' /\ PendingInv' /\ AnswerInv'
    BY <1>1, <1>2, <1>3, <1>4, <2>1 DEF IInv, ServiceInv, PendingInv, AnswerInv, Revision,
       Unanswered
  <2>6. ProxyInv'
    BY <1>1, <1>2, <1>3, <1>4, <2>1 DEF IInv, ProxyInv
  <2>. QED  BY <2>2, <2>3, <2>4, <2>5, <2>6 DEF IInv
<1>5. ASSUME worker' = [worker EXCEPT !.pc = "deliver", !.code = "failed"],
             UNCHANGED <<handle, tunnels, startedFor>>
      PROVE  IInv'
  <2>1. worker' = [pc |-> "deliver", revision |-> worker.revision, previous |-> 0,
                   code |-> "failed", endpoint |-> worker.endpoint]
    BY <1>1, <1>5 DEF IInv, WorkerOK
  <2>2. TypeOK'
    BY <1>1, <1>2, <1>3, <1>5, <2>1 DEF IInv, TypeOK, Reply
  <2>3. WorkerOK' /\ LifeInv' /\ TunnelInv' /\ OutcomeInv'
    BY <1>1, <1>2, <1>3, <1>5, <2>1 DEF IInv, WorkerOK, LifeInv, TunnelInv, OutcomeInv, Codes
  <2>4. ServiceInv' /\ PendingInv' /\ AnswerInv'
    BY <1>1, <1>2, <1>3, <1>5, <2>1 DEF IInv, ServiceInv, PendingInv, AnswerInv, Revision,
       Unanswered
  <2>5. ReplyInv' /\ ProxyInv'
    BY <1>1, <1>2, <1>3, <1>5, <2>1 DEF IInv, ReplyInv, ProxyInv
  <2>. QED  BY <2>2, <2>3, <2>4, <2>5 DEF IInv
<1>. QED  BY <1>4, <1>5, Started

(* The reply names the tunnel and the request it was started for.          *)
LEMMA DeliverStep == ASSUME IInv, Deliver PROVE IInv'
<1>1. WorkerOK'
  BY DEF IInv, Deliver, Others, uiVars, TypeOK, WorkerOK
<1>2. TypeOK'
  BY DEF IInv, Deliver, Others, uiVars, TypeOK, WorkerOK, LifeInv, Handles, Reply
<1>3. LifeInv' /\ TunnelInv' /\ OutcomeInv' /\ ProxyInv'
  BY DEF IInv, Deliver, Others, uiVars, LifeInv, TunnelInv, OutcomeInv, ProxyInv
<1>4. ServiceInv' /\ PendingInv' /\ AnswerInv'
  BY DEF IInv, Deliver, Others, uiVars, ServiceInv, PendingInv, AnswerInv, Revision,
     Unanswered
<1>5. ReplyInv'
  BY DEF IInv, Deliver, Others, OutcomeInv, ReplyInv, Revision
<1>. QED  BY <1>1, <1>2, <1>3, <1>4, <1>5 DEF IInv

(* Nothing was requested, nothing runs.                                    *)
LEMMA InitInv == Init => IInv
<1>. SUFFICES ASSUME Init PROVE IInv
  OBVIOUS
<1>1. TypeOK /\ WorkerOK
  <2>1. requests = <<>> /\ startedFor = <<>>
    BY DEF Init
  <2>2. Len(requests) = 0 /\ Len(startedFor) = 0
    BY <2>1
  <2>3. requests \in Seq(BOOLEAN) /\ startedFor \in Seq(1..Len(requests))
    BY <2>1
  <2>4. service \in [enabled: BOOLEAN, phase: {"off", "starting", "up", "failed"},
                     revision: 0..Len(requests), wishes: Nat]
    BY <2>2 DEF Init
  <2>5. TypeOK
    BY <2>2, <2>3, <2>4 DEF Init, TypeOK
  <2>6. WorkerOK
    BY <2>2 DEF Init, WorkerOK, Codes
  <2>. QED  BY <2>5, <2>6
<1>2. LifeInv /\ ServiceInv /\ TunnelInv /\ PendingInv /\ OutcomeInv
  BY DEF Init, LifeInv, ServiceInv, TunnelInv, PendingInv, OutcomeInv, Revision
<1>3. ReplyInv /\ AnswerInv /\ ProxyInv
  BY DEF Init, ReplyInv, AnswerInv, ProxyInv, Unanswered, Revision
<1>. QED  BY <1>1, <1>2, <1>3 DEF IInv

(* The invariant depends on nothing but the variables.                     *)
LEMMA StutterStep == ASSUME IInv, UNCHANGED vars PROVE IInv'
<1>1. TypeOK' /\ WorkerOK' /\ LifeInv' /\ ServiceInv'
  BY DEF IInv, vars, uiVars, TypeOK, WorkerOK, LifeInv, ServiceInv, Handles, Reply, Revision
<1>2. TunnelInv' /\ PendingInv' /\ OutcomeInv'
  BY DEF IInv, vars, uiVars, TunnelInv, PendingInv, OutcomeInv, Revision
<1>3. ReplyInv' /\ AnswerInv' /\ ProxyInv'
  BY DEF IInv, vars, uiVars, ReplyInv, AnswerInv, ProxyInv, Unanswered, Revision
<1>. QED  BY <1>1, <1>2, <1>3 DEF IInv

----------------------------------------------------------------------------
(* Theorems *)

(* The invariant holds in every reachable state, whatever the order in     *)
(* which the UI thread and the worker thread run and the callbacks arrive. *)
THEOREM Invariant == Spec => []IInv
<1>1. IInv /\ [Next]_vars => IInv'
  <2>. SUFFICES ASSUME IInv, [Next]_vars PROVE IInv'
    OBVIOUS
  <2>1. CASE UNCHANGED vars
    BY <2>1, StutterStep
  <2>2. CASE Next
    BY <2>2, SetEnabledStep, ManualStep, ResetStep, DispatchStep, RevokeStep, StopWorkerStep,
       JoinStep, TakeStep, ExchangeStep, StopPreviousStep, StartStep, DeliverStep
       DEF Next, UiStep, WorkerStep
  <2>. QED  BY <2>1, <2>2
<1>. QED  BY <1>1, InitInv, PTL DEF Spec

(* Every variable keeps its type; one callback at most is posted.          *)
THEOREM TypeCorrect == Spec => []TypeOK
<1>1. IInv => TypeOK
  BY DEF IInv
<1>. QED  BY <1>1, Invariant, PTL

(* The worker holds at most one tunnel and the registry no other.          *)
LEMMA AtMostOneTunnel == IInv => OneTunnel
<1>. SUFFICES ASSUME IInv PROVE OneTunnel
  OBVIOUS
<1>1. tunnels \subseteq {handle, worker.previous}
  BY DEF IInv, TunnelInv
<1>2. tunnels = {} \/ \E t \in {handle, worker.previous} : tunnels = {t}
  BY DEF IInv, TunnelInv
<1>3. Cardinality(tunnels) \in {0, 1}
  BY <1>2, FS_EmptySet, FS_Singleton
<1>. QED  BY <1>1, <1>3 DEF OneTunnel

(* The proxy in use is a running tunnel, started for the latest request,   *)
(* which asked for it; and there is one tunnel at most.                    *)
THEOREM RouteIsSound == Spec => []RouteSound
<1>1. IInv => ProxyBacked
  BY DEF IInv, ProxyInv, TunnelInv, ProxyBacked
<1>2. IInv => ProxyOfLatest
  BY DEF IInv, ProxyInv, ServiceInv, ProxyOfLatest
<1>3. IInv => RouteSound
  BY <1>1, <1>2, AtMostOneTunnel DEF RouteSound
<1>. QED  BY <1>3, Invariant, PTL

(* The callbacks of the worker are the outcomes of ConnectionSpec.         *)
LEMMA DispatchPromise == ASSUME IInv, Dispatch PROVE [Promise!Next]_(Promise!vars)
<1>1. CASE UNCHANGED <<service, proxy, pending, requests>>
  BY <1>1 DEF Promise!vars
<1>2. CASE Up \/ Disabled \/ Failed
  <2>1. service.phase = "starting"
    BY <1>2, ReplyInForce DEF Up, Disabled, Failed, InForce
  <2>2. /\ service'.phase = "up" \/ service'.phase = "failed"
        /\ service'.wishes = service.wishes
    BY <1>2 DEF Up, Disabled, Failed, IInv, TypeOK
  <2>. QED  BY <2>1, <2>2 DEF Promise!Next, Promise!Outcome
<1>. QED  BY <1>1, <1>2, Completion

(* A request of the user is a wish.                                        *)
LEMMA WishPromise ==
    ASSUME NEW on \in BOOLEAN, service' = Wish(on) PROVE Promise!Wish(on)
  BY DEF Wish, Promise!Wish

(* The service implements the promise: no reply of an earlier request is   *)
(* ever shown, and a request is answered once.                             *)
THEOREM ConnectionKeepsPromise == Spec => ImplementsConnection
<1>1. Init => Promise!Init
  BY DEF Init, Promise!Init
<1>2. IInv /\ [Next]_vars => [Promise!Next]_(Promise!vars)
  <2>. SUFFICES ASSUME IInv, [Next]_vars PROVE [Promise!Next]_(Promise!vars)
    OBVIOUS
  <2>1. CASE \E on \in BOOLEAN : SetEnabled(on)
    BY <2>1, WishPromise DEF SetEnabled, Promise!Next
  <2>2. CASE ManualProxySelected
    BY <2>2, WishPromise DEF ManualProxySelected, Promise!Next
  <2>3. CASE Dispatch
    BY <2>3, DispatchPromise
  <2>4. CASE UNCHANGED service
    BY <2>4 DEF Promise!vars
  <2>. QED
    BY <2>1, <2>2, <2>3, <2>4 DEF Next, UiStep, WorkerStep, ProxyReset, Revoke, StopWorker,
       Join, Take, Exchange, StopPrevious, Start, Deliver, Others, vars, uiVars
<1>. QED  BY <1>1, <1>2, Invariant, PTL DEF Spec, ImplementsConnection, Promise!Spec

----------------------------------------------------------------------------
(* The transcription: its inductive invariant *)

VoiceRunning == {"begin", "verify", "choose", "download", "reverify", "decode", "engine",
            "publish", "transcribe", "unpublish", "catch", "release"}

VoiceEnding == {"check", "post"}

VoiceJobRec == [box: Boxes, allowed: BOOLEAN, cancel: BOOLEAN, engine: {"none", "live", "cancelled"}]

VoiceBoxRec(n) == [state: {"absent", "open", "closed"}, pending: BOOLEAN,
              allowed: BOOLEAN, job: 0..n, text: 0..n]

VoiceWorkerRec(n) == [pc: VoiceRunning \cup VoiceEnding \cup {"wait", "ended"},
                 task: 0..n, verified: BOOLEAN, code: Voice!Codes]

(* The job in hand is the current one until it is released; then a new one *)
(* may be pending.                                                         *)
VoiceWorkerInv ==
    /\ transcriber.pc \in VoiceRunning => transcriber.task \in Voice!Jobs /\ current = transcriber.task /\ next = 0
    /\ transcriber.pc \in VoiceEnding => transcriber.task \in Voice!Jobs /\ current # transcriber.task /\ next = current
    /\ transcriber.pc = "wait" => next = current

(* A box that waits, waits for its latest job.                             *)
VoiceBoxInv == \A b \in Boxes : box[b].pending =>
    /\ box[b].job \in Voice!Jobs /\ job[box[b].job].box = b
    /\ \A j \in Voice!Jobs : job[j].box = b => j <= box[b].job

VoiceInFlight(j) ==
    \/ j = current
    \/ transcriber.pc \in VoiceEnding /\ j = transcriber.task
    \/ \E i \in 1..Len(results) : results[i].job = j

(* A job in flight is the one its box waits for, cancelled with the box.   *)
VoiceFlightInv == \A j \in Voice!Jobs : VoiceInFlight(j) =>
    /\ box[job[j].box].pending /\ box[job[j].box].job = j
    /\ box[job[j].box].state = "closed" => job[j].cancel

(* A job is posted once, and not while the worker has it.                  *)
VoiceOnceInv == \A i \in 1..Len(results) :
    /\ results[i].job # current
    /\ transcriber.pc \in VoiceEnding => results[i].job # transcriber.task
    /\ \A k \in 1..Len(results) : results[i].job = results[k].job => i = k

VoiceIInv == Voice!TypeOK /\ VoiceWorkerInv /\ VoiceBoxInv /\ VoiceFlightInv /\ VoiceOnceInv /\ Voice!EngineHears /\ Voice!TextAtHome

----------------------------------------------------------------------------
(* Types, element by element *)

LEMMA VoiceTypeFacts ==
    ASSUME Voice!TypeOK
    PROVE  /\ job \in Seq(VoiceJobRec) /\ Len(job) \in Nat /\ DOMAIN job = Voice!Jobs
           /\ \A j \in Voice!Jobs : job[j] \in VoiceJobRec
           /\ results \in Seq([job: Voice!Jobs, code: Voice!Codes]) /\ Len(results) \in Nat
           /\ \A i \in 1..Len(results) : results[i] \in [job: Voice!Jobs, code: Voice!Codes]
           /\ box \in [Boxes -> VoiceBoxRec(Len(job))] /\ transcriber \in VoiceWorkerRec(Len(job))
           /\ current \in 0..Len(job) /\ next \in {0, current} /\ screen.box \in Boxes
<1>1. job \in Seq(VoiceJobRec) /\ results \in Seq([job: Voice!Jobs, code: Voice!Codes])
  BY DEF Voice!TypeOK, VoiceJobRec
<1>2. Len(job) \in Nat /\ DOMAIN job = Voice!Jobs /\ \A j \in Voice!Jobs : job[j] \in VoiceJobRec
  BY <1>1, LenProperties, ElementOfSeq DEF Voice!Jobs
<1>3. Len(results) \in Nat /\ \A i \in 1..Len(results) : results[i] \in [job: Voice!Jobs, code: Voice!Codes]
  BY <1>1, LenProperties, ElementOfSeq
<1>4. transcriber \in VoiceWorkerRec(Len(job))
  BY DEF Voice!TypeOK, VoiceWorkerRec, VoiceRunning, VoiceEnding
<1>5. box \in [Boxes -> VoiceBoxRec(Len(job))]
  BY DEF Voice!TypeOK, VoiceBoxRec
<1> QED
  BY <1>1, <1>2, <1>3, <1>4, <1>5 DEF Voice!TypeOK

LEMMA VoiceBoxFacts ==
    ASSUME Voice!TypeOK, NEW b \in Boxes
    PROVE  /\ box[b].pending \in BOOLEAN
           /\ box[b].text # 0 => box[b].text \in Voice!Jobs
           /\ box[b].job # 0 => box[b].job \in Voice!Jobs
BY VoiceTypeFacts DEF VoiceBoxRec, Voice!Jobs

(* The same facts make the type, for the next state too.                   *)
LEMMA VoiceTypeAgain ==
    ASSUME job' \in Seq(VoiceJobRec), results' \in Seq([job: Voice!Jobs', code: Voice!Codes]),
           box' \in [Boxes -> VoiceBoxRec(Len(job'))], transcriber' \in VoiceWorkerRec(Len(job')),
           current' \in 0..Len(job'), next' \in {0, current'},
           screen' \in [pc: {"idle", "clear", "stop", "halt", "join", "gone"}, box: Boxes],
           valid' \subseteq Boxes, leaving' \in BOOLEAN, open' \in BOOLEAN, model' \in BOOLEAN
    PROVE  Voice!TypeOK'
<1>1. transcriber' \in [pc: {"wait", "begin", "verify", "choose", "download", "reverify", "decode",
                        "engine", "publish", "transcribe", "unpublish", "catch", "release",
                        "check", "post", "ended"},
                   task: 0..Len(job'), verified: BOOLEAN, code: Voice!Codes]
  BY DEF VoiceWorkerRec, VoiceRunning, VoiceEnding
<1>2. /\ job' \in Seq([box: Boxes, allowed: BOOLEAN, cancel: BOOLEAN,
                       engine: {"none", "live", "cancelled"}])
      /\ box' \in [Boxes -> [state: {"absent", "open", "closed"}, pending: BOOLEAN,
                          allowed: BOOLEAN, job: 0..Len(job'), text: 0..Len(job')]]
  BY DEF VoiceJobRec, VoiceBoxRec
<1> QED
  BY <1>1, <1>2 DEF Voice!TypeOK

(* One job changes, but not whose it is, and is not uncancelled.           *)
VoiceTouch(j, r) ==
    /\ j \in Voice!Jobs /\ r \in VoiceJobRec /\ r.box = job[j].box
    /\ job[j].cancel => r.cancel
    /\ job' = [job EXCEPT ![j] = r]

VoiceTouched == UNCHANGED job \/ \E j \in Voice!Jobs, r \in VoiceJobRec : VoiceTouch(j, r)

LEMMA VoiceTouchFacts ==
    ASSUME Voice!TypeOK, VoiceTouched
    PROVE  /\ job' \in Seq(VoiceJobRec) /\ Len(job') = Len(job) /\ Voice!Jobs' = Voice!Jobs
           /\ \A k \in Voice!Jobs : job'[k].box = job[k].box /\ (job[k].cancel => job'[k].cancel)
           /\ \A j \in Voice!Jobs, r \in VoiceJobRec : VoiceTouch(j, r) =>
                job'[j] = r /\ \A k \in Voice!Jobs : k # j => job'[k] = job[k]
<1> USE VoiceTypeFacts DEF Voice!Jobs
<1>0. \A j \in Voice!Jobs, r \in VoiceJobRec : VoiceTouch(j, r) =>
        /\ job' \in Seq(VoiceJobRec) /\ Len(job') = Len(job)
        /\ \A k \in Voice!Jobs : job'[k] = IF k = j THEN r ELSE job[k]
  BY ExceptSeq DEF VoiceTouch
<1>1. CASE UNCHANGED job
  BY <1>0, <1>1
<1>2. CASE \E j \in Voice!Jobs, r \in VoiceJobRec : VoiceTouch(j, r)
  <2>1. PICK j \in Voice!Jobs, r \in VoiceJobRec : VoiceTouch(j, r)
    BY <1>2
  <2>2. /\ job' \in Seq(VoiceJobRec) /\ Len(job') = Len(job)
        /\ \A k \in Voice!Jobs : job'[k] = IF k = j THEN r ELSE job[k]
    BY <1>0, <2>1
  <2>3. \A k \in Voice!Jobs : job'[k].box = job[k].box /\ (job[k].cancel => job'[k].cancel)
    BY <2>1, <2>2 DEF VoiceTouch
  <2> QED
    BY <1>0, <2>2, <2>3
<1> QED
  BY <1>1, <1>2 DEF VoiceTouched

(* The three ways to touch a job.                                          *)
LEMMA VoiceFlagTouches ==
    ASSUME Voice!TypeOK, NEW j \in Voice!Jobs, Voice!CancelFlag(j)
    PROVE  VoiceTouch(j, [job[j] EXCEPT !.cancel = TRUE]) /\ [job[j] EXCEPT !.cancel = TRUE] \in VoiceJobRec
<1>1. job[j] \in VoiceJobRec
  BY VoiceTypeFacts
<1>2. [job[j] EXCEPT !.cancel = TRUE] \in VoiceJobRec /\ [job[j] EXCEPT !.cancel = TRUE].box = job[j].box
      /\ [job[j] EXCEPT !.cancel = TRUE].cancel = TRUE
  BY <1>1 DEF VoiceJobRec
<1> QED
  BY <1>2 DEF Voice!CancelFlag, VoiceTouch

VoiceEngineSet(j, e) == [job[j] EXCEPT !.engine = e]

LEMMA VoiceEngineTouches ==
    ASSUME Voice!TypeOK, NEW j \in Voice!Jobs, NEW e \in {"none", "live", "cancelled"},
           job' = [job EXCEPT ![j] = VoiceEngineSet(j, e)]
    PROVE  /\ VoiceTouch(j, VoiceEngineSet(j, e)) /\ VoiceEngineSet(j, e) \in VoiceJobRec
           /\ VoiceEngineSet(j, e).engine = e /\ VoiceEngineSet(j, e).cancel = job[j].cancel
<1>1. job[j] \in VoiceJobRec
  BY VoiceTypeFacts
<1>2. VoiceEngineSet(j, e) \in VoiceJobRec /\ VoiceEngineSet(j, e).box = job[j].box
      /\ VoiceEngineSet(j, e).engine = e /\ VoiceEngineSet(j, e).cancel = job[j].cancel
  BY <1>1, Zenon DEF VoiceJobRec, VoiceEngineSet
<1> QED
  BY <1>2 DEF VoiceTouch

----------------------------------------------------------------------------
(* What a touched job leaves of the invariant                              *)

LEMMA VoiceTouchKeeps ==
    ASSUME VoiceIInv, VoiceTouched, UNCHANGED <<box, current, next, transcriber, results>>
    PROVE  VoiceWorkerInv' /\ VoiceBoxInv' /\ VoiceFlightInv' /\ VoiceOnceInv'
<1>1. /\ Voice!Jobs' = Voice!Jobs /\ Len(job') = Len(job)
      /\ \A k \in Voice!Jobs : job'[k].box = job[k].box /\ (job[k].cancel => job'[k].cancel)
  BY VoiceTouchFacts DEF VoiceIInv
<1>2. VoiceWorkerInv' /\ VoiceOnceInv'
  BY <1>1 DEF VoiceIInv, VoiceWorkerInv, VoiceOnceInv
<1>3. VoiceBoxInv'
  BY <1>1 DEF VoiceIInv, VoiceBoxInv
<1>4. \A j \in Voice!Jobs : VoiceInFlight(j)' <=> VoiceInFlight(j)
  BY DEF VoiceInFlight
<1>5. VoiceFlightInv'
  BY <1>1, <1>4 DEF VoiceIInv, VoiceFlightInv
<1> QED
  BY <1>2, <1>3, <1>5

LEMMA VoiceTouchTypes ==
    ASSUME Voice!TypeOK, VoiceTouched, UNCHANGED <<current, next, results>>,
           box' \in [Boxes -> VoiceBoxRec(Len(job))], transcriber' \in VoiceWorkerRec(Len(job)),
           screen' \in [pc: {"idle", "clear", "stop", "halt", "join", "gone"}, box: Boxes],
           valid' \subseteq Boxes, leaving' \in BOOLEAN, open' \in BOOLEAN, model' \in BOOLEAN
    PROVE  Voice!TypeOK'
<1>1. /\ job' \in Seq(VoiceJobRec) /\ Len(job') = Len(job) /\ Voice!Jobs' = Voice!Jobs
  BY VoiceTouchFacts
<1> QED
  BY <1>1, VoiceTypeFacts, VoiceTypeAgain

----------------------------------------------------------------------------
(* The worker thread, within a job: it goes on with its task and may put   *)
(* the engine in place, but a live one only when the job goes on.          *)

VoiceWithin ==
    /\ transcriber.pc \in VoiceRunning /\ transcriber' \in VoiceWorkerRec(Len(job))
    /\ transcriber'.pc \in VoiceRunning /\ transcriber'.task = transcriber.task
    /\ \/ UNCHANGED job
       \/ \E e \in {"none", "live", "cancelled"} :
             /\ job' = [job EXCEPT ![transcriber.task] = VoiceEngineSet(transcriber.task, e)]
             /\ e = "live" => ~job[transcriber.task].cancel
    /\ model' \in BOOLEAN
    /\ UNCHANGED <<box, valid, screen, Voice!shared, results>>

LEMMA VoiceWithinKeeps == ASSUME VoiceIInv, VoiceWithin PROVE VoiceIInv'
<1> USE VoiceTypeFacts
<1>1. Voice!TypeOK /\ transcriber.task \in Voice!Jobs /\ current = transcriber.task
  BY DEF VoiceIInv, VoiceWorkerInv, VoiceWithin
<1>2. /\ VoiceTouched
      /\ \A j \in Voice!Jobs : job'[j].cancel = job[j].cancel
      /\ \A j \in Voice!Jobs : job'[j].engine = "live" => job[j].engine = "live" \/ ~job[j].cancel
  <2>1. CASE UNCHANGED job
    BY <2>1 DEF VoiceTouched
  <2>2. CASE ~UNCHANGED job
    <3>1. PICK e \in {"none", "live", "cancelled"} :
             /\ job' = [job EXCEPT ![transcriber.task] = VoiceEngineSet(transcriber.task, e)]
             /\ e = "live" => ~job[transcriber.task].cancel
      BY <2>2 DEF VoiceWithin
    <3>2. /\ VoiceTouch(transcriber.task, VoiceEngineSet(transcriber.task, e)) /\ VoiceEngineSet(transcriber.task, e) \in VoiceJobRec
          /\ VoiceEngineSet(transcriber.task, e).engine = e
          /\ VoiceEngineSet(transcriber.task, e).cancel = job[transcriber.task].cancel
      BY <1>1, <3>1, VoiceEngineTouches
    <3>3. VoiceTouched
      BY <1>1, <3>2 DEF VoiceTouched
    <3>4. /\ job'[transcriber.task] = VoiceEngineSet(transcriber.task, e)
          /\ \A k \in Voice!Jobs : k # transcriber.task => job'[k] = job[k]
      BY <1>1, <3>2, <3>3, VoiceTouchFacts
    <3> QED
      BY <1>1, <3>1, <3>2, <3>3, <3>4
  <2> QED
    BY <2>1, <2>2
<1>3. /\ Voice!Jobs' = Voice!Jobs /\ Len(job') = Len(job)
      /\ \A k \in Voice!Jobs : job'[k].box = job[k].box
  BY <1>1, <1>2, VoiceTouchFacts
<1>4. Voice!TypeOK'
  BY <1>1, <1>2, VoiceTouchTypes DEF VoiceWithin, Voice!shared, Voice!TypeOK, VoiceIInv
<1>5. VoiceWorkerInv'
  BY <1>1, <1>3 DEF VoiceIInv, VoiceWorkerInv, VoiceWithin, VoiceRunning, VoiceEnding,
     Voice!shared
<1>6. VoiceBoxInv'
  BY <1>3 DEF VoiceIInv, VoiceBoxInv, VoiceWithin
<1>7. VoiceFlightInv'
  <2>1. \A j \in Voice!Jobs : VoiceInFlight(j)' => VoiceInFlight(j)
    BY DEF VoiceInFlight, VoiceWithin, Voice!shared, VoiceRunning, VoiceEnding
  <2> QED
    BY <1>2, <1>3, <2>1 DEF VoiceIInv, VoiceFlightInv, VoiceWithin
<1>8. VoiceOnceInv'
  BY DEF VoiceIInv, VoiceOnceInv, VoiceWithin, Voice!shared, VoiceRunning, VoiceEnding
<1>9. Voice!EngineHears'
  BY <1>2, <1>3 DEF VoiceIInv, Voice!EngineHears, VoiceWithin, Voice!shared
<1>10. Voice!TextAtHome'
  BY <1>1, <1>3, VoiceBoxFacts DEF VoiceIInv, Voice!TextAtHome, VoiceWithin
<1> QED
  BY <1>4, <1>5, <1>6, <1>7, <1>8, <1>9, <1>10 DEF VoiceIInv

VoiceMoved(w, pc) == w \in VoiceWorkerRec(Len(job)) /\ w.pc = pc /\ w.task = transcriber.task

LEMMA VoiceGoFacts ==
    ASSUME Voice!TypeOK, NEW pc \in VoiceRunning, NEW code \in Voice!Codes, NEW verified \in BOOLEAN
    PROVE  /\ VoiceMoved([transcriber EXCEPT !.pc = pc], pc)
           /\ VoiceMoved([transcriber EXCEPT !.pc = pc, !.code = code], pc)
           /\ VoiceMoved([transcriber EXCEPT !.pc = pc, !.verified = verified], pc)
BY VoiceTypeFacts DEF VoiceWorkerRec, VoiceMoved

(* Two thirds of the worker's steps are of this kind.                      *)
LEMMA VoiceWithinSteps ==
    ASSUME VoiceIInv,
           \/ Voice!Begin \/ Voice!VerifyModel \/ Voice!Choose \/ Voice!DownloadModel \/ Voice!VerifyDownload
           \/ Voice!DecodeSource \/ Voice!DecodeUnverified \/ Voice!CreateEngine \/ Voice!PublishEngine
           \/ Voice!Transcribe \/ Voice!ResetEngine \/ Voice!CatchFailure
    PROVE  VoiceWithin
<1>1. Voice!TypeOK /\ job \in Seq(VoiceJobRec) /\ transcriber \in VoiceWorkerRec(Len(job)) /\ model \in BOOLEAN
  BY VoiceTypeFacts DEF VoiceIInv, Voice!TypeOK
<1>2. \A pc \in VoiceRunning, code \in Voice!Codes, verified \in BOOLEAN :
         /\ Voice!Go(pc) => VoiceMoved(transcriber', pc)
         /\ transcriber' = [transcriber EXCEPT !.pc = pc, !.code = code] => VoiceMoved(transcriber', pc)
         /\ transcriber' = [transcriber EXCEPT !.pc = pc, !.verified = verified] => VoiceMoved(transcriber', pc)
  <2> SUFFICES ASSUME NEW pc \in VoiceRunning, NEW code \in Voice!Codes, NEW verified \in BOOLEAN
               PROVE  /\ Voice!Go(pc) => VoiceMoved(transcriber', pc)
                      /\ transcriber' = [transcriber EXCEPT !.pc = pc, !.code = code] => VoiceMoved(transcriber', pc)
                      /\ transcriber' = [transcriber EXCEPT !.pc = pc, !.verified = verified] => VoiceMoved(transcriber', pc)
    OBVIOUS
  <2>1. /\ VoiceMoved([transcriber EXCEPT !.pc = pc], pc)
        /\ VoiceMoved([transcriber EXCEPT !.pc = pc, !.code = code], pc)
        /\ VoiceMoved([transcriber EXCEPT !.pc = pc, !.verified = verified], pc)
    BY <1>1, VoiceGoFacts
  <2> QED
    BY <2>1, Zenon DEF Voice!Go
<1>3. \A pc \in VoiceRunning, then \in VoiceRunning : Voice!Attempt(pc, then) => VoiceWithin
  BY <1>1, <1>2 DEF VoiceMoved, Voice!Attempt, Voice!At, VoiceWithin, VoiceRunning, Voice!Codes
<1>4. \A pc \in VoiceRunning, then \in VoiceRunning : Voice!Verify(pc, then) => VoiceWithin
  <2> SUFFICES ASSUME NEW pc \in VoiceRunning, NEW then \in VoiceRunning, Voice!Verify(pc, then) PROVE VoiceWithin
    OBVIOUS
  <2>1. (model /\ ~Voice!Cancelled) \in BOOLEAN
    OBVIOUS
  <2>2. VoiceMoved(transcriber', then)
    BY <1>2, <2>1, Zenon DEF Voice!Verify, Voice!Codes
  <2> QED
    BY <1>1, <2>2, Zenon DEF VoiceMoved, Voice!Verify, Voice!At, VoiceWithin
<1>5. Voice!Choose => VoiceWithin
  BY <1>1, <1>2 DEF VoiceMoved, Voice!Choose, Voice!At, VoiceWithin, VoiceRunning, Voice!Codes
<1>6. Voice!DownloadModel \/ Voice!DecodeUnverified \/ Voice!Transcribe => VoiceWithin
  BY <1>1, <1>2 DEF VoiceMoved, Voice!DownloadModel, Voice!DecodeUnverified, Voice!Transcribe,
     Voice!At, VoiceWithin, VoiceRunning, Voice!Codes, Voice!shared
<1>7. Voice!PublishEngine => VoiceWithin
  <2> SUFFICES ASSUME Voice!PublishEngine PROVE VoiceWithin
    OBVIOUS
  <2> DEFINE e == IF job[transcriber.task].cancel THEN "cancelled" ELSE "live"
  <2>1. transcriber.pc \in VoiceRunning /\ transcriber' \in VoiceWorkerRec(Len(job))
        /\ transcriber'.pc \in VoiceRunning /\ transcriber'.task = transcriber.task
    BY <1>2 DEF VoiceMoved, Voice!PublishEngine, Voice!At, VoiceRunning, Voice!Codes
  <2>2. job' = [job EXCEPT ![transcriber.task] = VoiceEngineSet(transcriber.task, e)]
    BY DEF Voice!PublishEngine, Voice!EnginePublished, VoiceEngineSet
  <2>3. e \in {"none", "live", "cancelled"} /\ (e = "live" => ~job[transcriber.task].cancel)
    OBVIOUS
  <2> QED
    BY <1>1, <2>1, <2>2, <2>3 DEF Voice!PublishEngine, VoiceWithin
<1>8. Voice!ResetEngine \/ Voice!CatchFailure => VoiceWithin
  <2> SUFFICES ASSUME Voice!ResetEngine \/ Voice!CatchFailure PROVE VoiceWithin
    OBVIOUS
  <2>1. transcriber.pc \in VoiceRunning /\ transcriber' \in VoiceWorkerRec(Len(job))
        /\ transcriber'.pc \in VoiceRunning /\ transcriber'.task = transcriber.task
    BY <1>2 DEF VoiceMoved, Voice!ResetEngine, Voice!CatchFailure, Voice!At, VoiceRunning,
       Voice!Codes
  <2>2. job' = [job EXCEPT ![transcriber.task] = VoiceEngineSet(transcriber.task, "none")]
    BY <1>1 DEF Voice!ResetEngine, Voice!CatchFailure, Voice!WithoutEngine, VoiceEngineSet
  <2> QED
    BY <1>1, <2>1, <2>2 DEF Voice!ResetEngine, Voice!CatchFailure, VoiceWithin
<1> QED
  BY <1>3, <1>4, <1>5, <1>6, <1>7, <1>8 DEF Voice!Begin, Voice!VerifyModel,
     Voice!VerifyDownload, Voice!DecodeSource, Voice!CreateEngine, VoiceRunning

----------------------------------------------------------------------------
(* The worker thread, between jobs *)

LEMMA VoiceWorkerTypes ==
    ASSUME Voice!TypeOK, UNCHANGED <<job, box, valid, screen, leaving, open, model>>,
           transcriber' \in VoiceWorkerRec(Len(job)), results' \in Seq([job: Voice!Jobs, code: Voice!Codes]),
           current' \in 0..Len(job), next' \in {0, current'}
    PROVE  Voice!TypeOK'
<1>1. /\ box' \in [Boxes -> VoiceBoxRec(Len(job'))] /\ job' \in Seq(VoiceJobRec)
      /\ transcriber' \in VoiceWorkerRec(Len(job')) /\ current' \in 0..Len(job')
      /\ results' \in Seq([job: Voice!Jobs', code: Voice!Codes])
  BY VoiceTypeFacts DEF Voice!Jobs
<1>2. /\ screen' \in [pc: {"idle", "clear", "stop", "halt", "join", "gone"}, box: Boxes]
      /\ valid' \subseteq Boxes /\ leaving' \in BOOLEAN /\ open' \in BOOLEAN /\ model' \in BOOLEAN
  BY DEF Voice!TypeOK
<1> QED
  BY <1>1, <1>2, VoiceTypeAgain

LEMMA VoiceTakeKeeps == ASSUME VoiceIInv, Voice!Take PROVE VoiceIInv'
<1> USE VoiceTypeFacts
<1>1. Voice!TypeOK /\ transcriber.pc = "wait" /\ next = current /\ UNCHANGED job /\ VoiceTouched
  BY DEF VoiceIInv, VoiceWorkerInv, Voice!Take, Voice!At, VoiceTouched
<1>2. CASE next # 0
  <2>1. transcriber' = [Voice!Idle EXCEPT !.pc = "begin", !.task = next] /\ next' = 0
    BY <1>2 DEF Voice!Take, Voice!At, Voice!Go
  <2>2. transcriber'.pc = "begin" /\ transcriber'.task = current /\ transcriber' \in VoiceWorkerRec(Len(job))
    BY <1>1, <2>1 DEF Voice!Idle, VoiceWorkerRec, VoiceRunning, Voice!Codes
  <2>3. current \in Voice!Jobs
    BY <1>1, <1>2 DEF Voice!Jobs
  <2>4. Voice!TypeOK'
    BY <1>1, <2>1, <2>2, VoiceWorkerTypes DEF Voice!Take
  <2>5. VoiceWorkerInv'
    BY <2>1, <2>2, <2>3 DEF VoiceWorkerInv, Voice!Take, VoiceRunning, VoiceEnding, Voice!Jobs
  <2>6. VoiceFlightInv' /\ VoiceOnceInv' /\ VoiceBoxInv'
    BY <2>2 DEF VoiceIInv, VoiceFlightInv, VoiceOnceInv, VoiceBoxInv, VoiceInFlight,
       Voice!Take, VoiceEnding, Voice!Jobs
  <2> QED
    BY <2>4, <2>5, <2>6 DEF VoiceIInv, Voice!EngineHears, Voice!TextAtHome, Voice!Take,
       Voice!Jobs
<1>3. CASE next = 0
  <2>1. transcriber' = [transcriber EXCEPT !.pc = "ended"] /\ next' = next
    BY <1>3 DEF Voice!Take, Voice!At, Voice!Go
  <2>2. transcriber'.pc = "ended" /\ transcriber' \in VoiceWorkerRec(Len(job))
    BY <1>1, <2>1 DEF VoiceWorkerRec
  <2>4. Voice!TypeOK'
    BY <1>1, <2>1, <2>2, VoiceWorkerTypes DEF Voice!Take
  <2>5. VoiceWorkerInv'
    BY <2>1, <2>2 DEF VoiceWorkerInv, VoiceRunning, VoiceEnding
  <2>6. VoiceFlightInv' /\ VoiceOnceInv' /\ VoiceBoxInv'
    BY <2>2 DEF VoiceIInv, VoiceFlightInv, VoiceOnceInv, VoiceBoxInv, VoiceInFlight,
       Voice!Take, VoiceEnding, Voice!Jobs
  <2> QED
    BY <2>4, <2>5, <2>6 DEF VoiceIInv, Voice!EngineHears, Voice!TextAtHome, Voice!Take,
       Voice!Jobs
<1> QED
  BY <1>2, <1>3

LEMMA VoiceReleaseKeeps == ASSUME VoiceIInv, Voice!Release PROVE VoiceIInv'
<1> USE VoiceTypeFacts
<1>1. /\ Voice!TypeOK /\ transcriber.pc = "release" /\ screen.pc # "halt" /\ UNCHANGED job
      /\ transcriber.task \in Voice!Jobs /\ current = transcriber.task /\ next = 0
  BY DEF VoiceIInv, VoiceWorkerInv, Voice!Release, Voice!At, VoiceRunning, Voice!WorkerMutexFree
<1>2. /\ transcriber'.pc = "check" /\ transcriber'.task = transcriber.task /\ transcriber' \in VoiceWorkerRec(Len(job))
      /\ current' = 0 /\ next' = 0
  BY <1>1 DEF Voice!Release, Voice!Go, VoiceWorkerRec, VoiceEnding
<1>3. Voice!TypeOK'
  BY <1>1, <1>2, VoiceWorkerTypes DEF Voice!Release
<1>4. VoiceWorkerInv'
  BY <1>1, <1>2 DEF VoiceWorkerInv, VoiceRunning, VoiceEnding, Voice!Jobs
<1>5. VoiceFlightInv'
  <2>1. \A j \in Voice!Jobs : VoiceInFlight(j)' => VoiceInFlight(j)
    BY <1>1, <1>2 DEF VoiceInFlight, Voice!Release, VoiceEnding, Voice!Jobs
  <2> QED
    BY <1>1, <2>1 DEF VoiceIInv, VoiceFlightInv, Voice!Release, Voice!Jobs
<1>6. VoiceOnceInv'
  BY <1>1, <1>2 DEF VoiceIInv, VoiceOnceInv, Voice!Release, Voice!Jobs
<1> QED
  BY <1>1, <1>3, <1>4, <1>5, <1>6 DEF VoiceIInv, VoiceBoxInv, Voice!EngineHears,
     Voice!TextAtHome, Voice!Release, Voice!Jobs

LEMMA VoiceCheckKeeps == ASSUME VoiceIInv, Voice!CheckAlive PROVE VoiceIInv'
<1> USE VoiceTypeFacts
<1>1. /\ Voice!TypeOK /\ transcriber.pc = "check" /\ UNCHANGED job
      /\ transcriber.task \in Voice!Jobs /\ current # transcriber.task /\ next = current
  BY DEF VoiceIInv, VoiceWorkerInv, Voice!CheckAlive, Voice!At, VoiceEnding
<1>2. /\ transcriber' \in VoiceWorkerRec(Len(job))
      /\ \/ transcriber'.pc = "post" /\ transcriber'.task = transcriber.task
         \/ transcriber'.pc = "wait"
  BY <1>1 DEF Voice!CheckAlive, Voice!Idle, VoiceWorkerRec, VoiceEnding, Voice!Codes
<1>3. Voice!TypeOK'
  BY <1>1, <1>2, VoiceWorkerTypes DEF Voice!CheckAlive, Voice!shared
<1>4. VoiceWorkerInv'
  BY <1>1, <1>2 DEF VoiceWorkerInv, Voice!CheckAlive, Voice!shared, VoiceRunning, VoiceEnding,
     Voice!Jobs
<1>5. VoiceFlightInv' /\ VoiceOnceInv'
  BY <1>1, <1>2 DEF VoiceIInv, VoiceFlightInv, VoiceOnceInv, VoiceInFlight, Voice!CheckAlive,
     Voice!shared, VoiceEnding, Voice!Jobs
<1> QED
  BY <1>1, <1>3, <1>4, <1>5 DEF VoiceIInv, VoiceBoxInv, Voice!EngineHears, Voice!TextAtHome,
     Voice!CheckAlive, Voice!shared, Voice!Jobs

LEMMA VoicePostKeeps == ASSUME VoiceIInv, Voice!PostResult PROVE VoiceIInv'
<1> USE VoiceTypeFacts
<1> DEFINE m == [job |-> transcriber.task, code |-> transcriber.code]
<1>1. /\ Voice!TypeOK /\ transcriber.pc = "post" /\ UNCHANGED <<job, Voice!shared>>
      /\ transcriber.task \in Voice!Jobs /\ current # transcriber.task /\ next = current
  BY DEF VoiceIInv, VoiceWorkerInv, Voice!PostResult, Voice!At, VoiceEnding
<1>2. transcriber' = Voice!Idle /\ transcriber'.pc = "wait" /\ transcriber' \in VoiceWorkerRec(Len(job))
  BY <1>1 DEF Voice!PostResult, Voice!Idle, VoiceWorkerRec, Voice!Codes
<1>3. m \in [job: Voice!Jobs, code: Voice!Codes] /\ m.job = transcriber.task
  BY <1>1 DEF VoiceWorkerRec
<1>4. results' = Append(results, m)
  BY DEF Voice!PostResult
<1> HIDE DEF m
<1>5. /\ results' \in Seq([job: Voice!Jobs, code: Voice!Codes]) /\ Len(results') = Len(results) + 1
      /\ \A i \in 1..Len(results) : results'[i] = results[i]
      /\ results'[Len(results) + 1] = m
  BY <1>1, <1>3, <1>4, AppendProperties
<1>5a. \A i \in 1..Len(results') :
           \/ i \in 1..Len(results) /\ results'[i] = results[i]
           \/ i = Len(results) + 1 /\ results'[i] = m
  BY <1>5
<1>6. Voice!TypeOK'
  BY <1>1, <1>2, <1>5, VoiceWorkerTypes DEF Voice!PostResult, Voice!shared
<1>7. VoiceWorkerInv'
  BY <1>1, <1>2 DEF VoiceWorkerInv, Voice!shared, VoiceRunning, VoiceEnding
<1>8. VoiceFlightInv'
  <2>1. \A j \in Voice!Jobs : VoiceInFlight(j)' => VoiceInFlight(j)
    BY <1>1, <1>2, <1>3, <1>5a DEF VoiceInFlight, Voice!shared, VoiceEnding
  <2> QED
    BY <1>1, <2>1 DEF VoiceIInv, VoiceFlightInv, Voice!PostResult, Voice!Jobs
<1>9. VoiceOnceInv'
  <2>1. \A i \in 1..Len(results) : results[i].job # transcriber.task
    BY <1>1 DEF VoiceIInv, VoiceOnceInv, VoiceEnding
  <2>3. \A i \in 1..Len(results') : results'[i].job # current'
    BY <1>1, <1>3, <1>5a DEF VoiceIInv, VoiceOnceInv, Voice!shared
  <2>4. \A i, k \in 1..Len(results') : results'[i].job = results'[k].job => i = k
    BY <1>3, <1>5a, <2>1 DEF VoiceIInv, VoiceOnceInv
  <2> QED
    BY <1>2, <2>3, <2>4 DEF VoiceOnceInv, VoiceEnding
<1> QED
  BY <1>1, <1>6, <1>7, <1>8, <1>9 DEF VoiceIInv, VoiceBoxInv, Voice!EngineHears,
     Voice!TextAtHome, Voice!PostResult, Voice!shared, Voice!Jobs

----------------------------------------------------------------------------
(* The UI thread *)

VoiceUiRec == [pc: {"idle", "clear", "stop", "halt", "join", "gone"}, box: Boxes]

LEMMA VoiceUiFacts ==
    ASSUME Voice!TypeOK
    PROVE  /\ screen \in VoiceUiRec
           /\ \A pc \in {"idle", "clear", "stop", "halt", "join", "gone"} :
                 LET u == [screen EXCEPT !.pc = pc]
                 IN  u \in VoiceUiRec /\ u.pc = pc /\ u.box = screen.box
BY DEF Voice!TypeOK, VoiceUiRec

(* A step that changes no job, box, message or worker, and at most who is  *)
(* at work on the UI thread.                                               *)
LEMMA VoiceAsideKeeps ==
    ASSUME VoiceIInv, UNCHANGED <<job, box, current, next, transcriber, results>>,
           screen' \in VoiceUiRec, screen.pc \notin {"clear", "halt"},
           valid' \subseteq Boxes, leaving' \in BOOLEAN, open' \in BOOLEAN, model' \in BOOLEAN
    PROVE  VoiceIInv'
<1>1. VoiceTouched
  BY DEF VoiceTouched
<1>2. VoiceWorkerInv' /\ VoiceBoxInv' /\ VoiceFlightInv' /\ VoiceOnceInv'
  BY <1>1, VoiceTouchKeeps
<1>3. Voice!TypeOK'
  <2>1. box' \in [Boxes -> VoiceBoxRec(Len(job))] /\ transcriber' \in VoiceWorkerRec(Len(job))
    BY VoiceTypeFacts DEF VoiceIInv
  <2> QED
    BY <1>1, <2>1, VoiceTouchTypes DEF VoiceIInv, VoiceUiRec
<1>4. Voice!EngineHears' /\ Voice!TextAtHome'
  BY DEF VoiceIInv, Voice!EngineHears, Voice!TextAtHome, Voice!Jobs
<1> QED
  BY <1>2, <1>3, <1>4 DEF VoiceIInv

LEMMA VoiceAsideSteps ==
    ASSUME VoiceIInv, (\E b \in Boxes : Voice!Invalidate(b)) \/ Voice!Destroy \/ Voice!Join
    PROVE  VoiceIInv'
<1> USE VoiceUiFacts DEF VoiceUiRec, Voice!shared
<1>1. Voice!TypeOK
  BY DEF VoiceIInv
<1>2. ASSUME NEW b \in Boxes, Voice!Invalidate(b) PROVE VoiceIInv'
  BY <1>1, <1>2, VoiceAsideKeeps DEF Voice!Invalidate, Voice!TypeOK
<1>3. ASSUME Voice!Destroy PROVE VoiceIInv'
  BY <1>1, <1>3, VoiceAsideKeeps DEF Voice!Destroy, Voice!TypeOK
<1>4. ASSUME Voice!Join PROVE VoiceIInv'
  BY <1>1, <1>4, VoiceAsideKeeps DEF Voice!Join, Voice!TypeOK
<1> QED
  BY <1>2, <1>3, <1>4

(* One box changes. *)
VoiceBoxChange(b, r) == r \in VoiceBoxRec(Len(job)) /\ box' = [box EXCEPT ![b] = r]

LEMMA VoiceBoxChanged ==
    ASSUME Voice!TypeOK, NEW b \in Boxes, NEW r, VoiceBoxChange(b, r)
    PROVE  /\ box' \in [Boxes -> VoiceBoxRec(Len(job))]
           /\ box'[b] = r /\ \A c \in Boxes : c # b => box'[c] = box[c]
BY VoiceTypeFacts DEF VoiceBoxChange

VoiceUntexted(b) == [box[b] EXCEPT !.text = 0]

VoiceAsking(b, n) == [box[b] EXCEPT !.text = 0, !.job = n, !.pending = TRUE]

LEMMA VoiceBoxForms ==
    ASSUME Voice!TypeOK, NEW b \in Boxes
    PROVE  /\ LET r == VoiceUntexted(b)
              IN  /\ r \in VoiceBoxRec(Len(job)) /\ r.state = box[b].state /\ r.job = box[b].job
                  /\ r.text = 0 /\ r.pending = box[b].pending
           /\ LET r == VoiceAsking(b, Len(job) + 1)
              IN  /\ r \in VoiceBoxRec(Len(job) + 1) /\ r.state = box[b].state
                  /\ r.job = Len(job) + 1 /\ r.text = 0 /\ r.pending = TRUE
<1>1. box[b] \in VoiceBoxRec(Len(job)) /\ Len(job) \in Nat
  BY VoiceTypeFacts
<1>2. 0 \in 0..Len(job) /\ 0..Len(job) \subseteq 0..Len(job) + 1 /\ Len(job) + 1 \in 0..Len(job) + 1
      /\ 0 \in 0..Len(job) + 1
  BY <1>1
<1> QED
  BY <1>1, <1>2, Zenon DEF VoiceBoxRec, VoiceUntexted, VoiceAsking

LEMMA VoiceOpenKeeps == ASSUME VoiceIInv, NEW b \in Boxes, Voice!Open(b) PROVE VoiceIInv'
<1> USE VoiceTypeFacts
<1> DEFINE r == [box[b] EXCEPT !.state = "open"]
<1>1. /\ Voice!TypeOK /\ screen.pc = "idle" /\ UNCHANGED <<valid, screen, job, Voice!shared, transcriber, model, results>>
      /\ box' = [box EXCEPT ![b] = r]
  BY DEF VoiceIInv, Voice!Open
<1>2. /\ r \in VoiceBoxRec(Len(job)) /\ r.state = "open" /\ r.pending = box[b].pending
      /\ r.job = box[b].job /\ r.text = box[b].text
  BY <1>1 DEF VoiceBoxRec
<1> HIDE DEF r
<1>3. /\ box' \in [Boxes -> VoiceBoxRec(Len(job))]
      /\ box'[b] = r /\ \A c \in Boxes : c # b => box'[c] = box[c]
  BY <1>1, <1>2, VoiceBoxChanged DEF VoiceBoxChange
<1>4. VoiceTouched
  BY <1>1 DEF VoiceTouched
<1>5. Voice!TypeOK'
  BY <1>1, <1>3, <1>4, VoiceTouchTypes DEF Voice!TypeOK, Voice!shared
<1>6. VoiceWorkerInv' /\ VoiceOnceInv'
  BY <1>1 DEF VoiceIInv, VoiceWorkerInv, VoiceOnceInv, Voice!shared, Voice!Jobs
<1>7. VoiceBoxInv'
  BY <1>1, <1>2, <1>3 DEF VoiceIInv, VoiceBoxInv, Voice!Jobs
<1>8. VoiceFlightInv'
  <2>1. \A j \in Voice!Jobs : job[j].box \in Boxes
    BY <1>1 DEF VoiceJobRec
  <2> QED
    BY <1>1, <1>2, <1>3, <2>1 DEF VoiceIInv, VoiceFlightInv, VoiceInFlight, Voice!shared,
       Voice!Jobs
<1>9. Voice!EngineHears'
  BY <1>1 DEF VoiceIInv, Voice!EngineHears, Voice!shared, Voice!Jobs
<1>10. Voice!TextAtHome'
  BY <1>1, <1>2, <1>3 DEF VoiceIInv, Voice!TextAtHome, Voice!Jobs
<1> QED
  BY <1>5, <1>6, <1>7, <1>8, <1>9, <1>10 DEF VoiceIInv

LEMMA VoiceStopKeeps == ASSUME VoiceIInv, Voice!StopCurrent PROVE VoiceIInv'
<1> USE VoiceTypeFacts
<1>1. /\ Voice!TypeOK /\ screen.pc = "stop" /\ screen' \in VoiceUiRec /\ screen'.pc = "halt"
      /\ UNCHANGED <<box, valid, current, next, open, transcriber, model, results>>
      /\ leaving' = TRUE
  BY VoiceUiFacts DEF VoiceIInv, Voice!StopCurrent
<1>2. VoiceTouched /\ \A j \in Voice!Jobs : j # current => UNCHANGED job[j]
  <2>1. CASE current = 0
    BY <2>1 DEF Voice!StopCurrent, VoiceTouched
  <2>2. CASE current # 0
    <3>1. current \in Voice!Jobs /\ Voice!CancelFlag(current)
      BY <1>1, <2>2 DEF Voice!StopCurrent, Voice!Jobs
    <3>2. VoiceTouch(current, [job[current] EXCEPT !.cancel = TRUE])
          /\ [job[current] EXCEPT !.cancel = TRUE] \in VoiceJobRec
      BY <1>1, <3>1, VoiceFlagTouches
    <3>3. VoiceTouched
      BY <3>1, <3>2 DEF VoiceTouched
    <3> QED
      BY <1>1, <3>1, <3>2, <3>3, VoiceTouchFacts
  <2> QED
    BY <2>1, <2>2
<1>3. Voice!Jobs' = Voice!Jobs /\ Len(job') = Len(job) /\ \A k \in Voice!Jobs : job'[k].box = job[k].box
  BY <1>1, <1>2, VoiceTouchFacts
<1>4. VoiceWorkerInv' /\ VoiceBoxInv' /\ VoiceFlightInv' /\ VoiceOnceInv'
  BY <1>1, <1>2, VoiceTouchKeeps
<1>5. Voice!TypeOK'
  BY <1>1, <1>2, VoiceTouchTypes DEF Voice!TypeOK, VoiceUiRec
<1>6. Voice!EngineHears'
  BY <1>1, <1>2, <1>3 DEF VoiceIInv, Voice!EngineHears
<1>7. Voice!TextAtHome'
  BY <1>1, <1>3, VoiceBoxFacts DEF VoiceIInv, Voice!TextAtHome
<1> QED
  BY <1>4, <1>5, <1>6, <1>7 DEF VoiceIInv

(* An engine that is cancelled is not live.                                *)
LEMMA VoiceCancelledEngine ==
    ASSUME Voice!TypeOK, NEW j \in Voice!Jobs, Voice!CancelEngine(j)
    PROVE  VoiceTouched /\ job'[j].engine # "live" /\ \A k \in Voice!Jobs : k # j => job'[k] = job[k]
<1> DEFINE e == IF job[j].engine = "none" THEN "none" ELSE "cancelled"
<1>1. job' = [job EXCEPT ![j] = VoiceEngineSet(j, e)] /\ e \in {"none", "live", "cancelled"}
  BY DEF Voice!CancelEngine, VoiceEngineSet
<1>2. e # "live"
  OBVIOUS
<1> HIDE DEF e
<1>3. VoiceTouch(j, VoiceEngineSet(j, e)) /\ VoiceEngineSet(j, e) \in VoiceJobRec /\ VoiceEngineSet(j, e).engine = e
  BY <1>1, VoiceEngineTouches
<1>4. VoiceTouched
  BY <1>3 DEF VoiceTouched
<1> QED
  BY <1>2, <1>3, <1>4, VoiceTouchFacts

LEMMA VoiceHaltKeeps == ASSUME VoiceIInv, Voice!HaltCurrent PROVE VoiceIInv'
<1> USE VoiceTypeFacts
<1>1. /\ Voice!TypeOK /\ screen.pc = "halt" /\ screen' \in VoiceUiRec /\ screen'.pc = "join"
      /\ UNCHANGED <<box, valid, Voice!shared, transcriber, model, results>>
  BY VoiceUiFacts DEF VoiceIInv, Voice!HaltCurrent
<1>2. /\ VoiceTouched /\ \A j \in Voice!Jobs : j # current => UNCHANGED job[j]
      /\ current \in Voice!Jobs => job'[current].engine # "live"
  <2>1. CASE current = 0
    BY <1>1, <2>1 DEF Voice!HaltCurrent, VoiceTouched, Voice!Jobs
  <2>2. CASE current # 0
    <3>1. current \in Voice!Jobs /\ Voice!CancelEngine(current)
      BY <1>1, <2>2 DEF Voice!HaltCurrent, Voice!Jobs
    <3> QED
      BY <1>1, <3>1, VoiceCancelledEngine
  <2> QED
    BY <2>1, <2>2
<1>3. Voice!Jobs' = Voice!Jobs /\ Len(job') = Len(job) /\ \A k \in Voice!Jobs : job'[k].box = job[k].box
  BY <1>1, <1>2, VoiceTouchFacts
<1>4. VoiceWorkerInv' /\ VoiceBoxInv' /\ VoiceFlightInv' /\ VoiceOnceInv'
  BY <1>1, <1>2, VoiceTouchKeeps DEF Voice!shared
<1>5. Voice!TypeOK'
  BY <1>1, <1>2, VoiceTouchTypes DEF Voice!TypeOK, VoiceUiRec, Voice!shared
<1>6. Voice!EngineHears'
  BY <1>1, <1>2, <1>3 DEF VoiceIInv, Voice!EngineHears
<1>7. Voice!TextAtHome'
  BY <1>1, <1>3, VoiceBoxFacts DEF VoiceIInv, Voice!TextAtHome
<1> QED
  BY <1>4, <1>5, <1>6, <1>7 DEF VoiceIInv

LEMMA VoiceCloseKeeps == ASSUME VoiceIInv, NEW b \in Boxes, Voice!Close(b) PROVE VoiceIInv'
<1> USE VoiceTypeFacts
<1> DEFINE r == [box[b] EXCEPT !.state = "closed"]
<1>1. /\ Voice!TypeOK /\ screen.pc = "idle" /\ screen' \in VoiceUiRec /\ screen'.pc = "clear" /\ screen'.box = b
      /\ UNCHANGED <<valid, Voice!shared, transcriber, model, results>>
      /\ box[b].state = "open" /\ box' = [box EXCEPT ![b] = r]
  BY DEF VoiceIInv, Voice!Close, VoiceUiRec
<1>2. /\ r \in VoiceBoxRec(Len(job)) /\ r.state = "closed" /\ r.pending = box[b].pending
      /\ r.job = box[b].job /\ r.text = box[b].text
  BY <1>1 DEF VoiceBoxRec
<1> HIDE DEF r
<1>3. /\ box' \in [Boxes -> VoiceBoxRec(Len(job))]
      /\ box'[b] = r /\ \A c \in Boxes : c # b => box'[c] = box[c]
  BY <1>1, <1>2, VoiceBoxChanged DEF VoiceBoxChange
<1>4. /\ VoiceTouched /\ \A j \in Voice!Jobs : j # box[b].job => UNCHANGED job[j]
      /\ box[b].job # 0 => job'[box[b].job].cancel
  <2>1. CASE box[b].job = 0
    BY <2>1 DEF Voice!Close, VoiceTouched
  <2>2. CASE box[b].job # 0
    <3> DEFINE j == box[b].job
    <3>1. j \in Voice!Jobs /\ Voice!CancelFlag(j)
      BY <1>1, <2>2, VoiceBoxFacts DEF Voice!Close
    <3> HIDE DEF j
    <3>2. VoiceTouch(j, [job[j] EXCEPT !.cancel = TRUE]) /\ [job[j] EXCEPT !.cancel = TRUE] \in VoiceJobRec
      BY <1>1, <3>1, VoiceFlagTouches
    <3>3. VoiceTouched
      BY <3>1, <3>2 DEF VoiceTouched
    <3>4. job'[j] = [job[j] EXCEPT !.cancel = TRUE] /\ \A k \in Voice!Jobs : k # j => job'[k] = job[k]
      BY <1>1, <3>1, <3>2, <3>3, VoiceTouchFacts
    <3>5. job'[j].cancel
      BY <1>1, <3>1, <3>4 DEF VoiceJobRec
    <3> QED
      BY <3>3, <3>4, <3>5 DEF j
  <2> QED
    BY <2>1, <2>2
<1>5. /\ Voice!Jobs' = Voice!Jobs /\ Len(job') = Len(job)
      /\ \A k \in Voice!Jobs : job'[k].box = job[k].box /\ (job[k].cancel => job'[k].cancel)
  BY <1>1, <1>4, VoiceTouchFacts
<1>6. Voice!TypeOK'
  BY <1>1, <1>3, <1>4, VoiceTouchTypes DEF Voice!TypeOK, VoiceUiRec, Voice!shared
<1>7. VoiceWorkerInv' /\ VoiceOnceInv'
  BY <1>1, <1>5 DEF VoiceIInv, VoiceWorkerInv, VoiceOnceInv, Voice!shared
<1>8. VoiceBoxInv'
  <2>1. \A c \in Boxes : (box'[c].pending <=> box[c].pending) /\ box'[c].job = box[c].job
    BY <1>2, <1>3
  <2> QED
    BY <1>5, <2>1 DEF VoiceIInv, VoiceBoxInv
<1>9. VoiceFlightInv'
  <2>1. \A j \in Voice!Jobs : job[j].box \in Boxes /\ (VoiceInFlight(j)' => VoiceInFlight(j))
    BY <1>1 DEF VoiceJobRec, VoiceInFlight, Voice!shared
  <2>2. SUFFICES ASSUME NEW j \in Voice!Jobs, VoiceInFlight(j)
                 PROVE  /\ box'[job[j].box].pending /\ box'[job[j].box].job = j
                        /\ box'[job[j].box].state = "closed" => job'[j].cancel
    BY <1>5, <2>1 DEF VoiceFlightInv
  <2>3. /\ box[job[j].box].pending /\ box[job[j].box].job = j
        /\ box[job[j].box].state = "closed" => job[j].cancel
    BY <2>2 DEF VoiceIInv, VoiceFlightInv
  <2>4. CASE job[j].box = b
    BY <1>2, <1>3, <1>4, <2>3, <2>4 DEF Voice!Jobs
  <2>5. CASE job[j].box # b
    BY <1>3, <1>5, <2>1, <2>3, <2>5
  <2> QED
    BY <2>4, <2>5
<1>10. Voice!EngineHears'
  BY <1>1, <1>2, <1>3, <1>4, <1>5 DEF VoiceIInv, Voice!EngineHears
<1>11. Voice!TextAtHome'
  <2>1. ASSUME NEW c \in Boxes, box[c].text # 0
        PROVE  /\ job'[box[c].text].box = c /\ ~box[c].pending /\ box[c].state = "open"
               /\ \A j \in Voice!Jobs : job'[j].box = c => j <= box[c].text
    <3>1. box[c].text \in Voice!Jobs
      BY <1>1, <2>1, VoiceBoxFacts
    <3>2. /\ job[box[c].text].box = c /\ ~box[c].pending /\ box[c].state = "open"
          /\ \A j \in Voice!Jobs : job[j].box = c => j <= box[c].text
      BY <1>1, <2>1 DEF VoiceIInv, Voice!TextAtHome
    <3> QED
      BY <1>5, <3>1, <3>2
  <2>2. \A c \in Boxes : /\ box'[c].text = box[c].text /\ (box'[c].pending <=> box[c].pending)
                         /\ c # b => box'[c].state = box[c].state
    BY <1>2, <1>3
  <2> QED
    BY <1>1, <1>5, <2>1, <2>2 DEF Voice!TextAtHome
<1> QED
  BY <1>6, <1>7, <1>8, <1>9, <1>10, <1>11 DEF VoiceIInv

LEMMA VoiceClearKeeps == ASSUME VoiceIInv, Voice!Clear PROVE VoiceIInv'
<1> USE VoiceTypeFacts
<1> DEFINE b == screen.box
           r == VoiceUntexted(b)
<1>1. /\ Voice!TypeOK /\ b \in Boxes /\ screen.pc = "clear" /\ screen' \in VoiceUiRec /\ screen'.pc = "idle"
      /\ UNCHANGED <<valid, Voice!shared, transcriber, model, results>>
      /\ box' = [box EXCEPT ![b] = r]
  BY VoiceUiFacts DEF VoiceIInv, Voice!Clear, VoiceUntexted
<1>2. /\ r \in VoiceBoxRec(Len(job)) /\ r.state = box[b].state /\ r.pending = box[b].pending
      /\ r.job = box[b].job /\ r.text = 0
  BY <1>1, VoiceBoxForms
<1> HIDE DEF r
<1>3. /\ box' \in [Boxes -> VoiceBoxRec(Len(job))]
      /\ box'[b] = r /\ \A c \in Boxes : c # b => box'[c] = box[c]
  BY <1>1, <1>2, VoiceBoxChanged DEF VoiceBoxChange
<1>4. /\ VoiceTouched /\ \A j \in Voice!Jobs : j # box[b].job => UNCHANGED job[j]
      /\ box[b].job # 0 => job'[box[b].job].engine # "live"
  <2>1. CASE box[b].job = 0
    BY <2>1 DEF Voice!Clear, VoiceTouched
  <2>2. CASE box[b].job # 0
    <3>1. box[b].job \in Voice!Jobs /\ Voice!CancelEngine(box[b].job)
      BY <1>1, <2>2, VoiceBoxFacts DEF Voice!Clear
    <3> QED
      BY <1>1, <3>1, VoiceCancelledEngine
  <2> QED
    BY <2>1, <2>2
<1>5. /\ Voice!Jobs' = Voice!Jobs /\ Len(job') = Len(job)
      /\ \A k \in Voice!Jobs : job'[k].box = job[k].box /\ (job[k].cancel => job'[k].cancel)
  BY <1>1, <1>4, VoiceTouchFacts
<1>6. Voice!TypeOK'
  BY <1>1, <1>3, <1>4, VoiceTouchTypes DEF Voice!TypeOK, VoiceUiRec, Voice!shared
<1>7. VoiceWorkerInv' /\ VoiceOnceInv'
  BY <1>1, <1>5 DEF VoiceIInv, VoiceWorkerInv, VoiceOnceInv, Voice!shared
<1>8. VoiceBoxInv'
  BY <1>2, <1>3, <1>5 DEF VoiceIInv, VoiceBoxInv
<1>9. VoiceFlightInv'
  <2>1. \A j \in Voice!Jobs : job[j].box \in Boxes /\ (VoiceInFlight(j)' => VoiceInFlight(j))
    BY <1>1 DEF VoiceJobRec, VoiceInFlight, Voice!shared
  <2>2. \A c \in Boxes : box'[c].pending = box[c].pending /\ box'[c].job = box[c].job
                         /\ box'[c].state = box[c].state
    BY <1>2, <1>3
  <2> QED
    BY <1>5, <2>1, <2>2 DEF VoiceIInv, VoiceFlightInv
<1>10. Voice!EngineHears'
  BY <1>1, <1>4, <1>5 DEF VoiceIInv, Voice!EngineHears
<1>11. Voice!TextAtHome'
  <2>1. ASSUME NEW c \in Boxes, c # b, box[c].text # 0
        PROVE  /\ job'[box[c].text].box = c /\ ~box[c].pending /\ box[c].state = "open"
               /\ \A j \in Voice!Jobs : job'[j].box = c => j <= box[c].text
    <3>1. box[c].text \in Voice!Jobs
      BY <1>1, <2>1, VoiceBoxFacts
    <3>2. /\ job[box[c].text].box = c /\ ~box[c].pending /\ box[c].state = "open"
          /\ \A j \in Voice!Jobs : job[j].box = c => j <= box[c].text
      BY <2>1 DEF VoiceIInv, Voice!TextAtHome
    <3> QED
      BY <1>5, <3>1, <3>2
  <2> QED
    BY <1>2, <1>3, <1>5, <2>1 DEF Voice!TextAtHome
<1> QED
  BY <1>6, <1>7, <1>8, <1>9, <1>10, <1>11 DEF VoiceIInv

LEMMA VoiceStartKeeps == ASSUME VoiceIInv, NEW b \in Boxes, Voice!Start(b) PROVE VoiceIInv'
<1> USE VoiceTypeFacts
<1>0. /\ Voice!TypeOK /\ screen.pc = "idle" /\ box[b].state = "open" /\ ~box[b].pending
      /\ UNCHANGED <<valid, screen, leaving, open, transcriber, model, results>>
  BY DEF VoiceIInv, Voice!Start
<1>1. CASE Voice!Refused
  <2> DEFINE r == VoiceUntexted(b)
  <2>1. box' = [box EXCEPT ![b] = r] /\ UNCHANGED <<job, current, next>>
    BY <1>1 DEF Voice!Start, VoiceUntexted
  <2>2. /\ r \in VoiceBoxRec(Len(job)) /\ r.state = box[b].state /\ r.pending = box[b].pending
        /\ r.job = box[b].job /\ r.text = 0
    BY <1>0, VoiceBoxForms
  <2> HIDE DEF r
  <2>3. /\ box' \in [Boxes -> VoiceBoxRec(Len(job))]
        /\ box'[b] = r /\ \A c \in Boxes : c # b => box'[c] = box[c]
    BY <1>0, <2>1, <2>2, VoiceBoxChanged DEF VoiceBoxChange
  <2>4. VoiceTouched
    BY <2>1 DEF VoiceTouched
  <2>5. Voice!TypeOK'
    BY <1>0, <2>1, <2>3, <2>4, VoiceTouchTypes DEF Voice!TypeOK
  <2>6. VoiceWorkerInv' /\ VoiceOnceInv' /\ Voice!EngineHears'
    BY <1>0, <2>1 DEF VoiceIInv, VoiceWorkerInv, VoiceOnceInv, Voice!EngineHears, Voice!Jobs
  <2>7. VoiceBoxInv' /\ Voice!TextAtHome'
    BY <1>0, <2>1, <2>2, <2>3 DEF VoiceIInv, VoiceBoxInv, Voice!TextAtHome, Voice!Jobs
  <2>8. VoiceFlightInv'
    <3>1. \A j \in Voice!Jobs : job[j].box \in Boxes /\ (VoiceInFlight(j)' => VoiceInFlight(j))
      BY <1>0, <2>1 DEF VoiceJobRec, VoiceInFlight
    <3>2. \A c \in Boxes : box'[c].pending = box[c].pending /\ box'[c].job = box[c].job
                           /\ box'[c].state = box[c].state
      BY <2>2, <2>3
    <3> QED
      BY <2>1, <3>1, <3>2 DEF VoiceIInv, VoiceFlightInv, Voice!Jobs
  <2> QED
    BY <2>5, <2>6, <2>7, <2>8 DEF VoiceIInv
<1>2. CASE ~Voice!Refused
  <2> DEFINE n == Len(job) + 1
             new == [box |-> b, allowed |-> box[b].allowed, cancel |-> FALSE, engine |-> "none"]
             r == VoiceAsking(b, n)
  <2>1. /\ job' = Append(job, new) /\ current' = n /\ next' = n
        /\ box' = [box EXCEPT ![b] = r]
    BY <1>2 DEF Voice!Start, VoiceAsking
  <2>2. current = 0 /\ screen.pc = "idle" /\ next = 0
    BY <1>0, <1>2 DEF Voice!Refused
  <2>3. new \in VoiceJobRec /\ new.box = b /\ new.engine = "none" /\ ~new.cancel
    BY <1>0 DEF VoiceJobRec, VoiceBoxRec
  <2>4. n \in Nat /\ n \notin Voice!Jobs /\ \A j \in Voice!Jobs : j < n
    BY <1>0 DEF Voice!Jobs
  <2>5. /\ r.state = "open" /\ r.pending /\ r.job = n /\ r.text = 0 /\ r \in VoiceBoxRec(n)
    BY <1>0, VoiceBoxForms
  <2> HIDE DEF new, r
  <2>6. /\ job' \in Seq(VoiceJobRec) /\ Len(job') = n /\ job'[n] = new
        /\ \A j \in Voice!Jobs : job'[j] = job[j]
        /\ Voice!Jobs' = Voice!Jobs \cup {n}
    BY <1>0, <2>1, <2>3, AppendProperties DEF Voice!Jobs
  <2> HIDE DEF n
  <2>7. /\ box' \in [Boxes -> VoiceBoxRec(n)]
        /\ box'[b] = r /\ \A c \in Boxes : c # b => box'[c] = box[c]
    BY <1>0, <2>1, <2>5 DEF VoiceBoxRec, n
  <2>8. Voice!TypeOK'
    <3>1. results' \in Seq([job: Voice!Jobs', code: Voice!Codes])
      <4>1. [job: Voice!Jobs, code: Voice!Codes] \subseteq [job: Voice!Jobs', code: Voice!Codes]
        BY <2>6
      <4> QED
        BY <1>0, <4>1, SeqMonotonic
    <3>2. transcriber' \in VoiceWorkerRec(Len(job')) /\ current' \in 0..Len(job') /\ next' \in {0, current'}
      BY <1>0, <2>1, <2>4, <2>6 DEF VoiceWorkerRec, n
    <3>3. /\ screen' \in VoiceUiRec /\ valid' \subseteq Boxes
          /\ leaving' \in BOOLEAN /\ open' \in BOOLEAN /\ model' \in BOOLEAN
      BY <1>0 DEF Voice!TypeOK, VoiceUiRec
    <3> QED
      BY <2>6, <2>7, <3>1, <3>2, <3>3, VoiceTypeAgain DEF VoiceUiRec
  <2>9. transcriber.pc \notin VoiceRunning
    BY <2>2 DEF VoiceIInv, VoiceWorkerInv, Voice!Jobs
  <2>10. VoiceWorkerInv'
    BY <1>0, <2>1, <2>4, <2>6, <2>9 DEF VoiceIInv, VoiceWorkerInv
  <2>11. VoiceBoxInv'
    <3>1. \A c \in Boxes : c # b /\ box'[c].pending =>
            /\ box'[c].job \in Voice!Jobs' /\ job'[box'[c].job].box = c
            /\ \A j \in Voice!Jobs' : job'[j].box = c => j <= box'[c].job
      BY <2>3, <2>6, <2>7 DEF VoiceIInv, VoiceBoxInv
    <3>2. /\ box'[b].job \in Voice!Jobs' /\ job'[box'[b].job].box = b
          /\ \A j \in Voice!Jobs' : j <= box'[b].job
      <4>1. box'[b].job = n /\ job'[n].box = b /\ n \in Voice!Jobs'
        BY <2>3, <2>5, <2>6, <2>7
      <4>2. \A j \in Voice!Jobs' : j <= n
        <5> SUFFICES ASSUME NEW j \in Voice!Jobs' PROVE j <= n
          OBVIOUS
        <5>1. j \in Voice!Jobs \/ j = n
          BY <2>6, Zenon
        <5>2. ASSUME j \in Voice!Jobs PROVE j <= n
          BY <2>4, <5>2 DEF Voice!Jobs
        <5> QED
          BY <2>4, <5>1, <5>2
      <4> QED
        BY <4>1, <4>2
    <3> QED
      BY <3>1, <3>2 DEF VoiceBoxInv
  <2>12. VoiceFlightInv'
    <3>1. \A j \in Voice!Jobs : job[j].box \in Boxes /\ (VoiceInFlight(j)' => VoiceInFlight(j))
      BY <1>0, <2>1, <2>4 DEF VoiceJobRec, VoiceInFlight
    <3>2. ASSUME NEW j \in Voice!Jobs', VoiceInFlight(j)'
          PROVE  /\ box'[job'[j].box].pending /\ box'[job'[j].box].job = j
                 /\ box'[job'[j].box].state = "closed" => job'[j].cancel
      <4>1. CASE j = n
        BY <2>3, <2>5, <2>6, <2>7, <4>1
      <4>2. CASE j # n
        <5>1. j \in Voice!Jobs /\ VoiceInFlight(j) /\ job'[j] = job[j]
          BY <2>6, <3>1, <3>2, <4>2
        <5>2. /\ box[job[j].box].pending /\ box[job[j].box].job = j
              /\ box[job[j].box].state = "closed" => job[j].cancel
          BY <5>1 DEF VoiceIInv, VoiceFlightInv
        <5>3. job[j].box # b
          BY <1>0, <5>2
        <5> QED
          BY <2>7, <3>1, <5>1, <5>2, <5>3
      <4> QED
        BY <4>1, <4>2
    <3> QED
      BY <3>2 DEF VoiceFlightInv
  <2>13. VoiceOnceInv'
    <3>1. \A i \in 1..Len(results) : results[i].job \in Voice!Jobs
      BY <1>0
    <3> QED
      BY <1>0, <2>1, <2>4, <3>1 DEF VoiceIInv, VoiceOnceInv
  <2>14. Voice!EngineHears'
    BY <1>0, <2>2, <2>3, <2>6 DEF VoiceIInv, Voice!EngineHears
  <2>15. Voice!TextAtHome'
    <3>1. ASSUME NEW c \in Boxes, c # b, box[c].text # 0
          PROVE  /\ job'[box[c].text].box = c /\ ~box[c].pending /\ box[c].state = "open"
                 /\ \A j \in Voice!Jobs' : job'[j].box = c => j <= box[c].text
      <4>1. box[c].text \in Voice!Jobs
        BY <1>0, <3>1, VoiceBoxFacts
      <4>2. /\ job[box[c].text].box = c /\ ~box[c].pending /\ box[c].state = "open"
            /\ \A j \in Voice!Jobs : job[j].box = c => j <= box[c].text
        BY <1>0, <3>1 DEF VoiceIInv, Voice!TextAtHome
      <4> QED
        BY <2>3, <2>6, <3>1, <4>1, <4>2
    <3> QED
      BY <2>5, <2>7, <3>1 DEF Voice!TextAtHome
  <2> QED
    BY <2>8, <2>10, <2>11, <2>12, <2>13, <2>14, <2>15 DEF VoiceIInv
<1> QED
  BY <1>1, <1>2

(* A message is taken from the mailbox: its job is in flight no more.      *)
LEMMA VoiceTakenFacts ==
    ASSUME VoiceIInv, results # <<>>, results' = Tail(results), UNCHANGED <<transcriber, current, job>>
    PROVE  LET m == Head(results)
           IN  /\ m \in [job: Voice!Jobs, code: Voice!Codes] /\ VoiceInFlight(m.job)
               /\ results' \in Seq([job: Voice!Jobs, code: Voice!Codes])
               /\ \A j \in Voice!Jobs : VoiceInFlight(j)' => VoiceInFlight(j) /\ j # m.job
               /\ VoiceOnceInv'
<1> USE VoiceTypeFacts
<1> DEFINE m == Head(results)
<1>1. Voice!TypeOK /\ VoiceOnceInv
  BY DEF VoiceIInv
<1>2. /\ Len(results) \in Nat \ {0} /\ m = results[1] /\ results' \in Seq([job: Voice!Jobs, code: Voice!Codes])
      /\ Len(results') = Len(results) - 1 /\ \A i \in 1..Len(results') : results'[i] = results[i + 1]
  <2>1. Len(results) \in Nat \ {0}
    BY <1>1, EmptySeq
  <2>2. results' \in Seq([job: Voice!Jobs, code: Voice!Codes])
    BY <1>1, HeadTailProperties
  <2>3. Len(results') = Len(results) - 1 /\ \A i \in 1..Len(results') : results'[i] = results[i + 1]
    BY <1>1, <2>1
  <2> QED
    BY <2>1, <2>2, <2>3
<1>3. 1 \in 1..Len(results) /\ m \in [job: Voice!Jobs, code: Voice!Codes] /\ VoiceInFlight(m.job)
  BY <1>1, <1>2 DEF VoiceInFlight
<1> HIDE DEF m
<1>4. \A i \in 1..Len(results') : i + 1 \in 1..Len(results) /\ results'[i] = results[i + 1] /\ i + 1 # 1
  BY <1>1, <1>2
<1>5. m.job # current /\ (transcriber.pc \in VoiceEnding => m.job # transcriber.task)
  BY <1>1, <1>2, <1>3 DEF VoiceOnceInv
<1>6. \A i \in 1..Len(results') : results'[i].job # m.job
  BY <1>1, <1>2, <1>3, <1>4 DEF VoiceOnceInv
<1>7. \A j \in Voice!Jobs : VoiceInFlight(j)' => VoiceInFlight(j) /\ j # m.job
  BY <1>4, <1>5, <1>6 DEF VoiceInFlight
<1>8. VoiceOnceInv'
  <2>1. \A i, k \in 1..Len(results') : i + 1 = k + 1 => i = k
    BY <1>2
  <2> QED
    BY <1>1, <1>4, <2>1 DEF VoiceOnceInv
<1> QED
  BY <1>2, <1>3, <1>7, <1>8 DEF m

LEMMA VoiceShownFacts ==
    ASSUME Voice!TypeOK, NEW b \in Boxes, NEW m \in [job: Voice!Jobs, code: Voice!Codes]
    PROVE  LET r == Voice!Shown(box[b], m)
           IN  /\ r \in VoiceBoxRec(Len(job)) /\ r.pending = FALSE /\ r.job = 0
               /\ r.state = box[b].state /\ r.text \in {m.job, box[b].text}
<1>1. box[b] \in VoiceBoxRec(Len(job)) /\ m.job \in 0..Len(job) /\ 0 \in 0..Len(job)
  BY VoiceTypeFacts DEF Voice!Jobs
<1> DEFINE a == box[b].allowed \/ m.code = "ModelRequired"
           t == IF m.code = "Ok" THEN m.job ELSE box[b].text
<1>2. a \in BOOLEAN /\ t \in 0..Len(job) /\ t \in {m.job, box[b].text}
  BY <1>1 DEF VoiceBoxRec
<1>3. Voice!Shown(box[b], m) = [box[b] EXCEPT !.pending = FALSE, !.job = 0, !.allowed = a, !.text = t]
  BY <1>1 DEF Voice!Shown, VoiceBoxRec
<1> HIDE DEF a, t
<1> QED
  BY <1>1, <1>2, <1>3, Zenon DEF VoiceBoxRec

LEMMA VoiceDeliverKeeps == ASSUME VoiceIInv, Voice!Deliver PROVE VoiceIInv'
<1> USE VoiceTypeFacts
<1> DEFINE m == Head(results)
           b == job[m.job].box
<1>1. /\ Voice!TypeOK /\ screen.pc = "idle" /\ results # <<>> /\ results' = Tail(results)
      /\ UNCHANGED <<valid, screen, job, Voice!shared, transcriber, model>>
      /\ \/ UNCHANGED box
         \/ box[b].state = "open" /\ box' = [box EXCEPT ![b] = Voice!Shown(box[b], m)]
  BY DEF VoiceIInv, Voice!Deliver
<1>2. /\ m \in [job: Voice!Jobs, code: Voice!Codes] /\ VoiceInFlight(m.job)
      /\ results' \in Seq([job: Voice!Jobs, code: Voice!Codes])
      /\ \A j \in Voice!Jobs : VoiceInFlight(j)' => VoiceInFlight(j) /\ j # m.job
      /\ VoiceOnceInv'
  BY <1>1, VoiceTakenFacts DEF Voice!shared
<1> HIDE DEF m
<1>3. b \in Boxes /\ m.job \in Voice!Jobs
  BY <1>1, <1>2 DEF VoiceJobRec
<1>4. box[b].pending /\ box[b].job = m.job
  BY <1>2, <1>3 DEF VoiceIInv, VoiceFlightInv
<1> HIDE DEF b
<1>5. VoiceTouched /\ Voice!Jobs' = Voice!Jobs
  BY <1>1 DEF VoiceTouched, Voice!Jobs
<1>6. VoiceWorkerInv' /\ Voice!EngineHears'
  <2>1. VoiceWorkerInv'
    BY <1>1, <1>5 DEF VoiceIInv, VoiceWorkerInv, Voice!shared
  <2>2. Voice!EngineHears'
    BY <1>1, <1>5 DEF VoiceIInv, Voice!EngineHears, Voice!shared
  <2> QED
    BY <2>1, <2>2
<1>7. box' \in [Boxes -> VoiceBoxRec(Len(job))] => Voice!TypeOK'
  <2>1. /\ job' \in Seq(VoiceJobRec) /\ results' \in Seq([job: Voice!Jobs', code: Voice!Codes])
        /\ transcriber' \in VoiceWorkerRec(Len(job')) /\ current' \in 0..Len(job') /\ next' \in {0, current'}
    BY <1>1, <1>2, <1>5 DEF Voice!shared
  <2>2. /\ screen' \in VoiceUiRec /\ valid' \subseteq Boxes
        /\ leaving' \in BOOLEAN /\ open' \in BOOLEAN /\ model' \in BOOLEAN
    BY <1>1 DEF Voice!TypeOK, VoiceUiRec, Voice!shared
  <2> QED
    BY <1>1, <2>1, <2>2, VoiceTypeAgain DEF VoiceUiRec
<1>8. CASE UNCHANGED box
  <2>1. Voice!TypeOK'
    BY <1>1, <1>7, <1>8
  <2>2. VoiceBoxInv'
    BY <1>1, <1>5, <1>8 DEF VoiceIInv, VoiceBoxInv
  <2>3. VoiceFlightInv'
    BY <1>1, <1>2, <1>5, <1>8 DEF VoiceIInv, VoiceFlightInv
  <2>4. Voice!TextAtHome'
    BY <1>1, <1>5, <1>8 DEF VoiceIInv, Voice!TextAtHome
  <2> QED
    BY <1>2, <1>6, <2>1, <2>2, <2>3, <2>4 DEF VoiceIInv
<1>9. CASE ~UNCHANGED box
  <2> DEFINE r == Voice!Shown(box[b], m)
  <2>1. box' = [box EXCEPT ![b] = r] /\ box[b].state = "open"
    BY <1>1, <1>9
  <2>2. /\ r \in VoiceBoxRec(Len(job)) /\ r.pending = FALSE /\ r.job = 0
        /\ r.state = box[b].state /\ r.text \in {m.job, box[b].text}
    BY <1>1, <1>2, <1>3, VoiceShownFacts
  <2> HIDE DEF r
  <2>3. /\ box' \in [Boxes -> VoiceBoxRec(Len(job))]
        /\ box'[b] = r /\ \A c \in Boxes : c # b => box'[c] = box[c]
    BY <1>1, <1>3, <2>1, <2>2, VoiceBoxChanged DEF VoiceBoxChange
  <2>4. Voice!TypeOK'
    BY <1>7, <2>3
  <2>5. VoiceBoxInv'
    BY <1>1, <1>5, <2>2, <2>3 DEF VoiceIInv, VoiceBoxInv
  <2>6. VoiceFlightInv'
    <3>1. \A j \in Voice!Jobs : job[j].box \in Boxes
      BY <1>1 DEF VoiceJobRec
    <3>2. ASSUME NEW j \in Voice!Jobs, VoiceInFlight(j)'
          PROVE  /\ box'[job[j].box].pending /\ box'[job[j].box].job = j
                 /\ box'[job[j].box].state = "closed" => job[j].cancel
      <4>1. /\ j # m.job /\ box[job[j].box].pending /\ box[job[j].box].job = j
            /\ box[job[j].box].state = "closed" => job[j].cancel
        BY <1>2, <3>2 DEF VoiceIInv, VoiceFlightInv
      <4>2. job[j].box # b
        BY <1>4, <4>1
      <4> QED
        BY <2>3, <3>1, <4>1, <4>2
    <3> QED
      BY <1>1, <1>5, <3>2 DEF VoiceFlightInv
  <2>7. Voice!TextAtHome'
    <3>1. box[b].text = 0
      BY <1>3, <1>4 DEF VoiceIInv, Voice!TextAtHome
    <3>2. ASSUME box'[b].text # 0
          PROVE  /\ job[box'[b].text].box = b /\ ~box'[b].pending /\ box'[b].state = "open"
                 /\ \A j \in Voice!Jobs : job[j].box = b => j <= box'[b].text
      <4>1. box'[b].text = m.job
        BY <2>2, <2>3, <3>1, <3>2
      <4>2. job[m.job].box = b /\ \A j \in Voice!Jobs : job[j].box = b => j <= m.job
        BY <1>3, <1>4 DEF VoiceIInv, VoiceBoxInv, b
      <4> QED
        BY <2>1, <2>2, <2>3, <4>1, <4>2
    <3>3. ASSUME NEW c \in Boxes, c # b, box'[c].text # 0
          PROVE  /\ job[box'[c].text].box = c /\ ~box'[c].pending
                 /\ box'[c].state = "open" \/ (screen.pc = "clear" /\ screen.box = c)
                 /\ \A j \in Voice!Jobs : job[j].box = c => j <= box'[c].text
      BY <2>3, <3>3 DEF VoiceIInv, Voice!TextAtHome
    <3> QED
      BY <1>1, <1>5, <3>2, <3>3 DEF Voice!TextAtHome
  <2> QED
    BY <1>2, <1>6, <2>4, <2>5, <2>6, <2>7 DEF VoiceIInv
<1> QED
  BY <1>8, <1>9

----------------------------------------------------------------------------
(* The invariant, and what follows from it *)

LEMMA VoiceInitFacts == Voice!Init => VoiceIInv
<1> SUFFICES ASSUME Voice!Init PROVE VoiceIInv
  OBVIOUS
<1>1. Len(job) = 0 /\ Len(results) = 0 /\ job = <<>> /\ results = <<>> /\ Voice!Jobs = {}
  BY DEF Voice!Init, Voice!Jobs
<1>2. \A b \in Boxes : box[b].text = 0 /\ box[b].pending = FALSE
  BY DEF Voice!Init
<1>3. Voice!TypeOK
  <2>1. box \in [Boxes -> [state: {"absent", "open", "closed"}, pending: BOOLEAN,
                           allowed: BOOLEAN, job: 0..Len(job), text: 0..Len(job)]]
    <3>1. 0 \in 0..Len(job)
      BY <1>1
    <3> QED
      BY <3>1, Zenon DEF Voice!Init
  <2>2. transcriber \in [pc: {"wait", "begin", "verify", "choose", "download", "reverify", "decode",
                        "engine", "publish", "transcribe", "unpublish", "catch", "release",
                        "check", "post", "ended"},
                   task: 0..Len(job), verified: BOOLEAN, code: Voice!Codes]
    BY <1>1 DEF Voice!Init, Voice!Idle, Voice!Codes
  <2>3. current \in 0..Len(job) /\ next \in {0, current}
    BY <1>1 DEF Voice!Init
  <2>4. /\ job \in Seq([box: Boxes, allowed: BOOLEAN, cancel: BOOLEAN,
                    engine: {"none", "live", "cancelled"}])
        /\ results \in Seq([job: Voice!Jobs, code: Voice!Codes])
    BY <1>1, EmptySeq
  <2>5. /\ valid \subseteq Boxes /\ leaving \in BOOLEAN /\ open \in BOOLEAN /\ model \in BOOLEAN
        /\ screen \in [pc: {"idle", "clear", "stop", "halt", "join", "gone"}, box: Boxes]
    BY DEF Voice!Init
  <2> QED
    BY <2>1, <2>2, <2>3, <2>4, <2>5 DEF Voice!TypeOK
<1>4. VoiceWorkerInv
  BY DEF Voice!Init, Voice!Idle, VoiceWorkerInv, VoiceRunning, VoiceEnding
<1>5. VoiceBoxInv /\ Voice!TextAtHome
  BY <1>2 DEF VoiceBoxInv, Voice!TextAtHome
<1>6. VoiceFlightInv /\ Voice!EngineHears
  BY <1>1 DEF VoiceFlightInv, Voice!EngineHears
<1>7. VoiceOnceInv
  BY <1>1 DEF VoiceOnceInv
<1> QED
  BY <1>3, <1>4, <1>5, <1>6, <1>7 DEF VoiceIInv

LEMMA VoiceStepFacts == VoiceIInv /\ [Voice!Next]_(Voice!vars) => VoiceIInv'
<1> SUFFICES ASSUME VoiceIInv, [Voice!Next]_(Voice!vars) PROVE VoiceIInv'
  OBVIOUS
<1>1. CASE \E b \in Boxes : Voice!Open(b) \/ Voice!Invalidate(b) \/ Voice!Start(b) \/ Voice!Close(b)
  BY <1>1, VoiceOpenKeeps, VoiceAsideSteps, VoiceStartKeeps, VoiceCloseKeeps
<1>2. CASE Voice!Destroy
  BY <1>2, VoiceAsideSteps
<1>3. CASE Voice!UiStep
  BY <1>3, VoiceClearKeeps, VoiceDeliverKeeps, VoiceStopKeeps, VoiceHaltKeeps, VoiceAsideSteps
     DEF Voice!UiStep
<1>4. CASE Voice!WorkerStep
  BY <1>4, VoiceWithinSteps, VoiceWithinKeeps, VoiceTakeKeeps, VoiceReleaseKeeps,
     VoiceCheckKeeps, VoicePostKeeps DEF Voice!WorkerStep
<1>5. CASE UNCHANGED Voice!vars
  <2>1. VoiceTouched
    BY <1>5 DEF VoiceTouched, Voice!vars
  <2>2. VoiceWorkerInv' /\ VoiceBoxInv' /\ VoiceFlightInv' /\ VoiceOnceInv'
    BY <1>5, <2>1, VoiceTouchKeeps DEF Voice!vars, Voice!shared
  <2> QED
    BY <1>5, <2>2 DEF VoiceIInv, Voice!TypeOK, Voice!EngineHears, Voice!TextAtHome,
       Voice!Jobs, Voice!vars, Voice!shared
<1> QED
  BY <1>1, <1>2, <1>3, <1>4, <1>5 DEF Voice!Next

LEMMA VoiceInvariantHolds == Voice!Spec => []VoiceIInv
BY VoiceInitFacts, VoiceStepFacts, PTL DEF Voice!Spec

(* Every variable keeps its type: the numbers the records of jobs, boxes   *)
(* and messages refer to are jobs there are.                               *)
THEOREM VoiceTyped == Voice!Spec => []Voice!TypeOK
<1>1. VoiceIInv => Voice!TypeOK
  BY DEF VoiceIInv
<1> QED
  BY <1>1, VoiceInvariantHolds, PTL

(* Cancelling reaches the engine, the callback and the box                 *)
(* (voice_worker.cpp:113-117, 195-199, 217-222; capy_voice_ui.cpp:115-134, *)
(* 177-195).                                                               *)
THEOREM VoiceCancelAlwaysHonoured == Voice!Spec => []Voice!CancelHonoured
<1>1. VoiceIInv => Voice!NoneAbandoned
  <2> SUFFICES ASSUME VoiceIInv, NEW j \in Voice!Jobs, box[job[j].box].state = "closed",
                      j = current \/ \E i \in 1..Len(results) : results[i].job = j
               PROVE  job[j].cancel
    BY DEF Voice!NoneAbandoned
  <2> QED
    BY DEF VoiceIInv, VoiceFlightInv, VoiceInFlight
<1>2. VoiceIInv => Voice!CancelHonoured
  BY <1>1 DEF VoiceIInv, Voice!CancelHonoured
<1> QED
  BY <1>2, VoiceInvariantHolds, PTL

(* Whichever part of the client runs, a cancelled transcription stays      *)
(* cancelled: in the engine, in the callback and in the box.               *)
THEOREM ClientHonoursCancel == ClientSpec => []CancelHonoured
<1>1. ClientInit => Voice!Init
  BY DEF ClientInit
<1>2. [ClientNext]_<<vars, voiceVars, part>> => [Voice!Next]_(Voice!vars)
  BY DEF ClientNext, voiceVars, Voice!vars, Voice!shared
<1>3. Voice!Spec => []Voice!CancelHonoured
  BY VoiceCancelAlwaysHonoured
<1>4. Voice!CancelHonoured => CancelHonoured
  BY DEF CancelHonoured
<1> QED
  BY <1>1, <1>2, <1>3, <1>4, PTL DEF ClientSpec, Voice!Spec
=============================================================================
