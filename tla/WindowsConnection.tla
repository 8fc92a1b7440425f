------------------------- MODULE WindowsConnection -------------------------
(***************************************************************************)
(* The connection mode of the Windows client: the Service of               *)
(* ci/windows-connection-native on the UI thread, which owns the proxy the *)
(* application uses, and the Worker of ci/windows-connection with its      *)
(* thread, over the tunnels of native_api.rs.                              *)
(*                                                                         *)
(* Revisions number the requests, handles the tunnels, 0 is none.  The     *)
(* two checks of deliver are one step under replyMutex; what it posts to   *)
(* the UI thread does not depend on the reply and is only counted.         *)
(***************************************************************************)
EXTENDS Naturals, Sequences, FiniteSets

CONSTANT MaxRequests  \* bound on the requests to the worker

VARIABLES
    service,    \* Service: enabled, phase, revision; and the wishes so far
    proxy,      \* Application::_capyConnectionProxy: a handle, 0 if none
    ui,         \* "idle", "selecting", "joining", "gone"
    posted,     \* callbacks posted to the UI thread and not run yet
    alive, reply, dispatchQueued,       \* Worker::State
    pending, stopping,                  \* under Worker::_mutex
    requests,   \* every request so far: what it asked for
    worker,     \* the worker thread: pc, revision, code, endpoint
    handle,     \* Worker::_handle
    tunnels,    \* native registry: handles that are registered
    startedFor  \* handle -> revision of the request that started it

uiVars == <<service, proxy, ui>>
vars == <<uiVars, posted, alive, reply, dispatchQueued, pending, stopping, requests, worker,
          handle, tunnels, startedFor>>

Handles  == 1..Len(startedFor)
Revision == Len(requests)
Codes    == {"ready", "invalid", "stopped", "failed"}
Reply    == [revision : 1..Len(requests), code : Codes, endpoint : 0..Len(startedFor)]

TypeOK ==
    /\ service \in [enabled: BOOLEAN, phase: {"off", "starting", "up", "failed"},
                    revision: 0..Len(requests), wishes: Nat]
    /\ proxy \in 0..Len(startedFor) /\ handle \in 0..Len(startedFor)
    /\ ui \in {"idle", "selecting", "joining", "gone"}
    /\ posted = (IF dispatchQueued THEN 1 ELSE 0)
    /\ alive \in BOOLEAN /\ stopping \in BOOLEAN
    /\ reply = <<>> \/ (Len(reply) = 1 /\ reply[1] \in Reply /\ dispatchQueued)
    /\ pending \in 0..Len(requests)
    /\ requests \in Seq(BOOLEAN)
    /\ worker.pc \in {"wait", "exchange", "stop", "start", "deliver", "ended"}
    /\ tunnels \subseteq Handles /\ startedFor \in Seq(1..Len(requests))

Init ==
    /\ service = [enabled |-> FALSE, phase |-> "off", revision |-> 0, wishes |-> 0]
    /\ proxy = 0 /\ ui = "idle" /\ posted = 0
    /\ alive = TRUE /\ reply = <<>> /\ dispatchQueued = FALSE
    /\ pending = 0 /\ stopping = FALSE /\ requests = <<>>
    /\ worker = [pc |-> "wait", revision |-> 0, previous |-> 0, code |-> "stopped",
                 endpoint |-> 0]
    /\ handle = 0 /\ tunnels = {} /\ startedFor = <<>>

----------------------------------------------------------------------------
(* UI thread *)

WorkerState == <<alive, reply, dispatchQueued, stopping, worker, handle, tunnels, startedFor>>

(* Worker::request: a pending command is replaced.                         *)
Request(on) ==
    /\ requests' = Append(requests, on)
    /\ pending' = Revision + 1

Wish(on) == [enabled |-> on, phase |-> IF on THEN "starting" ELSE "off",
             revision |-> Revision + 1, wishes |-> service.wishes + 1]

(* Mutant: the normal route is not restored before the request.            *)
SetEnabledLater(on) ==
    /\ ui = "idle" /\ Revision < MaxRequests
    /\ service' = Wish(on)
    /\ Request(on)
    /\ UNCHANGED <<proxy, ui, posted, WorkerState>>

(* The normal route is restored before the request.                        *)
SetEnabled(on) ==
    /\ ui = "idle" /\ Revision < MaxRequests
    /\ service' = Wish(on)
    /\ proxy' = 0
    /\ Request(on)
    /\ UNCHANGED <<ui, posted, WorkerState>>

(* Application::setCurrentProxy: manualProxySelected, then the reset of    *)
(* the runtime proxy.                                                      *)
ManualProxySelected ==
    /\ ui = "idle" /\ Revision < MaxRequests
    /\ service' = Wish(FALSE)
    /\ Request(FALSE)
    /\ ui' = "selecting"
    /\ UNCHANGED <<proxy, posted, WorkerState>>

ProxyReset ==
    /\ ui = "selecting"
    /\ proxy' = 0 /\ ui' = "idle"
    /\ UNCHANGED <<service, posted, pending, requests, WorkerState>>

(* Service::completed.  An endpoint that does not validate disables the    *)
(* mode with a request of its own.                                         *)
Completed(r) ==
    IF r.code = "ready" /\ service.enabled
    THEN /\ proxy' = r.endpoint
         /\ service' = [service EXCEPT !.phase = "up"]
         /\ UNCHANGED <<pending, requests>>
    ELSE IF r.code = "invalid" /\ service.enabled
    THEN /\ Request(FALSE)
         /\ proxy' = 0
         /\ service' = [service EXCEPT !.enabled = FALSE, !.phase = "failed",
                                       !.revision = Revision + 1]
    ELSE IF r.code = "failed"
    THEN /\ proxy' = 0
         /\ service' = [service EXCEPT !.enabled = FALSE, !.phase = "failed"]
         /\ UNCHANGED <<pending, requests>>
    ELSE /\ service' = [service EXCEPT !.phase = IF ~service.enabled /\ @ # "failed"
                                                 THEN "off" ELSE @]
         /\ UNCHANGED <<proxy, pending, requests>>

(* Mutant: the callback does not look at the revisions.                    *)
DispatchAny ==
    /\ ui \in {"idle", "gone"} /\ posted > 0
    /\ posted' = posted - 1
    /\ reply' = <<>> /\ dispatchQueued' = FALSE
    /\ IF reply # <<>> /\ alive
       THEN Completed(reply[1])
       ELSE UNCHANGED <<service, proxy, pending, requests>>
    /\ UNCHANGED <<ui, alive, stopping, worker, handle, tunnels, startedFor>>

(* The posted callback takes the newest reply.                             *)
Dispatch ==
    /\ ui \in {"idle", "gone"} /\ posted > 0
    /\ posted' = posted - 1
    /\ reply' = <<>> /\ dispatchQueued' = FALSE
    /\ IF reply # <<>> /\ alive /\ reply[1].revision = Revision
          /\ reply[1].revision = service.revision
       THEN Completed(reply[1])
       ELSE UNCHANGED <<service, proxy, pending, requests>>
    /\ UNCHANGED <<ui, alive, stopping, worker, handle, tunnels, startedFor>>

(* Worker::~Worker: no callback any more, no command any more, then join.  *)
Revoke ==
    /\ ui = "idle" /\ alive
    /\ alive' = FALSE
    /\ ui' = "joining"
    /\ UNCHANGED <<service, proxy, posted, reply, dispatchQueued, pending, stopping, requests,
                   worker, handle, tunnels, startedFor>>

StopWorker ==
    /\ ui = "joining" /\ ~stopping
    /\ reply' = <<>>
    /\ stopping' = TRUE /\ pending' = 0
    /\ UNCHANGED <<uiVars, posted, alive, dispatchQueued, requests, worker, handle, tunnels,
                   startedFor>>

Join ==
    /\ ui = "joining" /\ worker.pc = "ended"
    /\ ui' = "gone"
    /\ UNCHANGED <<service, proxy, posted, pending, requests, WorkerState>>

----------------------------------------------------------------------------
(* Worker::loop *)

Others == <<uiVars, alive, stopping, requests>>

Take ==
    /\ worker.pc = "wait" /\ ~stopping /\ pending # 0
    /\ worker' = [worker EXCEPT !.pc = "exchange", !.revision = pending]
    /\ pending' = 0
    /\ UNCHANGED <<Others, posted, reply, dispatchQueued, handle, tunnels, startedFor>>

Exchange ==
    /\ worker.pc = "exchange" \/ (worker.pc = "wait" /\ stopping)
    /\ worker' = [worker EXCEPT !.pc = "stop", !.previous = handle,
                                !.revision = IF worker.pc = "wait" THEN 0 ELSE @]
    /\ handle' = 0
    /\ UNCHANGED <<Others, posted, reply, dispatchQueued, pending, tunnels, startedFor>>

(* The tunnel of the previous request is stopped; revision 0 is the end.   *)
StopPrevious ==
    /\ worker.pc = "stop"
    /\ tunnels' = tunnels \ {worker.previous}
    /\ worker' = [worker EXCEPT !.previous = 0, !.code = "stopped", !.endpoint = 0,
                    !.pc = IF worker.revision = 0 THEN "ended"
                           ELSE IF requests[worker.revision] THEN "start" ELSE "deliver"]
    /\ UNCHANGED <<Others, posted, reply, dispatchQueued, pending, handle, startedFor>>

(* capy_connection_start registers a tunnel or answers 0.                  *)
Start ==
    /\ worker.pc = "start"
    /\ \/ \E code \in {"ready", "invalid"} :
            /\ startedFor' = Append(startedFor, worker.revision)
            /\ tunnels' = tunnels \cup {Len(startedFor) + 1}
            /\ handle' = Len(startedFor) + 1
            /\ worker' = [worker EXCEPT !.pc = "deliver", !.code = code,
                                        !.endpoint = Len(startedFor) + 1]
       \/ /\ worker' = [worker EXCEPT !.pc = "deliver", !.code = "failed"]
          /\ UNCHANGED <<handle, tunnels, startedFor>>
    /\ UNCHANGED <<Others, posted, reply, dispatchQueued, pending>>

(* Mutant: a reply that finds a callback queued is dropped.                *)
DeliverOnce ==
    /\ worker.pc = "deliver"
    /\ IF alive /\ worker.revision = Revision /\ ~dispatchQueued
       THEN /\ reply' = <<[revision |-> worker.revision, code |-> worker.code,
                           endpoint |-> worker.endpoint]>>
            /\ posted' = posted + 1
            /\ dispatchQueued' = TRUE
       ELSE UNCHANGED <<reply, posted, dispatchQueued>>
    /\ worker' = [worker EXCEPT !.pc = "wait"]
    /\ UNCHANGED <<Others, pending, handle, tunnels, startedFor>>

(* Mutant: every reply posts a callback of its own.                        *)
DeliverEach ==
    /\ worker.pc = "deliver"
    /\ IF alive /\ worker.revision = Revision
       THEN /\ reply' = <<[revision |-> worker.revision, code |-> worker.code,
                           endpoint |-> worker.endpoint]>>
            /\ posted' = posted + 1
            /\ dispatchQueued' = TRUE
       ELSE UNCHANGED <<reply, posted, dispatchQueued>>
    /\ worker' = [worker EXCEPT !.pc = "wait"]
    /\ UNCHANGED <<Others, pending, handle, tunnels, startedFor>>

(* Worker::deliver replaces a reply that was not taken yet.                *)
Deliver ==
    /\ worker.pc = "deliver"
    /\ IF alive /\ worker.revision = Revision
       THEN /\ reply' = <<[revision |-> worker.revision, code |-> worker.code,
                           endpoint |-> worker.endpoint]>>
            /\ posted' = IF dispatchQueued THEN posted ELSE posted + 1
            /\ dispatchQueued' = TRUE
       ELSE UNCHANGED <<reply, posted, dispatchQueued>>
    /\ worker' = [worker EXCEPT !.pc = "wait"]
    /\ UNCHANGED <<Others, pending, handle, tunnels, startedFor>>

----------------------------------------------------------------------------
WorkerStep == Take \/ Exchange \/ StopPrevious \/ Start \/ Deliver

UiStep == ProxyReset \/ Dispatch \/ StopWorker \/ Join

Next == \/ \E on \in BOOLEAN : SetEnabled(on)
        \/ ManualProxySelected \/ Revoke \/ UiStep \/ WorkerStep

Spec == Init /\ [][Next]_vars

(* The UI loop and the worker thread keep running and native calls return. *)
Fairness == WF_vars(UiStep) /\ WF_vars(WorkerStep)

FairSpec == Spec /\ Fairness

----------------------------------------------------------------------------
(* Properties *)

(* Between two steps of the UI thread the application's proxy is a tunnel  *)
(* that still runs: it is withdrawn before any request can stop it         *)
(* (Service::setEnabled restores the normal route first).                  *)
ProxyBacked == proxy # 0 /\ ui = "idle" => proxy \in tunnels

(* The proxy in use was started for the latest request, which asked for it *)
(* (README: "choosing a normal proxy revokes a pending startup").          *)
ProxyOfLatest == proxy # 0 /\ ui = "idle" =>
    /\ service.enabled /\ startedFor[proxy] = service.revision
    /\ service.revision = Revision /\ requests[service.revision]

(* One tunnel at a time, so the native registry's limit of 16 is never met *)
(* and nothing runs that no handle refers to.                              *)
OneTunnel == Cardinality(tunnels) <= 1 /\ tunnels \subseteq {handle, worker.previous}

(* The proxy, the requests and the tunnels agree.                          *)
RouteSound == ProxyBacked /\ ProxyOfLatest /\ OneTunnel

Promise == INSTANCE ConnectionSpec WITH wishes <- service.wishes, phase <- service.phase

(* The service takes every wish at once and shows at most one outcome of   *)
(* it.                                                                     *)
ImplementsConnection == Promise!Spec

(* The mode is answered, unless the service is destroyed first.            *)
StartSettles == service.phase = "starting" ~> service.phase # "starting" \/ ~alive

(* A mode that is off leaves no tunnel behind.                             *)
DisabledStops == ~service.enabled \/ ~alive ~> tunnels = {} \/ (service.enabled /\ alive)

(* Whatever was asked for last is carried through to its end.              *)
WishesEnd == StartSettles /\ DisabledStops
=============================================================================
