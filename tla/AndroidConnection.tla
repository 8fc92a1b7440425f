------------------------- MODULE AndroidConnection -------------------------
(***************************************************************************)
(* The connection mode of the Android client (ci/android-connection):      *)
(* CapyConnectionService on the UI thread, ConnectionController with its   *)
(* worker thread, MemoryRoute under its own lock, and the tunnels of       *)
(* native_api.rs.  A manual proxy may be selected from any thread.         *)
(*                                                                         *)
(* Generations number the changes of the route, revisions the commands to  *)
(* the controller, handles the tunnels.  The tasks waiting for the UI      *)
(* thread are a set: each of its two kinds is posted at most once at a     *)
(* time, and which runs first is left open.                                *)
(***************************************************************************)
EXTENDS Naturals, Sequences, FiniteSets

CONSTANTS Accounts, Threads,   \* account slots; threads that select proxies
          MaxGenerations,      \* bound on changes of the route
          Closable             \* may the controller be closed?

VARIABLES
    route,      \* MemoryRoute: gen, requested, phase, endpoint, manual
    stage,      \* account -> "cold", "initializing" or "ready"
    applied,    \* account -> what MemoryRoute.Target was last told
    service,    \* CapyConnectionService: created, gen, rev, manual, posted
    ui,         \* what the UI thread is in the middle of, and its argument
    tasks,      \* runnables posted to the UI thread
    caller,     \* thread -> where it is in manualSelected, and for which gen
    control,    \* ConnectionController: pending, delivery, scheduled, closed
    commands,   \* every command so far: enabled, and the route's generation
    worker,     \* the worker thread: pc, rev, handle, outcome
    tunnels,    \* native registry: handles that are registered
    startedFor  \* handle -> revision of the command that started it

vars == <<route, stage, applied, service, ui, tasks, caller, control, commands, worker,
          tunnels, startedFor>>

Phases    == {"off", "starting", "up", "failed"}
Revisions == 1..Len(commands)
Handles   == 1..Len(startedFor)

TypeOK ==
    /\ route \in [gen: Nat, requested: BOOLEAN, phase: Phases, endpoint: 0..Len(startedFor),
                  manual: Nat]
    /\ stage \in [Accounts -> {"cold", "initializing", "ready"}]
    /\ applied \in [Accounts -> {"none", "manual", "tunnel"} \X Nat]
    /\ service \in [created: BOOLEAN, gen: Nat, rev: Nat, manual: Nat, posted: BOOLEAN]
    /\ ui.pc \in {"idle", "command", "unmark", "check", "again"}
    /\ tasks \subseteq {"deliver", "cancel"}
    /\ \A t \in Threads : caller[t].pc \in {"idle", "publish", "schedule"}
    /\ control.pending \in 0..Len(commands)
    /\ control.scheduled \in BOOLEAN /\ control.closed \in BOOLEAN
    /\ control.delivery # <<>> => control.delivery[1].rev = Len(commands)
    /\ commands \in Seq([on: BOOLEAN, gen: Nat])
    /\ worker.pc \in {"wait", "stop", "check", "start", "confirm", "ready", "fail", "post",
                      "terminated"}
    /\ worker.rev \in 0..Len(commands) /\ worker.handle \in 0..Len(startedFor)
    /\ tunnels \subseteq Handles /\ startedFor \in Seq(Revisions)

Init ==
    /\ route = [gen |-> 0, requested |-> FALSE, phase |-> "off", endpoint |-> 0, manual |-> 0]
    /\ stage = [a \in Accounts |-> "cold"]
    /\ applied = [a \in Accounts |-> <<"none", 0>>]
    /\ service = [created |-> FALSE, gen |-> 0, rev |-> 0, manual |-> 0, posted |-> FALSE]
    /\ ui = [pc |-> "idle", on |-> FALSE, revoked |-> 0]
    /\ tasks = {}
    /\ caller = [t \in Threads |-> [pc |-> "idle", gen |-> 0]]
    /\ control = [pending |-> 0, delivery |-> <<>>, scheduled |-> FALSE, closed |-> FALSE]
    /\ commands = <<>> /\ startedFor = <<>> /\ tunnels = {}
    /\ worker = [pc |-> "wait", rev |-> 0, handle |-> 0, outcome |-> "off"]

----------------------------------------------------------------------------
(* MemoryRoute *)

(* What apply(account) tells the native target.                            *)
Effective(r) == IF r.endpoint # 0 /\ r.requested THEN <<"tunnel", r.endpoint>>
                                                 ELSE <<"manual", r.manual>>

Reroute(r) ==
    /\ route' = r
    /\ applied' = [a \in Accounts |-> IF stage[a] = "ready" THEN Effective(r) ELSE applied[a]]

BeforeInitialize(a) ==
    /\ stage[a] = "cold"
    /\ stage' = [stage EXCEPT ![a] = "initializing"]
    /\ applied' = [applied EXCEPT ![a] = Effective(route)]
    /\ UNCHANGED <<route, service, ui, tasks, caller, control, commands, worker, tunnels,
                   startedFor>>

(* The route may have changed during native_init.                          *)
AfterInitialize(a) ==
    /\ stage[a] = "initializing"
    /\ stage' = [stage EXCEPT ![a] = "ready"]
    /\ applied' = [applied EXCEPT ![a] = Effective(route)]
    /\ UNCHANGED <<route, service, ui, tasks, caller, control, commands, worker, tunnels,
                   startedFor>>

Expected(gen) == route.gen = gen /\ route.requested

Ready(gen, handle) ==
    IF Expected(gen) THEN Reroute([route EXCEPT !.endpoint = handle, !.phase = "up"])
                     ELSE UNCHANGED <<route, applied>>

(* Mutant: failed looks at neither the generation nor the request.         *)
FailedAnyway(gen) ==
    Reroute([route EXCEPT !.requested = FALSE, !.phase = "failed", !.endpoint = 0])

Failed(gen) ==
    IF Expected(gen)
    THEN Reroute([route EXCEPT !.requested = FALSE, !.phase = "failed", !.endpoint = 0])
    ELSE UNCHANGED <<route, applied>>

----------------------------------------------------------------------------
(* CapyConnectionService and ConnectionController.setEnabled               *)

(* Replaces a pending command and drops an undelivered update.             *)
SetEnabled(on, gen) ==
    IF control.closed
    THEN service' = [service EXCEPT !.gen = gen, !.rev = 0] /\ UNCHANGED <<control, commands>>
    ELSE /\ commands' = Append(commands, [on |-> on, gen |-> gen])
         /\ control' = [control EXCEPT !.pending = Len(commands) + 1, !.delivery = <<>>]
         /\ service' = [service EXCEPT !.gen = gen, !.rev = Len(commands) + 1]

(* change, first half: MemoryRoute.begin, without the controller's lock.   *)
Begin(on) ==
    /\ ui.pc = "idle" /\ route.gen < MaxGenerations
    /\ Reroute([route EXCEPT !.gen = @ + 1, !.requested = on, !.endpoint = 0,
                             !.phase = IF on THEN "starting" ELSE "off"])
    /\ service' = [service EXCEPT !.created = TRUE, !.gen = route.gen + 1]
    /\ ui' = [ui EXCEPT !.pc = "command", !.on = on]
    /\ UNCHANGED <<stage, tasks, caller, control, commands, worker, tunnels, startedFor>>

Command ==
    /\ ui.pc = "command"
    /\ SetEnabled(ui.on, service.gen)
    /\ ui' = [ui EXCEPT !.pc = "idle"]
    /\ UNCHANGED <<route, stage, applied, tasks, caller, worker, tunnels, startedFor>>

(* ConnectionController.deliver, holding its lock, and the service's       *)
(* accept.                                                                 *)
Deliver ==
    /\ ui.pc = "idle" /\ "deliver" \in tasks
    /\ tasks' = tasks \ {"deliver"}
    /\ control' = [control EXCEPT !.delivery = <<>>, !.scheduled = FALSE]
    /\ LET update == control.delivery[1] IN
       IF control.delivery = <<>> \/ control.closed
       THEN UNCHANGED <<route, applied>>
       ELSE IF update.rev = Len(commands) /\ update.rev = service.rev
       THEN CASE update.phase = "up"     -> Ready(service.gen, update.endpoint)
              [] update.phase = "failed" -> Failed(service.gen)
              [] update.phase = "off"    -> UNCHANGED <<route, applied>>
       ELSE UNCHANGED <<route, applied>>
    /\ UNCHANGED <<stage, service, ui, caller, commands, worker, tunnels, startedFor>>

CancelTake ==
    /\ ui.pc = "idle" /\ "cancel" \in tasks
    /\ tasks' = tasks \ {"cancel"}
    /\ ui' = [ui EXCEPT !.pc = "unmark", !.revoked = service.manual]
    /\ service' = [service EXCEPT !.manual = 0]
    /\ UNCHANGED <<route, stage, applied, caller, control, commands, worker, tunnels,
                   startedFor>>

CancelUnmark ==
    /\ ui.pc = "unmark"
    /\ service' = [service EXCEPT !.posted = FALSE]
    /\ ui' = [ui EXCEPT !.pc = "check"]
    /\ UNCHANGED <<route, stage, applied, tasks, caller, control, commands, worker, tunnels,
                   startedFor>>

(* Mutant: the cancellation does not look at the route again.              *)
CancelBlindly ==
    /\ ui.pc = "check"
    /\ IF ui.revoked > 0 THEN SetEnabled(FALSE, service.gen)
                         ELSE UNCHANGED <<service, control, commands>>
    /\ ui' = [ui EXCEPT !.pc = "again"]
    /\ UNCHANGED <<route, stage, applied, tasks, caller, worker, tunnels, startedFor>>

CancelCheck ==
    /\ ui.pc = "check"
    /\ IF ui.revoked > 0 /\ route.gen = ui.revoked /\ ~route.requested
       THEN SetEnabled(FALSE, ui.revoked)
       ELSE UNCHANGED <<service, control, commands>>
    /\ ui' = [ui EXCEPT !.pc = "again"]
    /\ UNCHANGED <<route, stage, applied, tasks, caller, worker, tunnels, startedFor>>

(* scheduleCancellation: one runnable at a time.                           *)
Schedule ==
    IF service.posted THEN UNCHANGED <<service, tasks>>
    ELSE service' = [service EXCEPT !.posted = TRUE] /\ tasks' = tasks \cup {"cancel"}

CancelAgain ==
    /\ ui.pc = "again"
    /\ IF service.manual # 0 THEN Schedule ELSE UNCHANGED <<service, tasks>>
    /\ ui' = [ui EXCEPT !.pc = "idle"]
    /\ UNCHANGED <<route, stage, applied, caller, control, commands, worker, tunnels,
                   startedFor>>

(* A thread selects a proxy: MemoryRoute.manualSelected, then the          *)
(* service's manualSelected, step by step.                                 *)
Select(t) ==
    /\ caller[t].pc = "idle" /\ route.gen < MaxGenerations
    /\ Reroute([route EXCEPT !.gen = @ + 1, !.requested = FALSE, !.phase = "off",
                             !.endpoint = 0, !.manual = route.gen + 1])
    /\ caller' = [caller EXCEPT ![t] = [pc |-> "publish", gen |-> route.gen + 1]]
    /\ UNCHANGED <<stage, service, ui, tasks, control, commands, worker, tunnels, startedFor>>

(* The compare-and-set loop leaves the largest generation published.       *)
Publish(t) ==
    /\ caller[t].pc = "publish"
    /\ IF service.created
       THEN /\ service' = [service EXCEPT !.manual = IF caller[t].gen > @ THEN caller[t].gen
                                                                          ELSE @]
            /\ caller' = [caller EXCEPT ![t].pc = "schedule"]
       ELSE caller' = [caller EXCEPT ![t].pc = "idle"] /\ UNCHANGED service
    /\ UNCHANGED <<route, stage, applied, ui, tasks, control, commands, worker, tunnels,
                   startedFor>>

ScheduleFrom(t) ==
    /\ caller[t].pc = "schedule"
    /\ Schedule
    /\ caller' = [caller EXCEPT ![t].pc = "idle"]
    /\ UNCHANGED <<route, stage, applied, ui, control, commands, worker, tunnels, startedFor>>

Close ==
    /\ Closable /\ ~control.closed
    /\ control' = [control EXCEPT !.closed = TRUE, !.pending = 0, !.delivery = <<>>]
    /\ UNCHANGED <<route, stage, applied, service, ui, tasks, caller, commands, worker,
                   tunnels, startedFor>>

----------------------------------------------------------------------------
(* ConnectionController.work *)

Unchanged == UNCHANGED <<route, stage, applied, service, ui, caller, commands>>

Current == ~control.closed /\ worker.rev = Len(commands)

Take ==
    /\ worker.pc = "wait" /\ control.pending # 0 /\ ~control.closed
    /\ worker' = [worker EXCEPT !.pc = "stop", !.rev = control.pending]
    /\ control' = [control EXCEPT !.pending = 0]
    /\ Unchanged /\ UNCHANGED <<tasks, tunnels, startedFor>>

(* capy_connection_stop removes the handle before it shuts the tunnel      *)
(* down, and answers -1 only when that shutdown failed.                    *)
StopPrevious ==
    /\ worker.pc = "stop"
    /\ tunnels' = tunnels \ {worker.handle}
    /\ \/ worker' = [worker EXCEPT !.pc = "check", !.handle = 0]
       \/ worker.handle \in tunnels /\ worker' = [worker EXCEPT !.pc = "fail"]
    /\ Unchanged /\ UNCHANGED <<tasks, control, startedFor>>

Check ==
    /\ worker.pc = "check"
    /\ worker' = IF ~Current THEN [worker EXCEPT !.pc = "wait"]
                 ELSE IF commands[worker.rev].on THEN [worker EXCEPT !.pc = "start"]
                 ELSE [worker EXCEPT !.pc = "post", !.outcome = "off"]
    /\ Unchanged /\ UNCHANGED <<tasks, control, tunnels, startedFor>>

Start ==
    /\ worker.pc = "start"
    /\ \/ /\ startedFor' = Append(startedFor, worker.rev)
          /\ tunnels' = tunnels \cup {Len(startedFor) + 1}
          /\ worker' = [worker EXCEPT !.pc = "confirm", !.handle = Len(startedFor) + 1]
       \/ worker' = [worker EXCEPT !.pc = "fail"] /\ UNCHANGED <<tunnels, startedFor>>
    /\ Unchanged /\ UNCHANGED <<tasks, control>>

(* A start that was superseded meanwhile is stopped by the next command.   *)
Confirm ==
    /\ worker.pc = "confirm"
    /\ worker' = [worker EXCEPT !.pc = IF Current THEN "ready" ELSE "wait"]
    /\ Unchanged /\ UNCHANGED <<tasks, control, tunnels, startedFor>>

(* The status and the endpoint are validated.                              *)
CheckReady ==
    /\ worker.pc = "ready"
    /\ \/ worker' = [worker EXCEPT !.pc = "post", !.outcome = "up"]
       \/ worker' = [worker EXCEPT !.pc = "fail"]
    /\ Unchanged /\ UNCHANGED <<tasks, control, tunnels, startedFor>>

(* The catch clause stops whatever handle is left.                         *)
Fail ==
    /\ worker.pc = "fail"
    /\ tunnels' = tunnels \ {worker.handle}
    /\ \E handle \in {0} \cup ({worker.handle} \cap tunnels) :
          worker' = [worker EXCEPT !.pc = "post", !.outcome = "failed", !.handle = handle]
    /\ Unchanged /\ UNCHANGED <<tasks, control, startedFor>>

(* Mutant: a failure is not posted.                                        *)
PostSuccess ==
    /\ worker.pc = "post"
    /\ IF Current /\ worker.outcome # "failed"
       THEN /\ control' = [control EXCEPT !.scheduled = TRUE, !.delivery =
                              <<[rev |-> worker.rev, phase |-> worker.outcome,
                                 endpoint |-> worker.handle]>>]
            /\ tasks' = IF control.scheduled THEN tasks ELSE tasks \cup {"deliver"}
       ELSE UNCHANGED <<control, tasks>>
    /\ worker' = [worker EXCEPT !.pc = "wait"]
    /\ Unchanged /\ UNCHANGED <<tunnels, startedFor>>

(* Updates that were not delivered yet are replaced.                       *)
Post ==
    /\ worker.pc = "post"
    /\ IF Current
       THEN /\ control' = [control EXCEPT !.scheduled = TRUE, !.delivery =
                              <<[rev |-> worker.rev, phase |-> worker.outcome,
                                 endpoint |-> worker.handle]>>]
            /\ tasks' = IF control.scheduled THEN tasks ELSE tasks \cup {"deliver"}
       ELSE UNCHANGED <<control, tasks>>
    /\ worker' = [worker EXCEPT !.pc = "wait"]
    /\ Unchanged /\ UNCHANGED <<tunnels, startedFor>>

Terminate ==
    /\ worker.pc = "wait" /\ control.closed
    /\ tunnels' = tunnels \ {worker.handle}
    /\ worker' = [worker EXCEPT !.pc = "terminated", !.handle = 0]
    /\ Unchanged /\ UNCHANGED <<tasks, control, startedFor>>

----------------------------------------------------------------------------
UiStep == Command \/ Deliver \/ CancelTake \/ CancelUnmark \/ CancelCheck \/ CancelAgain

WorkerStep == Take \/ StopPrevious \/ Check \/ Start \/ Confirm \/ CheckReady \/ Fail \/ Post
              \/ Terminate

Next == \/ \E a \in Accounts : BeforeInitialize(a) \/ AfterInitialize(a)
        \/ \E on \in BOOLEAN : Begin(on)
        \/ \E t \in Threads : Select(t) \/ Publish(t) \/ ScheduleFrom(t)
        \/ UiStep \/ WorkerStep \/ Close

Spec == Init /\ [][Next]_vars

(* The UI loop, the worker thread and the selecting threads keep running,  *)
(* and native calls return (EmbeddedTunnel waits 2 s at most).             *)
FairSpec == /\ Spec /\ WF_vars(UiStep) /\ WF_vars(WorkerStep)
            /\ \A t \in Threads : WF_vars(Publish(t)) /\ WF_vars(ScheduleFrom(t))

----------------------------------------------------------------------------
(* Properties *)

(* Every account that finished native_init uses the route in force, though *)
(* the route may change before, during and after its initialization        *)
(* (docs/ANDROID-CONNECTION.md: "covering a manual switch during           *)
(* initialization").                                                       *)
AccountsFollow == \A a \in Accounts : stage[a] = "ready" => applied[a] = Effective(route)

(* The route never points to a tunnel that was stopped: the endpoint is    *)
(* cleared before any command can stop its tunnel.                         *)
EndpointBacked == route.endpoint # 0 /\ ~control.closed => route.endpoint \in tunnels

(* The tunnel in use was started by the command of the latest change of    *)
(* the route, never by an activation that was revoked since.               *)
EndpointOfLatest == route.endpoint # 0 =>
    commands[startedFor[route.endpoint]] = [on |-> TRUE, gen |-> route.gen]

(* "A delayed manual-proxy cancellation cannot stop a newer user           *)
(* activation" (CapyConnectionService, 67): while the tunnel is requested, *)
(* the last command asks for it.                                           *)
ActivationHeld == route.requested /\ ui.pc = "idle" /\ ~control.closed =>
    commands[Len(commands)] = [on |-> TRUE, gen |-> route.gen]

(* One tunnel at a time: whatever is superseded is stopped before the next *)
(* start, so the native registry never fills (native_api.rs, 92).          *)
OneTunnel == Cardinality(tunnels) <= 1

(* The accounts, the route, the commands and the tunnels agree.            *)
RouteSound == TypeOK /\ AccountsFollow /\ EndpointBacked /\ EndpointOfLatest /\ ActivationHeld /\ OneTunnel

Promise == INSTANCE ConnectionSpec WITH wishes <- route.gen, phase <- route.phase

(* The route takes every wish at once and shows at most one outcome of it. *)
ImplementsConnection == Promise!Spec

(* A start is answered, unless the controller was closed.                  *)
StartSettles == route.phase = "starting" ~> route.phase # "starting" \/ control.closed

(* A tunnel nobody asks for any more is stopped, whichever thread revoked  *)
(* it and however its cancellation was coalesced with others.              *)
RevokedStops == ~route.requested \/ control.closed
                  ~> tunnels = {} \/ (route.requested /\ ~control.closed)

(* Whatever was asked for last is carried through to its end.              *)
WishesEnd == StartSettles /\ RevokedStops
=============================================================================
