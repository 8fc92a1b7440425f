----------------------- MODULE AndroidConnection_proofs -----------------------
(***************************************************************************)
(* Theorems about AndroidConnection, for any accounts and threads and any  *)
(* number of changes of the route: the route is sound and it implements    *)
(* ConnectionSpec.                                                         *)
(*                                                                         *)
(* The argument: an update that may still be delivered, and an endpoint in *)
(* use, find the worker at rest, holding the tunnel they name (UpdateInv,  *)
(* EndpointInv), because only a command makes the worker stop a tunnel,    *)
(* a command drops the update, and the route is cleared before it.         *)
(***************************************************************************)
EXTENDS AndroidConnection, FiniteSetTheorems, TLAPS

----------------------------------------------------------------------------
(* The inductive invariant *)

Update == [rev: Nat, phase: {"off", "up", "failed"}, endpoint: Nat]

RouteOK == route \in [gen: Nat, requested: BOOLEAN, phase: Phases, endpoint: 0..Len(startedFor),
                      manual: Nat]

AccountsOK == /\ stage \in [Accounts -> {"cold", "initializing", "ready"}]
              /\ applied \in [Accounts -> {"none", "manual", "tunnel"} \X Nat]

ServiceOK == /\ service \in [created: BOOLEAN, gen: Nat, rev: Nat, manual: Nat, posted: BOOLEAN]
             /\ tasks \subseteq {"deliver", "cancel"}

UiOK == ui \in [pc: {"idle", "command", "unmark", "check", "again"}, on: BOOLEAN, revoked: Nat]

CallerOK == caller \in [Threads -> [pc: {"idle", "publish", "schedule"}, gen: Nat]]

ControlOK ==
    /\ control \in [pending: 0..Len(commands), delivery: Seq(Update), scheduled: BOOLEAN,
                    closed: BOOLEAN]
    /\ control.delivery # <<>> => control.delivery[1].rev = Len(commands)

WorkerOK ==
    worker \in [pc: {"wait", "stop", "check", "start", "confirm", "ready", "fail", "post",
                     "terminated"},
                rev: 0..Len(commands), handle: 0..Len(startedFor),
                outcome: {"off", "up", "failed"}]

HistoryOK ==
    /\ commands \in Seq([on: BOOLEAN, gen: Nat]) /\ startedFor \in Seq(1..Len(commands))
    /\ tunnels \subseteq 1..Len(startedFor)

(* The only tunnel is the one in the worker's hands.                       *)
TunnelInv ==
    /\ tunnels \subseteq {worker.handle}
    /\ worker.pc \in {"check", "start"} => tunnels = {} /\ worker.handle = 0
    /\ worker.pc \notin {"wait", "terminated"} => worker.rev # 0

(* What the worker is about to post as up is a tunnel of its command.      *)
UpInv == worker.pc \in {"confirm", "ready"} \/ (worker.pc = "post" /\ worker.outcome = "up") =>
    /\ worker.handle \in tunnels /\ worker.handle # 0
    /\ startedFor[worker.handle] = worker.rev

(* A pending command is the last one and was not taken yet.                *)
PendingInv == control.pending # 0 => control.pending = Len(commands)
                                     /\ worker.rev < Len(commands)

(* An update that waits for its delivery finds the worker at rest.         *)
UpdateInv == control.delivery # <<>> =>
    /\ ~control.closed /\ control.pending = 0
    /\ worker.pc = "wait" /\ worker.rev = Len(commands)
    /\ control.delivery[1].endpoint = worker.handle
    /\ control.delivery[1].phase = "up" =>
          /\ worker.handle \in tunnels /\ worker.handle # 0
          /\ startedFor[worker.handle] = worker.rev

(* So does an endpoint in use, whose update has been delivered.            *)
EndpointInv ==
    /\ route.phase = "up" <=> route.endpoint # 0
    /\ route.endpoint # 0 => route.requested /\ ui.pc # "command"
    /\ route.endpoint # 0 /\ ~control.closed =>
          /\ control.delivery = <<>> /\ control.pending = 0 /\ worker.pc = "wait"
          /\ worker.handle = route.endpoint
    /\ route.requested => route.phase \in {"starting", "up"}

(* A request of the route is, or is about to be, the last command.         *)
ActivationInv == route.requested =>
    /\ ui.pc = "command" => ui.on /\ service.gen = route.gen
    /\ ui.pc # "command" /\ ~control.closed => commands # <<>> /\
          commands[Len(commands)] = [on |-> TRUE, gen |-> route.gen]

IInv ==
    /\ RouteOK /\ AccountsOK /\ ServiceOK /\ UiOK /\ CallerOK /\ ControlOK /\ WorkerOK /\ HistoryOK
    /\ AccountsFollow /\ TunnelInv /\ UpInv /\ PendingInv /\ UpdateInv /\ EndpointInv
    /\ ActivationInv /\ EndpointBacked /\ EndpointOfLatest

----------------------------------------------------------------------------
(* Every step preserves the inductive invariant *)

LEMMA Lengths ==
    ASSUME IInv
    PROVE  /\ Len(commands) \in Nat /\ Len(startedFor) \in Nat /\ <<>> \in Seq(Update)
           /\ 0 \in 0..Len(commands) /\ 0 \in 0..Len(startedFor)
  BY DEF IInv, HistoryOK

(* What the accounts are told is a route.                                  *)
LEMMA EffectiveTyped ==
    ASSUME IInv
    PROVE  Effective(route) \in {"none", "manual", "tunnel"} \X Nat
<1>1. route.endpoint \in Nat /\ route.manual \in Nat
  BY DEF IInv, RouteOK, HistoryOK
<1> QED
  BY <1>1 DEF Effective

(* A change of the route reaches every account that is initialised.        *)
LEMMA Rerouted ==
    ASSUME IInv, UNCHANGED <<stage, startedFor>>,
           NEW r \in [gen: Nat, requested: BOOLEAN, phase: Phases, endpoint: 0..Len(startedFor),
                      manual: Nat],
           Reroute(r)
    PROVE  RouteOK' /\ AccountsOK' /\ AccountsFollow'
<1>1. Len(startedFor) \in Nat
  BY DEF IInv, HistoryOK
<1>2. r.endpoint \in Nat /\ r.manual \in Nat
  BY <1>1
<1>3. Effective(r) \in {"none", "manual", "tunnel"} \X Nat
  BY <1>2 DEF Effective
<1>4. route' = r /\ \A a \in Accounts : applied'[a] = IF stage[a] = "ready" THEN Effective(r)
                                                                            ELSE applied[a]
  BY DEF Reroute
<1>5. RouteOK'
  BY <1>4 DEF RouteOK
<1>6. AccountsOK'
  BY <1>3 DEF IInv, AccountsOK, Reroute
<1>7. AccountsFollow'
  BY <1>4 DEF AccountsFollow, Effective
<1> QED
  BY <1>5, <1>6, <1>7

(* A command is appended and becomes the pending one; a closed controller  *)
(* takes none.                                                             *)
LEMMA Commanded ==
    ASSUME IInv, NEW on \in BOOLEAN, NEW gen \in Nat, SetEnabled(on, gen),
           UNCHANGED <<tasks, worker, tunnels, startedFor>>
    PROVE  /\ ServiceOK' /\ ControlOK' /\ WorkerOK' /\ HistoryOK' /\ TunnelInv' /\ UpInv'
           /\ PendingInv' /\ UpdateInv'
           /\ service'.gen = gen /\ control'.closed = control.closed
           /\ ~control.closed => commands' # <<>>
                 /\ commands'[Len(commands')] = [on |-> on, gen |-> gen]
           /\ \A i \in 1..Len(commands) : commands'[i] = commands[i]
           /\ control.closed => UNCHANGED <<control, commands>>
<1>0. commands \in Seq([on: BOOLEAN, gen: Nat]) /\ Len(commands) \in Nat
      /\ startedFor \in Seq(1..Len(commands)) /\ [on |-> on, gen |-> gen] \in [on: BOOLEAN, gen: Nat]
  BY DEF IInv, HistoryOK
<1>1. TunnelInv' /\ UpInv'
  BY DEF IInv, TunnelInv, UpInv
<1>2. CASE control.closed
  <2>1. UNCHANGED <<control, commands>> /\ service' = [service EXCEPT !.gen = gen, !.rev = 0]
    BY <1>2 DEF SetEnabled
  <2>2. ServiceOK' /\ service'.gen = gen
    BY <2>1 DEF IInv, ServiceOK
  <2>3. ControlOK' /\ WorkerOK' /\ HistoryOK' /\ PendingInv' /\ UpdateInv'
    BY <2>1 DEF IInv, ControlOK, WorkerOK, HistoryOK, PendingInv, UpdateInv
  <2> QED  BY <1>1, <1>2, <2>1, <2>2, <2>3
<1>3. CASE ~control.closed
  <2>1. /\ commands' = Append(commands, [on |-> on, gen |-> gen])
        /\ control' = [control EXCEPT !.pending = Len(commands) + 1, !.delivery = <<>>]
        /\ service' = [service EXCEPT !.gen = gen, !.rev = Len(commands) + 1]
    BY <1>3 DEF SetEnabled
  <2>2. /\ commands' \in Seq([on: BOOLEAN, gen: Nat]) /\ Len(commands') = Len(commands) + 1
        /\ commands'[Len(commands')] = [on |-> on, gen |-> gen] /\ commands' # <<>>
        /\ \A i \in 1..Len(commands) : commands'[i] = commands[i]
    BY <1>0, <2>1
  <2>3. startedFor \in Seq(1..Len(commands'))
    <3>1. /\ startedFor \in Seq(1..Len(commands)) /\ Len(commands) \in Nat
          /\ Len(commands') = Len(commands) + 1
      BY <1>0, <2>2
    <3>2. 1..Len(commands) \subseteq 1..Len(commands')
      BY <3>1
    <3> QED  BY <3>1, <3>2
  <2>4. ServiceOK' /\ service'.gen = gen
    <3>1. /\ service \in [created: BOOLEAN, gen: Nat, rev: Nat, manual: Nat, posted: BOOLEAN]
          /\ tasks' \subseteq {"deliver", "cancel"}
      BY DEF IInv, ServiceOK
    <3>2. Len(commands) + 1 \in Nat
      BY <1>0
    <3> QED  BY <2>1, <3>1, <3>2 DEF ServiceOK
  <2>5. <<>> \in Seq(Update) /\ Len(commands) + 1 \in 0..Len(commands')
    BY <1>0, <2>2
  <2>6. ControlOK' /\ control'.pending = Len(commands) + 1 /\ control'.delivery = <<>>
        /\ control'.closed = control.closed
    BY <2>1, <2>5 DEF IInv, ControlOK
  <2>7. WorkerOK' /\ worker.rev \in 0..Len(commands)
    BY <1>0, <2>2 DEF IInv, WorkerOK
  <2>8. HistoryOK'
    BY <2>2, <2>3 DEF IInv, HistoryOK
  <2>9. PendingInv' /\ UpdateInv'
    BY <1>0, <2>2, <2>6, <2>7 DEF PendingInv, UpdateInv
  <2> QED  BY <1>1, <1>3, <2>2, <2>4, <2>6, <2>7, <2>8, <2>9
<1> QED
  BY <1>2, <1>3

LEMMA BeforeInitializeKeeps ==
    ASSUME NEW a \in Accounts, IInv, BeforeInitialize(a)
    PROVE  IInv'
<1>1. RouteOK' /\ AccountsOK' /\ AccountsFollow'
  <2>1. RouteOK'
    BY DEF IInv, RouteOK, HistoryOK, Phases, BeforeInitialize
  <2>2. AccountsOK'
    BY EffectiveTyped DEF IInv, AccountsOK, BeforeInitialize
  <2>3. AccountsFollow'
    BY DEF IInv, AccountsFollow, AccountsOK, BeforeInitialize, Effective
  <2> QED  BY <2>1, <2>2, <2>3
<1>2. ServiceOK' /\ UiOK' /\ CallerOK'
  BY DEF IInv, ServiceOK, UiOK, CallerOK, RouteOK, BeforeInitialize
<1>3. ControlOK' /\ WorkerOK' /\ HistoryOK'
  BY DEF IInv, ControlOK, WorkerOK, HistoryOK, TunnelInv, ServiceOK, UiOK, BeforeInitialize
<1>4. TunnelInv' /\ UpInv'
  BY DEF IInv, ControlOK, WorkerOK, HistoryOK, TunnelInv, UpInv, BeforeInitialize
<1>5. PendingInv' /\ UpdateInv'
  BY DEF IInv, ControlOK, WorkerOK, HistoryOK, PendingInv, UpdateInv, BeforeInitialize
<1>6. EndpointInv' /\ ActivationInv'
  BY DEF IInv, ControlOK, WorkerOK, HistoryOK, RouteOK, UiOK, ServiceOK, EndpointInv,
     ActivationInv, BeforeInitialize
<1>7. EndpointBacked' /\ EndpointOfLatest'
  BY DEF IInv, ControlOK, WorkerOK, HistoryOK, RouteOK, EndpointInv, EndpointBacked,
     EndpointOfLatest, BeforeInitialize
<1> QED
  BY <1>1, <1>2, <1>3, <1>4, <1>5, <1>6, <1>7 DEF IInv

LEMMA AfterInitializeKeeps ==
    ASSUME NEW a \in Accounts, IInv, AfterInitialize(a)
    PROVE  IInv'
<1>1. RouteOK' /\ AccountsOK' /\ AccountsFollow'
  <2>1. RouteOK'
    BY DEF IInv, RouteOK, HistoryOK, Phases, AfterInitialize
  <2>2. AccountsOK'
    BY EffectiveTyped DEF IInv, AccountsOK, AfterInitialize
  <2>3. AccountsFollow'
    BY DEF IInv, AccountsFollow, AccountsOK, AfterInitialize, Effective
  <2> QED  BY <2>1, <2>2, <2>3
<1>2. ServiceOK' /\ UiOK' /\ CallerOK'
  BY DEF IInv, ServiceOK, UiOK, CallerOK, RouteOK, AfterInitialize
<1>3. ControlOK' /\ WorkerOK' /\ HistoryOK'
  BY DEF IInv, ControlOK, WorkerOK, HistoryOK, TunnelInv, ServiceOK, UiOK, AfterInitialize
<1>4. TunnelInv' /\ UpInv'
  BY DEF IInv, ControlOK, WorkerOK, HistoryOK, TunnelInv, UpInv, AfterInitialize
<1>5. PendingInv' /\ UpdateInv'
  BY DEF IInv, ControlOK, WorkerOK, HistoryOK, PendingInv, UpdateInv, AfterInitialize
<1>6. EndpointInv' /\ ActivationInv'
  BY DEF IInv, ControlOK, WorkerOK, HistoryOK, RouteOK, UiOK, ServiceOK, EndpointInv,
     ActivationInv, AfterInitialize
<1>7. EndpointBacked' /\ EndpointOfLatest'
  BY DEF IInv, ControlOK, WorkerOK, HistoryOK, RouteOK, EndpointInv, EndpointBacked,
     EndpointOfLatest, AfterInitialize
<1> QED
  BY <1>1, <1>2, <1>3, <1>4, <1>5, <1>6, <1>7 DEF IInv

LEMMA BeginKeeps ==
    ASSUME NEW on \in BOOLEAN, IInv, Begin(on)
    PROVE  IInv'
<1>1. RouteOK' /\ AccountsOK' /\ AccountsFollow'
  <2> DEFINE r == [route EXCEPT !.gen = @ + 1, !.requested = on, !.endpoint = 0,
                             !.phase = IF on THEN "starting" ELSE "off"]
  <2>1. r \in [gen: Nat, requested: BOOLEAN, phase: Phases, endpoint: 0..Len(startedFor), manual: Nat]
    <3>1. route.gen + 1 \in Nat /\ route \in [gen: Nat, requested: BOOLEAN, phase: Phases, endpoint: 0..Len(startedFor), manual: Nat]
      BY DEF IInv, RouteOK
    <3>2. (IF on THEN "starting" ELSE "off") \in Phases /\ 0 \in 0..Len(startedFor)
      BY Lengths DEF Phases
    <3> QED  BY <3>1, <3>2
  <2>2. Reroute(r) /\ UNCHANGED <<stage, startedFor>>
    BY DEF Begin
  <2> HIDE DEF r
  <2> QED  BY <2>1, <2>2, Rerouted
<1>2. ServiceOK' /\ UiOK' /\ CallerOK'
  <2>1. ServiceOK'
    <3>1. route.gen + 1 \in Nat /\ UNCHANGED tasks
      BY DEF IInv, RouteOK, Begin
    <3> QED  BY <3>1 DEF IInv, ServiceOK, Begin
  <2>2. UiOK'
    BY DEF IInv, UiOK, ServiceOK, Begin, Reroute
  <2>3. CallerOK'
    BY DEF IInv, CallerOK, RouteOK, Begin, Reroute
  <2> QED  BY <2>1, <2>2, <2>3
<1>3. ControlOK' /\ WorkerOK' /\ HistoryOK'
  BY DEF IInv, ControlOK, WorkerOK, HistoryOK, TunnelInv, ServiceOK, UiOK, Begin, Reroute
<1>4. TunnelInv' /\ UpInv'
  BY DEF IInv, ControlOK, WorkerOK, HistoryOK, TunnelInv, UpInv, Begin, Reroute
<1>5. PendingInv' /\ UpdateInv'
  BY DEF IInv, ControlOK, WorkerOK, HistoryOK, PendingInv, UpdateInv, Begin, Reroute
<1>6. EndpointInv' /\ ActivationInv'
  BY DEF IInv, ControlOK, WorkerOK, HistoryOK, RouteOK, UiOK, ServiceOK, EndpointInv,
     ActivationInv, Begin, Reroute
<1>7. EndpointBacked' /\ EndpointOfLatest'
  BY DEF IInv, ControlOK, WorkerOK, HistoryOK, RouteOK, EndpointInv, EndpointBacked,
     EndpointOfLatest, Begin, Reroute
<1> QED
  BY <1>1, <1>2, <1>3, <1>4, <1>5, <1>6, <1>7 DEF IInv

LEMMA SelectKeeps ==
    ASSUME NEW t \in Threads, IInv, Select(t)
    PROVE  IInv'
<1>1. RouteOK' /\ AccountsOK' /\ AccountsFollow'
  <2> DEFINE r == [route EXCEPT !.gen = @ + 1, !.requested = FALSE, !.phase = "off",
                             !.endpoint = 0, !.manual = route.gen + 1]
  <2>1. r \in [gen: Nat, requested: BOOLEAN, phase: Phases, endpoint: 0..Len(startedFor), manual: Nat]
    <3>1. route.gen + 1 \in Nat /\ route \in [gen: Nat, requested: BOOLEAN, phase: Phases, endpoint: 0..Len(startedFor), manual: Nat]
      BY DEF IInv, RouteOK
    <3>2. "off" \in Phases /\ 0 \in 0..Len(startedFor)
      BY Lengths DEF Phases
    <3> QED  BY <3>1, <3>2
  <2>2. Reroute(r) /\ UNCHANGED <<stage, startedFor>>
    BY DEF Select
  <2> HIDE DEF r
  <2> QED  BY <2>1, <2>2, Rerouted
<1>2. ServiceOK' /\ UiOK' /\ CallerOK'
  BY DEF IInv, ServiceOK, UiOK, CallerOK, RouteOK, Select, Reroute
<1>3. ControlOK' /\ WorkerOK' /\ HistoryOK'
  BY DEF IInv, ControlOK, WorkerOK, HistoryOK, TunnelInv, ServiceOK, UiOK, Select, Reroute
<1>4. TunnelInv' /\ UpInv'
  BY DEF IInv, ControlOK, WorkerOK, HistoryOK, TunnelInv, UpInv, Select, Reroute
<1>5. PendingInv' /\ UpdateInv'
  BY DEF IInv, ControlOK, WorkerOK, HistoryOK, PendingInv, UpdateInv, Select, Reroute
<1>6. EndpointInv' /\ ActivationInv'
  BY DEF IInv, ControlOK, WorkerOK, HistoryOK, RouteOK, UiOK, ServiceOK, EndpointInv,
     ActivationInv, Select, Reroute
<1>7. EndpointBacked' /\ EndpointOfLatest'
  BY DEF IInv, ControlOK, WorkerOK, HistoryOK, RouteOK, EndpointInv, EndpointBacked,
     EndpointOfLatest, Select, Reroute
<1> QED
  BY <1>1, <1>2, <1>3, <1>4, <1>5, <1>6, <1>7 DEF IInv

LEMMA PublishKeeps ==
    ASSUME NEW t \in Threads, IInv, Publish(t)
    PROVE  IInv'
<1>1. RouteOK' /\ AccountsOK' /\ AccountsFollow'
  BY DEF IInv, RouteOK, AccountsOK, AccountsFollow, HistoryOK, Phases, Publish
<1>2. ServiceOK' /\ UiOK' /\ CallerOK'
  <2>1. ServiceOK'
    <3>1. caller[t].gen \in Nat /\ service.manual \in Nat /\ UNCHANGED tasks
      BY DEF IInv, CallerOK, ServiceOK, Publish
    <3>2. service' = service \/ service' = [service EXCEPT !.manual = caller[t].gen]
          \/ service' = [service EXCEPT !.manual = @]
      BY DEF Publish
    <3> QED  BY <3>1, <3>2 DEF IInv, ServiceOK
  <2>2. UiOK'
    BY DEF IInv, UiOK, ServiceOK, Publish
  <2>3. CallerOK'
    BY Zenon DEF IInv, CallerOK, Publish
  <2> QED  BY <2>1, <2>2, <2>3
<1>3. ControlOK' /\ WorkerOK' /\ HistoryOK'
  BY DEF IInv, ControlOK, WorkerOK, HistoryOK, TunnelInv, ServiceOK, UiOK, Publish
<1>4. TunnelInv' /\ UpInv'
  BY DEF IInv, ControlOK, WorkerOK, HistoryOK, TunnelInv, UpInv, Publish
<1>5. PendingInv' /\ UpdateInv'
  BY DEF IInv, ControlOK, WorkerOK, HistoryOK, PendingInv, UpdateInv, Publish
<1>6. EndpointInv' /\ ActivationInv'
  BY DEF IInv, ControlOK, WorkerOK, HistoryOK, RouteOK, UiOK, ServiceOK, EndpointInv,
     ActivationInv, Publish
<1>7. EndpointBacked' /\ EndpointOfLatest'
  BY DEF IInv, ControlOK, WorkerOK, HistoryOK, RouteOK, EndpointInv, EndpointBacked,
     EndpointOfLatest, Publish
<1> QED
  BY <1>1, <1>2, <1>3, <1>4, <1>5, <1>6, <1>7 DEF IInv

LEMMA ScheduleFromKeeps ==
    ASSUME NEW t \in Threads, IInv, ScheduleFrom(t)
    PROVE  IInv'
<1>1. RouteOK' /\ AccountsOK' /\ AccountsFollow'
  BY DEF IInv, RouteOK, AccountsOK, AccountsFollow, HistoryOK, Phases, ScheduleFrom, Schedule
<1>2. ServiceOK' /\ UiOK' /\ CallerOK'
  <2>1. ServiceOK'
    BY DEF IInv, ServiceOK, RouteOK, ScheduleFrom, Schedule
  <2>2. UiOK'
    BY DEF IInv, UiOK, ServiceOK, ScheduleFrom, Schedule
  <2>3. CallerOK'
    BY DEF IInv, CallerOK, RouteOK, ScheduleFrom, Schedule
  <2> QED  BY <2>1, <2>2, <2>3
<1>3. ControlOK' /\ WorkerOK' /\ HistoryOK'
  BY DEF IInv, ControlOK, WorkerOK, HistoryOK, TunnelInv, ServiceOK, UiOK, ScheduleFrom,
     Schedule
<1>4. TunnelInv' /\ UpInv'
  BY DEF IInv, ControlOK, WorkerOK, HistoryOK, TunnelInv, UpInv, ScheduleFrom, Schedule
<1>5. PendingInv' /\ UpdateInv'
  BY DEF IInv, ControlOK, WorkerOK, HistoryOK, PendingInv, UpdateInv, ScheduleFrom, Schedule
<1>6. EndpointInv' /\ ActivationInv'
  BY DEF IInv, ControlOK, WorkerOK, HistoryOK, RouteOK, UiOK, ServiceOK, EndpointInv,
     ActivationInv, ScheduleFrom, Schedule
<1>7. EndpointBacked' /\ EndpointOfLatest'
  BY DEF IInv, ControlOK, WorkerOK, HistoryOK, RouteOK, EndpointInv, EndpointBacked,
     EndpointOfLatest, ScheduleFrom, Schedule
<1> QED
  BY <1>1, <1>2, <1>3, <1>4, <1>5, <1>6, <1>7 DEF IInv

LEMMA CommandKeeps ==
    ASSUME IInv, Command
    PROVE  IInv'
<1>0. /\ ui.on \in BOOLEAN /\ service.gen \in Nat /\ SetEnabled(ui.on, service.gen)
      /\ UNCHANGED <<route, tasks, worker, tunnels, startedFor>> /\ ui.pc = "command"
      /\ ui' = [ui EXCEPT !.pc = "idle"] /\ ui'.pc = "idle"
  BY DEF IInv, UiOK, ServiceOK, Command
<1>a. /\ ServiceOK' /\ ControlOK' /\ WorkerOK' /\ HistoryOK' /\ TunnelInv' /\ UpInv'
      /\ PendingInv' /\ UpdateInv' /\ control'.closed = control.closed
      /\ ~control.closed => commands' # <<>>
            /\ commands'[Len(commands')] = [on |-> ui.on, gen |-> service.gen]
  BY <1>0, Commanded
<1>1. RouteOK' /\ AccountsOK' /\ AccountsFollow'
  BY DEF IInv, RouteOK, AccountsOK, AccountsFollow, HistoryOK, Phases, Command, SetEnabled
<1>2. ServiceOK' /\ UiOK' /\ CallerOK'
  BY <1>0, <1>a DEF IInv, UiOK, CallerOK, Command
<1>3. ControlOK' /\ WorkerOK' /\ HistoryOK'
  BY <1>a
<1>4. TunnelInv' /\ UpInv'
  BY <1>a
<1>5. PendingInv' /\ UpdateInv'
  BY <1>a
<1>6. EndpointInv' /\ ActivationInv'
  BY <1>0, <1>a DEF IInv, EndpointInv, ActivationInv
<1>7. EndpointBacked' /\ EndpointOfLatest'
  BY <1>0 DEF IInv, EndpointInv, EndpointBacked, EndpointOfLatest
<1> QED
  BY <1>1, <1>2, <1>3, <1>4, <1>5, <1>6, <1>7 DEF IInv

LEMMA DeliverKeeps ==
    ASSUME IInv, Deliver
    PROVE  IInv'
<1>0. /\ ui.pc = "idle" /\ control' = [control EXCEPT !.delivery = <<>>, !.scheduled = FALSE]
      /\ UNCHANGED <<stage, service, ui, caller, commands, worker, tunnels, startedFor>>
      /\ <<>> \in Seq(Update)
  BY DEF Deliver
<1>a. \/ UNCHANGED <<route, applied>>
      \/ /\ control.delivery # <<>> /\ ~control.closed /\ control.delivery[1].phase = "up"
         /\ Expected(service.gen)
         /\ Reroute([route EXCEPT !.endpoint = control.delivery[1].endpoint, !.phase = "up"])
      \/ /\ control.delivery # <<>> /\ ~control.closed /\ control.delivery[1].phase = "failed"
         /\ Expected(service.gen)
         /\ Reroute([route EXCEPT !.requested = FALSE, !.phase = "failed", !.endpoint = 0])
  <2>0. control.delivery # <<>> => control.delivery[1].phase \in {"off", "up", "failed"}
    <3>1. ASSUME control.delivery # <<>> PROVE control.delivery[1] \in Update
      <4>1. control.delivery \in Seq(Update)
        BY DEF IInv, ControlOK
      <4> QED  BY <3>1, <4>1
    <3> QED  BY <3>1 DEF Update
  <2> QED  BY <2>0 DEF Deliver, Ready, Failed
<1>b. control.delivery # <<>> /\ control.delivery[1].phase = "up" =>
         /\ control.delivery[1].endpoint = worker.handle /\ worker.handle \in tunnels
         /\ worker.handle # 0 /\ worker.handle \in 0..Len(startedFor)
         /\ startedFor[worker.handle] = Len(commands)
         /\ control.pending = 0 /\ worker.pc = "wait"
  BY DEF IInv, UpdateInv, WorkerOK
<1>c. route' = route \/ route' = [route EXCEPT !.endpoint = control.delivery[1].endpoint, !.phase = "up"]
      \/ route' = [route EXCEPT !.requested = FALSE, !.phase = "failed", !.endpoint = 0]
  BY <1>a DEF Reroute
<1>d. control' \in [pending: 0..Len(commands), delivery: Seq(Update), scheduled: BOOLEAN,
                    closed: BOOLEAN]
      /\ control'.delivery = <<>> /\ control'.pending = control.pending
      /\ control'.closed = control.closed
  BY <1>0 DEF IInv, ControlOK
<1>1. RouteOK' /\ AccountsOK' /\ AccountsFollow'
  <2>1. CASE UNCHANGED <<route, applied>>
    BY <1>0, <2>1 DEF IInv, RouteOK, AccountsOK, AccountsFollow, Effective
  <2>2. ASSUME NEW r, Reroute(r),
               r \in [gen: Nat, requested: BOOLEAN, phase: Phases, endpoint: 0..Len(startedFor), manual: Nat]
        PROVE  RouteOK' /\ AccountsOK' /\ AccountsFollow'
    BY <1>0, <2>2, Rerouted
  <2>3. control.delivery # <<>> /\ control.delivery[1].phase = "up" =>
          [route EXCEPT !.endpoint = control.delivery[1].endpoint, !.phase = "up"]
            \in [gen: Nat, requested: BOOLEAN, phase: Phases, endpoint: 0..Len(startedFor), manual: Nat]
    BY <1>b DEF IInv, RouteOK, Phases
  <2>4. [route EXCEPT !.requested = FALSE, !.phase = "failed", !.endpoint = 0]
            \in [gen: Nat, requested: BOOLEAN, phase: Phases, endpoint: 0..Len(startedFor), manual: Nat]
    BY Lengths DEF IInv, RouteOK, Phases
  <2> QED  BY <1>a, <2>1, <2>2, <2>3, <2>4
<1>2. ServiceOK' /\ UiOK' /\ CallerOK'
  BY DEF IInv, ServiceOK, UiOK, CallerOK, RouteOK, Deliver, Ready, Failed, Expected, Reroute
<1>3. ControlOK' /\ WorkerOK' /\ HistoryOK'
  BY <1>0, <1>d DEF IInv, ControlOK, WorkerOK, HistoryOK
<1>4. TunnelInv' /\ UpInv'
  BY DEF IInv, ControlOK, WorkerOK, HistoryOK, TunnelInv, UpInv, Deliver, Ready, Failed,
     Expected, Reroute
<1>5. PendingInv' /\ UpdateInv'
  BY DEF IInv, ControlOK, WorkerOK, HistoryOK, PendingInv, UpdateInv, Deliver, Ready, Failed,
     Expected, Reroute
<1>6. EndpointInv' /\ ActivationInv'
  <2>1. CASE UNCHANGED <<route, applied>>
    BY <1>0, <1>d, <2>1 DEF IInv, EndpointInv, ActivationInv
  <2>2. CASE /\ control.delivery # <<>> /\ ~control.closed /\ control.delivery[1].phase = "up"
             /\ Expected(service.gen)
             /\ route' = [route EXCEPT !.endpoint = control.delivery[1].endpoint, !.phase = "up"]
    <3>1. route'.endpoint = worker.handle /\ route'.phase = "up" /\ route'.requested
          /\ route'.gen = route.gen /\ route.requested
      BY <1>b, <2>2 DEF IInv, RouteOK, Expected
    <3> QED  BY <1>0, <1>b, <1>d, <2>2, <3>1 DEF IInv, EndpointInv, ActivationInv
  <2>3. CASE route' = [route EXCEPT !.requested = FALSE, !.phase = "failed", !.endpoint = 0]
    <3>1. route'.endpoint = 0 /\ route'.phase = "failed" /\ ~route'.requested
      BY <2>3 DEF IInv, RouteOK
    <3> QED  BY <3>1 DEF EndpointInv, ActivationInv
  <2> QED  BY <1>a, <2>1, <2>2, <2>3 DEF Reroute
<1>7. EndpointBacked' /\ EndpointOfLatest'
  <2>1. CASE UNCHANGED <<route, applied>>
    BY <1>0, <1>d, <2>1 DEF IInv, EndpointBacked, EndpointOfLatest
  <2>2. CASE /\ control.delivery # <<>> /\ ~control.closed /\ control.delivery[1].phase = "up"
             /\ Expected(service.gen)
             /\ route' = [route EXCEPT !.endpoint = control.delivery[1].endpoint, !.phase = "up"]
    <3>1. route'.endpoint = worker.handle /\ route'.gen = route.gen /\ route.requested
      BY <1>b, <2>2 DEF IInv, RouteOK, Expected
    <3> QED  BY <1>0, <1>b, <2>2, <3>1 DEF IInv, ActivationInv, EndpointBacked, EndpointOfLatest
  <2>3. CASE route' = [route EXCEPT !.requested = FALSE, !.phase = "failed", !.endpoint = 0]
    <3>1. route'.endpoint = 0
      BY <2>3 DEF IInv, RouteOK
    <3> QED  BY <3>1 DEF EndpointBacked, EndpointOfLatest
  <2> QED  BY <1>a, <2>1, <2>2, <2>3 DEF Reroute
<1> QED
  BY <1>1, <1>2, <1>3, <1>4, <1>5, <1>6, <1>7 DEF IInv

LEMMA CancelTakeKeeps ==
    ASSUME IInv, CancelTake
    PROVE  IInv'
<1>1. RouteOK' /\ AccountsOK' /\ AccountsFollow'
  BY DEF IInv, RouteOK, AccountsOK, AccountsFollow, HistoryOK, Phases, CancelTake
<1>2. ServiceOK' /\ UiOK' /\ CallerOK'
  BY DEF IInv, ServiceOK, UiOK, CallerOK, RouteOK, CancelTake
<1>3. ControlOK' /\ WorkerOK' /\ HistoryOK'
  BY DEF IInv, ControlOK, WorkerOK, HistoryOK, TunnelInv, ServiceOK, UiOK, CancelTake
<1>4. TunnelInv' /\ UpInv'
  BY DEF IInv, ControlOK, WorkerOK, HistoryOK, TunnelInv, UpInv, CancelTake
<1>5. PendingInv' /\ UpdateInv'
  BY DEF IInv, ControlOK, WorkerOK, HistoryOK, PendingInv, UpdateInv, CancelTake
<1>6. EndpointInv' /\ ActivationInv'
  BY DEF IInv, ControlOK, WorkerOK, HistoryOK, RouteOK, UiOK, ServiceOK, EndpointInv,
     ActivationInv, CancelTake
<1>7. EndpointBacked' /\ EndpointOfLatest'
  BY DEF IInv, ControlOK, WorkerOK, HistoryOK, RouteOK, EndpointInv, EndpointBacked,
     EndpointOfLatest, CancelTake
<1> QED
  BY <1>1, <1>2, <1>3, <1>4, <1>5, <1>6, <1>7 DEF IInv

LEMMA CancelUnmarkKeeps ==
    ASSUME IInv, CancelUnmark
    PROVE  IInv'
<1>1. RouteOK' /\ AccountsOK' /\ AccountsFollow'
  BY DEF IInv, RouteOK, AccountsOK, AccountsFollow, HistoryOK, Phases, CancelUnmark
<1>2. ServiceOK' /\ UiOK' /\ CallerOK'
  BY DEF IInv, ServiceOK, UiOK, CallerOK, RouteOK, CancelUnmark
<1>3. ControlOK' /\ WorkerOK' /\ HistoryOK'
  BY DEF IInv, ControlOK, WorkerOK, HistoryOK, TunnelInv, ServiceOK, UiOK, CancelUnmark
<1>4. TunnelInv' /\ UpInv'
  BY DEF IInv, ControlOK, WorkerOK, HistoryOK, TunnelInv, UpInv, CancelUnmark
<1>5. PendingInv' /\ UpdateInv'
  BY DEF IInv, ControlOK, WorkerOK, HistoryOK, PendingInv, UpdateInv, CancelUnmark
<1>6. EndpointInv' /\ ActivationInv'
  BY DEF IInv, ControlOK, WorkerOK, HistoryOK, RouteOK, UiOK, ServiceOK, EndpointInv,
     ActivationInv, CancelUnmark
<1>7. EndpointBacked' /\ EndpointOfLatest'
  BY DEF IInv, ControlOK, WorkerOK, HistoryOK, RouteOK, EndpointInv, EndpointBacked,
     EndpointOfLatest, CancelUnmark
<1> QED
  BY <1>1, <1>2, <1>3, <1>4, <1>5, <1>6, <1>7 DEF IInv

LEMMA CancelCheckKeeps ==
    ASSUME IInv, CancelCheck
    PROVE  IInv'
<1>0. /\ UNCHANGED <<route, tasks, worker, tunnels, startedFor>> /\ ui.pc = "check"
      /\ ui' = [ui EXCEPT !.pc = "again"] /\ ui'.pc = "again"
  BY DEF IInv, UiOK, CancelCheck
<1>a. /\ ServiceOK' /\ ControlOK' /\ WorkerOK' /\ HistoryOK' /\ TunnelInv' /\ UpInv'
      /\ PendingInv' /\ UpdateInv' /\ control'.closed = control.closed
      /\ ~route.requested \/ UNCHANGED <<control, commands>>
  <2>1. CASE SetEnabled(FALSE, ui.revoked) /\ ~route.requested
    <3>1. ui.revoked \in Nat
      BY DEF IInv, UiOK
    <3> QED  BY <1>0, <2>1, <3>1, Commanded
  <2>2. CASE UNCHANGED <<service, control, commands>>
    BY <1>0, <2>2 DEF IInv, ServiceOK, ControlOK, WorkerOK, HistoryOK, TunnelInv, UpInv,
       PendingInv, UpdateInv
  <2> QED  BY <2>1, <2>2 DEF CancelCheck
<1>1. RouteOK' /\ AccountsOK' /\ AccountsFollow'
  BY DEF IInv, RouteOK, AccountsOK, AccountsFollow, HistoryOK, Phases, CancelCheck, SetEnabled
<1>2. ServiceOK' /\ UiOK' /\ CallerOK'
  BY <1>0, <1>a DEF IInv, UiOK, CallerOK, CancelCheck
<1>3. ControlOK' /\ WorkerOK' /\ HistoryOK'
  BY <1>a
<1>4. TunnelInv' /\ UpInv'
  BY <1>a
<1>5. PendingInv' /\ UpdateInv'
  BY <1>a
<1>6. EndpointInv' /\ ActivationInv'
  BY <1>0, <1>a DEF IInv, EndpointInv, ActivationInv
<1>7. EndpointBacked' /\ EndpointOfLatest'
  BY <1>0, <1>a DEF IInv, EndpointInv, EndpointBacked, EndpointOfLatest
<1> QED
  BY <1>1, <1>2, <1>3, <1>4, <1>5, <1>6, <1>7 DEF IInv

LEMMA CancelAgainKeeps ==
    ASSUME IInv, CancelAgain
    PROVE  IInv'
<1>1. RouteOK' /\ AccountsOK' /\ AccountsFollow'
  BY DEF IInv, RouteOK, AccountsOK, AccountsFollow, HistoryOK, Phases, CancelAgain, Schedule
<1>2. ServiceOK' /\ UiOK' /\ CallerOK'
  BY DEF IInv, ServiceOK, UiOK, CallerOK, RouteOK, CancelAgain, Schedule
<1>3. ControlOK' /\ WorkerOK' /\ HistoryOK'
  BY DEF IInv, ControlOK, WorkerOK, HistoryOK, TunnelInv, ServiceOK, UiOK, CancelAgain, Schedule
<1>4. TunnelInv' /\ UpInv'
  BY DEF IInv, ControlOK, WorkerOK, HistoryOK, TunnelInv, UpInv, CancelAgain, Schedule
<1>5. PendingInv' /\ UpdateInv'
  BY DEF IInv, ControlOK, WorkerOK, HistoryOK, PendingInv, UpdateInv, CancelAgain, Schedule
<1>6. EndpointInv' /\ ActivationInv'
  BY DEF IInv, ControlOK, WorkerOK, HistoryOK, RouteOK, UiOK, ServiceOK, EndpointInv,
     ActivationInv, CancelAgain, Schedule
<1>7. EndpointBacked' /\ EndpointOfLatest'
  BY DEF IInv, ControlOK, WorkerOK, HistoryOK, RouteOK, EndpointInv, EndpointBacked,
     EndpointOfLatest, CancelAgain, Schedule
<1> QED
  BY <1>1, <1>2, <1>3, <1>4, <1>5, <1>6, <1>7 DEF IInv

LEMMA CloseKeeps ==
    ASSUME IInv, Close
    PROVE  IInv'
<1>1. RouteOK' /\ AccountsOK' /\ AccountsFollow'
  BY DEF IInv, RouteOK, AccountsOK, AccountsFollow, HistoryOK, Phases, Close
<1>2. ServiceOK' /\ UiOK' /\ CallerOK'
  BY DEF IInv, ServiceOK, UiOK, CallerOK, RouteOK, Close
<1>3. ControlOK' /\ WorkerOK' /\ HistoryOK'
  <2>1. ControlOK'
    BY Lengths DEF IInv, ControlOK, Close
  <2>2. WorkerOK'
    BY DEF IInv, WorkerOK, ControlOK, HistoryOK, Close
  <2>3. HistoryOK'
    BY DEF IInv, HistoryOK, WorkerOK, Close
  <2> QED  BY <2>1, <2>2, <2>3
<1>4. TunnelInv' /\ UpInv'
  BY DEF IInv, ControlOK, WorkerOK, HistoryOK, TunnelInv, UpInv, Close
<1>5. PendingInv' /\ UpdateInv'
  BY DEF IInv, ControlOK, WorkerOK, HistoryOK, PendingInv, UpdateInv, Close
<1>6. EndpointInv' /\ ActivationInv'
  BY DEF IInv, ControlOK, WorkerOK, HistoryOK, RouteOK, UiOK, ServiceOK, EndpointInv,
     ActivationInv, Close
<1>7. EndpointBacked' /\ EndpointOfLatest'
  BY DEF IInv, ControlOK, WorkerOK, HistoryOK, RouteOK, EndpointInv, EndpointBacked,
     EndpointOfLatest, Close
<1> QED
  BY <1>1, <1>2, <1>3, <1>4, <1>5, <1>6, <1>7 DEF IInv

LEMMA TakeKeeps ==
    ASSUME IInv, Take
    PROVE  IInv'
<1>1. RouteOK' /\ AccountsOK' /\ AccountsFollow'
  BY DEF IInv, RouteOK, AccountsOK, AccountsFollow, HistoryOK, Phases, Take, Unchanged
<1>2. ServiceOK' /\ UiOK' /\ CallerOK'
  BY DEF IInv, ServiceOK, UiOK, CallerOK, RouteOK, Take, Unchanged
<1>3. ControlOK' /\ WorkerOK' /\ HistoryOK'
  <2>1. ControlOK'
    BY Lengths DEF IInv, ControlOK, Take, Unchanged
  <2>2. WorkerOK'
    BY DEF IInv, WorkerOK, ControlOK, HistoryOK, Take, Unchanged
  <2>3. HistoryOK'
    BY DEF IInv, HistoryOK, WorkerOK, Take, Unchanged
  <2> QED  BY <2>1, <2>2, <2>3
<1>4. TunnelInv' /\ UpInv'
  BY DEF IInv, ControlOK, WorkerOK, HistoryOK, TunnelInv, UpInv, Take, Unchanged
<1>5. PendingInv' /\ UpdateInv'
  BY DEF IInv, ControlOK, WorkerOK, HistoryOK, PendingInv, UpdateInv, Take, Unchanged
<1>6. EndpointInv' /\ ActivationInv'
  BY DEF IInv, ControlOK, WorkerOK, HistoryOK, RouteOK, UiOK, ServiceOK, EndpointInv,
     ActivationInv, Take, Unchanged
<1>7. EndpointBacked' /\ EndpointOfLatest'
  BY DEF IInv, ControlOK, WorkerOK, HistoryOK, RouteOK, EndpointInv, EndpointBacked,
     EndpointOfLatest, Take, Unchanged
<1> QED
  BY <1>1, <1>2, <1>3, <1>4, <1>5, <1>6, <1>7 DEF IInv

LEMMA StopPreviousKeeps ==
    ASSUME IInv, StopPrevious
    PROVE  IInv'
<1>1. RouteOK' /\ AccountsOK' /\ AccountsFollow'
  BY DEF IInv, RouteOK, AccountsOK, AccountsFollow, HistoryOK, Phases, StopPrevious, Unchanged
<1>2. ServiceOK' /\ UiOK' /\ CallerOK'
  BY DEF IInv, ServiceOK, UiOK, CallerOK, RouteOK, StopPrevious, Unchanged
<1>3. ControlOK' /\ WorkerOK' /\ HistoryOK'
  <2>1. ControlOK'
    BY DEF IInv, ControlOK, WorkerOK, HistoryOK, StopPrevious, Unchanged
  <2>2. WorkerOK'
    <3>1. \/ worker' = [worker EXCEPT !.pc = "check", !.handle = 0]
          \/ worker' = [worker EXCEPT !.pc = "fail"]
      BY DEF StopPrevious
    <3> QED  BY <3>1, Lengths DEF IInv, WorkerOK, StopPrevious, Unchanged
  <2>3. HistoryOK'
    BY DEF IInv, HistoryOK, WorkerOK, StopPrevious, Unchanged
  <2> QED  BY <2>1, <2>2, <2>3
<1>4. TunnelInv' /\ UpInv'
  BY DEF IInv, ControlOK, WorkerOK, HistoryOK, TunnelInv, UpInv, StopPrevious, Unchanged
<1>5. PendingInv' /\ UpdateInv'
  BY DEF IInv, ControlOK, WorkerOK, HistoryOK, PendingInv, UpdateInv, StopPrevious, Unchanged
<1>6. EndpointInv' /\ ActivationInv'
  BY DEF IInv, ControlOK, WorkerOK, HistoryOK, RouteOK, UiOK, ServiceOK, EndpointInv,
     ActivationInv, StopPrevious, Unchanged
<1>7. EndpointBacked' /\ EndpointOfLatest'
  BY DEF IInv, ControlOK, WorkerOK, HistoryOK, RouteOK, EndpointInv, EndpointBacked,
     EndpointOfLatest, StopPrevious, Unchanged
<1> QED
  BY <1>1, <1>2, <1>3, <1>4, <1>5, <1>6, <1>7 DEF IInv

LEMMA CheckKeeps ==
    ASSUME IInv, Check
    PROVE  IInv'
<1>1. RouteOK' /\ AccountsOK' /\ AccountsFollow'
  BY DEF IInv, RouteOK, AccountsOK, AccountsFollow, HistoryOK, Phases, Check, Unchanged, Current
<1>2. ServiceOK' /\ UiOK' /\ CallerOK'
  BY DEF IInv, ServiceOK, UiOK, CallerOK, RouteOK, Check, Unchanged, Current
<1>3. ControlOK' /\ WorkerOK' /\ HistoryOK'
  BY DEF IInv, ControlOK, WorkerOK, HistoryOK, TunnelInv, ServiceOK, UiOK, Check, Unchanged,
     Current
<1>4. TunnelInv' /\ UpInv'
  BY DEF IInv, ControlOK, WorkerOK, HistoryOK, TunnelInv, UpInv, Check, Unchanged, Current
<1>5. PendingInv' /\ UpdateInv'
  BY DEF IInv, ControlOK, WorkerOK, HistoryOK, PendingInv, UpdateInv, Check, Unchanged, Current
<1>6. EndpointInv' /\ ActivationInv'
  BY DEF IInv, ControlOK, WorkerOK, HistoryOK, RouteOK, UiOK, ServiceOK, EndpointInv,
     ActivationInv, Check, Unchanged, Current
<1>7. EndpointBacked' /\ EndpointOfLatest'
  BY DEF IInv, ControlOK, WorkerOK, HistoryOK, RouteOK, EndpointInv, EndpointBacked,
     EndpointOfLatest, Check, Unchanged, Current
<1> QED
  BY <1>1, <1>2, <1>3, <1>4, <1>5, <1>6, <1>7 DEF IInv

LEMMA StartKeeps ==
    ASSUME IInv, Start
    PROVE  IInv'
<1>0. /\ worker.pc = "start" /\ worker.rev \in 1..Len(commands) /\ tunnels = {}
      /\ startedFor \in Seq(1..Len(commands)) /\ Len(startedFor) \in Nat
      /\ tunnels \subseteq 1..Len(startedFor) /\ Len(commands) \in Nat
      /\ UNCHANGED <<commands, control>> /\ worker.handle = 0
  BY Lengths DEF IInv, WorkerOK, TunnelInv, HistoryOK, Start, Unchanged
<1>a. \/ /\ startedFor' = Append(startedFor, worker.rev)
         /\ tunnels' = {Len(startedFor) + 1}
         /\ worker' = [worker EXCEPT !.pc = "confirm", !.handle = Len(startedFor) + 1]
      \/ worker' = [worker EXCEPT !.pc = "fail"] /\ UNCHANGED <<tunnels, startedFor>>
  BY <1>0 DEF Start
<1>b. /\ startedFor' \in Seq(1..Len(commands)) /\ Len(startedFor') \in {Len(startedFor), Len(startedFor) + 1}
      /\ \A i \in 1..Len(startedFor) : startedFor'[i] = startedFor[i]
  <2>1. CASE startedFor' = Append(startedFor, worker.rev)
    <3> DEFINE rev == worker.rev
    <3> DEFINE S == 1..Len(commands)
    <3>1. startedFor \in Seq(S) /\ rev \in S /\ startedFor' = Append(startedFor, rev)
      BY <1>0, <2>1
    <3> HIDE DEF rev, S
    <3>2. startedFor' \in Seq(S) /\ Len(startedFor') = Len(startedFor) + 1
          /\ \A i \in 1..Len(startedFor) : startedFor'[i] = startedFor[i]
      BY <3>1
    <3> QED  BY <3>2 DEF S
  <2>2. CASE UNCHANGED startedFor
    BY <1>0, <2>2
  <2> QED  BY <1>a, <2>1, <2>2
<1>c. tunnels' # {} => /\ tunnels' = {Len(startedFor) + 1}
                       /\ Len(startedFor') = Len(startedFor) + 1
                       /\ startedFor'[Len(startedFor) + 1] = worker.rev
  BY <1>0, <1>a
<1>d. \/ /\ worker' = [worker EXCEPT !.pc = "confirm", !.handle = Len(startedFor) + 1]
         /\ tunnels' # {}
      \/ worker' = [worker EXCEPT !.pc = "fail"] /\ tunnels' = {}
  BY <1>0, <1>a
<1>1. RouteOK' /\ AccountsOK' /\ AccountsFollow'
  BY DEF IInv, RouteOK, AccountsOK, AccountsFollow, HistoryOK, Phases, Start, Unchanged
<1>2. ServiceOK' /\ UiOK' /\ CallerOK'
  BY DEF IInv, ServiceOK, UiOK, CallerOK, RouteOK, Start, Unchanged
<1>3. ControlOK' /\ WorkerOK' /\ HistoryOK'
  <2>1. ControlOK'
    BY DEF IInv, ControlOK, WorkerOK, HistoryOK, Start, Unchanged
  <2>2. WorkerOK'
    <3>1. Len(startedFor') \in Nat /\ worker.handle \in 0..Len(startedFor')
          /\ (tunnels' # {} => Len(startedFor) + 1 \in 0..Len(startedFor'))
      BY <1>0, <1>b, <1>c
    <3> QED  BY <1>0, <1>d, <3>1 DEF IInv, WorkerOK
  <2>3. HistoryOK'
    <3>1. tunnels' \subseteq 1..Len(startedFor')
      BY <1>0, <1>c
    <3> QED  BY <1>0, <1>b, <3>1 DEF IInv, HistoryOK
  <2> QED  BY <2>1, <2>2, <2>3
<1>4. TunnelInv' /\ UpInv'
  <2>1. CASE tunnels' # {}
    <3>1. worker'.pc = "confirm" /\ worker'.handle = Len(startedFor) + 1 /\ worker'.rev = worker.rev
      BY <1>d, <2>1 DEF IInv, WorkerOK
    <3>2. Len(startedFor) + 1 # 0 /\ worker.rev # 0
      BY <1>0
    <3> QED  BY <1>c, <2>1, <3>1, <3>2 DEF TunnelInv, UpInv
  <2>2. CASE tunnels' = {}
    <3>1. worker'.pc = "fail" /\ worker'.rev = worker.rev /\ worker.rev # 0
      BY <1>0, <1>d, <2>2 DEF IInv, WorkerOK
    <3> QED  BY <2>2, <3>1 DEF TunnelInv, UpInv
  <2> QED  BY <2>1, <2>2
<1>5. PendingInv' /\ UpdateInv'
  BY DEF IInv, ControlOK, WorkerOK, HistoryOK, PendingInv, UpdateInv, Start, Unchanged
<1>6. EndpointInv' /\ ActivationInv'
  BY DEF IInv, ControlOK, WorkerOK, HistoryOK, RouteOK, UiOK, ServiceOK, EndpointInv,
     ActivationInv, Start, Unchanged
<1>7. EndpointBacked' /\ EndpointOfLatest'
  <2>1. route.endpoint # 0 => control.closed /\ route.endpoint \in 1..Len(startedFor)
    BY <1>0 DEF IInv, EndpointInv, RouteOK
  <2>2. UNCHANGED <<route, control, commands>>
    BY DEF Start, Unchanged
  <2> QED  BY <1>b, <2>1, <2>2 DEF IInv, EndpointBacked, EndpointOfLatest
<1> QED
  BY <1>1, <1>2, <1>3, <1>4, <1>5, <1>6, <1>7 DEF IInv

LEMMA ConfirmKeeps ==
    ASSUME IInv, Confirm
    PROVE  IInv'
<1>1. RouteOK' /\ AccountsOK' /\ AccountsFollow'
  BY DEF IInv, RouteOK, AccountsOK, AccountsFollow, HistoryOK, Phases, Confirm, Unchanged,
     Current
<1>2. ServiceOK' /\ UiOK' /\ CallerOK'
  BY DEF IInv, ServiceOK, UiOK, CallerOK, RouteOK, Confirm, Unchanged, Current
<1>3. ControlOK' /\ WorkerOK' /\ HistoryOK'
  BY DEF IInv, ControlOK, WorkerOK, HistoryOK, TunnelInv, ServiceOK, UiOK, Confirm, Unchanged,
     Current
<1>4. TunnelInv' /\ UpInv'
  BY DEF IInv, ControlOK, WorkerOK, HistoryOK, TunnelInv, UpInv, Confirm, Unchanged, Current
<1>5. PendingInv' /\ UpdateInv'
  BY DEF IInv, ControlOK, WorkerOK, HistoryOK, PendingInv, UpdateInv, Confirm, Unchanged,
     Current
<1>6. EndpointInv' /\ ActivationInv'
  BY DEF IInv, ControlOK, WorkerOK, HistoryOK, RouteOK, UiOK, ServiceOK, EndpointInv,
     ActivationInv, Confirm, Unchanged, Current
<1>7. EndpointBacked' /\ EndpointOfLatest'
  BY DEF IInv, ControlOK, WorkerOK, HistoryOK, RouteOK, EndpointInv, EndpointBacked,
     EndpointOfLatest, Confirm, Unchanged, Current
<1> QED
  BY <1>1, <1>2, <1>3, <1>4, <1>5, <1>6, <1>7 DEF IInv

LEMMA CheckReadyKeeps ==
    ASSUME IInv, CheckReady
    PROVE  IInv'
<1>1. RouteOK' /\ AccountsOK' /\ AccountsFollow'
  BY DEF IInv, RouteOK, AccountsOK, AccountsFollow, HistoryOK, Phases, CheckReady, Unchanged
<1>2. ServiceOK' /\ UiOK' /\ CallerOK'
  BY DEF IInv, ServiceOK, UiOK, CallerOK, RouteOK, CheckReady, Unchanged
<1>3. ControlOK' /\ WorkerOK' /\ HistoryOK'
  BY DEF IInv, ControlOK, WorkerOK, HistoryOK, TunnelInv, ServiceOK, UiOK, CheckReady, Unchanged
<1>4. TunnelInv' /\ UpInv'
  BY DEF IInv, ControlOK, WorkerOK, HistoryOK, TunnelInv, UpInv, CheckReady, Unchanged
<1>5. PendingInv' /\ UpdateInv'
  BY DEF IInv, ControlOK, WorkerOK, HistoryOK, PendingInv, UpdateInv, CheckReady, Unchanged
<1>6. EndpointInv' /\ ActivationInv'
  BY DEF IInv, ControlOK, WorkerOK, HistoryOK, RouteOK, UiOK, ServiceOK, EndpointInv,
     ActivationInv, CheckReady, Unchanged
<1>7. EndpointBacked' /\ EndpointOfLatest'
  BY DEF IInv, ControlOK, WorkerOK, HistoryOK, RouteOK, EndpointInv, EndpointBacked,
     EndpointOfLatest, CheckReady, Unchanged
<1> QED
  BY <1>1, <1>2, <1>3, <1>4, <1>5, <1>6, <1>7 DEF IInv

LEMMA FailKeeps ==
    ASSUME IInv, Fail
    PROVE  IInv'
<1>1. RouteOK' /\ AccountsOK' /\ AccountsFollow'
  BY DEF IInv, RouteOK, AccountsOK, AccountsFollow, HistoryOK, Phases, Fail, Unchanged
<1>2. ServiceOK' /\ UiOK' /\ CallerOK'
  BY DEF IInv, ServiceOK, UiOK, CallerOK, RouteOK, Fail, Unchanged
<1>3. ControlOK' /\ WorkerOK' /\ HistoryOK'
  <2>1. ControlOK'
    BY DEF IInv, ControlOK, WorkerOK, HistoryOK, Fail, Unchanged
  <2>2. WorkerOK'
    <3>1. PICK handle \in {0} \cup ({worker.handle} \cap tunnels) :
            worker' = [worker EXCEPT !.pc = "post", !.outcome = "failed", !.handle = handle]
      BY DEF Fail
    <3>2. handle \in 0..Len(startedFor)
      BY <3>1, Lengths DEF IInv, WorkerOK
    <3> QED  BY <3>1, <3>2 DEF IInv, WorkerOK, Fail, Unchanged
  <2>3. HistoryOK'
    BY DEF IInv, HistoryOK, WorkerOK, Fail, Unchanged
  <2> QED  BY <2>1, <2>2, <2>3
<1>4. TunnelInv' /\ UpInv'
  BY DEF IInv, ControlOK, WorkerOK, HistoryOK, TunnelInv, UpInv, Fail, Unchanged
<1>5. PendingInv' /\ UpdateInv'
  BY DEF IInv, ControlOK, WorkerOK, HistoryOK, PendingInv, UpdateInv, Fail, Unchanged
<1>6. EndpointInv' /\ ActivationInv'
  BY DEF IInv, ControlOK, WorkerOK, HistoryOK, RouteOK, UiOK, ServiceOK, EndpointInv,
     ActivationInv, Fail, Unchanged
<1>7. EndpointBacked' /\ EndpointOfLatest'
  BY DEF IInv, ControlOK, WorkerOK, HistoryOK, RouteOK, EndpointInv, EndpointBacked,
     EndpointOfLatest, Fail, Unchanged
<1> QED
  BY <1>1, <1>2, <1>3, <1>4, <1>5, <1>6, <1>7 DEF IInv

LEMMA PostKeeps ==
    ASSUME IInv, Post
    PROVE  IInv'
<1>0. /\ worker.pc = "post" /\ worker' = [worker EXCEPT !.pc = "wait"] /\ worker'.pc = "wait"
      /\ worker'.rev = worker.rev /\ worker'.handle = worker.handle
      /\ UNCHANGED <<commands, tunnels, startedFor>>
  BY DEF IInv, WorkerOK, Post, Unchanged
<1>a. \/ UNCHANGED control /\ control.delivery = <<>>
      \/ /\ Current
         /\ control' = [control EXCEPT !.scheduled = TRUE, !.delivery =
                           <<[rev |-> worker.rev, phase |-> worker.outcome,
                              endpoint |-> worker.handle]>>]
  BY DEF IInv, UpdateInv, Post
<1>b. [rev |-> worker.rev, phase |-> worker.outcome, endpoint |-> worker.handle] \in Update
  BY Lengths DEF IInv, WorkerOK, Update
<1>c. \/ UNCHANGED control /\ control.delivery = <<>>
      \/ /\ ~control.closed /\ worker.rev = Len(commands)
         /\ control'.delivery \in Seq(Update) /\ control'.delivery[1].rev = worker.rev
         /\ control'.delivery[1].phase = worker.outcome
         /\ control'.delivery[1].endpoint = worker.handle
         /\ control'.pending = control.pending /\ control'.closed = control.closed
         /\ control' \in [pending: 0..Len(commands), delivery: Seq(Update), scheduled: BOOLEAN,
                          closed: BOOLEAN]
  <2> DEFINE u == [rev |-> worker.rev, phase |-> worker.outcome, endpoint |-> worker.handle]
  <2>1. u.rev = worker.rev /\ u.phase = worker.outcome /\ u.endpoint = worker.handle /\ u \in Update
    BY <1>b
  <2>2. CASE Current /\ control' = [control EXCEPT !.scheduled = TRUE, !.delivery = <<u>>]
    <3> HIDE DEF u
    <3>1. <<u>> \in Seq(Update) /\ <<u>>[1] = u
      BY <2>1
    <3>2. control'.delivery = <<u>> /\ control'.pending = control.pending
          /\ control'.closed = control.closed
          /\ control' \in [pending: 0..Len(commands), delivery: Seq(Update), scheduled: BOOLEAN,
                          closed: BOOLEAN]
      BY <2>2, <3>1 DEF IInv, ControlOK
    <3> QED  BY <2>1, <2>2, <3>1, <3>2 DEF Current
  <2> QED  BY <1>a, <2>2
<1>1. RouteOK' /\ AccountsOK' /\ AccountsFollow'
  BY DEF IInv, RouteOK, AccountsOK, AccountsFollow, HistoryOK, Phases, Post, Unchanged, Current
<1>2. ServiceOK' /\ UiOK' /\ CallerOK'
  BY DEF IInv, ServiceOK, UiOK, CallerOK, RouteOK, Post, Unchanged, Current
<1>3. ControlOK' /\ WorkerOK' /\ HistoryOK'
  <2>1. ControlOK'
    BY <1>0, <1>c DEF IInv, ControlOK
  <2>2. WorkerOK'
    BY DEF IInv, WorkerOK, ControlOK, HistoryOK, Post, Unchanged, Current
  <2>3. HistoryOK'
    BY DEF IInv, HistoryOK, WorkerOK, Post, Unchanged, Current
  <2> QED  BY <2>1, <2>2, <2>3
<1>4. TunnelInv' /\ UpInv'
  BY DEF IInv, ControlOK, WorkerOK, HistoryOK, TunnelInv, UpInv, Post, Unchanged, Current
<1>5. PendingInv' /\ UpdateInv'
  <2>1. PendingInv'
    BY <1>0, <1>c DEF IInv, PendingInv
  <2>2. UpdateInv'
    <3>1. control.pending = 0 \/ worker.rev # Len(commands)
      BY DEF IInv, ControlOK, WorkerOK, PendingInv
    <3> QED  BY <1>0, <1>c, <3>1 DEF IInv, UpInv, UpdateInv
  <2> QED  BY <2>1, <2>2
<1>6. EndpointInv' /\ ActivationInv'
  BY DEF IInv, ControlOK, WorkerOK, HistoryOK, RouteOK, UiOK, ServiceOK, EndpointInv,
     ActivationInv, Post, Unchanged, Current
<1>7. EndpointBacked' /\ EndpointOfLatest'
  BY DEF IInv, ControlOK, WorkerOK, HistoryOK, RouteOK, EndpointInv, EndpointBacked,
     EndpointOfLatest, Post, Unchanged, Current
<1> QED
  BY <1>1, <1>2, <1>3, <1>4, <1>5, <1>6, <1>7 DEF IInv

LEMMA TerminateKeeps ==
    ASSUME IInv, Terminate
    PROVE  IInv'
<1>1. RouteOK' /\ AccountsOK' /\ AccountsFollow'
  BY DEF IInv, RouteOK, AccountsOK, AccountsFollow, HistoryOK, Phases, Terminate, Unchanged
<1>2. ServiceOK' /\ UiOK' /\ CallerOK'
  BY DEF IInv, ServiceOK, UiOK, CallerOK, RouteOK, Terminate, Unchanged
<1>3. ControlOK' /\ WorkerOK' /\ HistoryOK'
  <2>1. ControlOK'
    BY DEF IInv, ControlOK, WorkerOK, HistoryOK, Terminate, Unchanged
  <2>2. WorkerOK'
    BY Lengths DEF IInv, WorkerOK, Terminate, Unchanged
  <2>3. HistoryOK'
    BY DEF IInv, HistoryOK, WorkerOK, Terminate, Unchanged
  <2> QED  BY <2>1, <2>2, <2>3
<1>4. TunnelInv' /\ UpInv'
  BY DEF IInv, ControlOK, WorkerOK, HistoryOK, TunnelInv, UpInv, Terminate, Unchanged
<1>5. PendingInv' /\ UpdateInv'
  BY DEF IInv, ControlOK, WorkerOK, HistoryOK, PendingInv, UpdateInv, Terminate, Unchanged
<1>6. EndpointInv' /\ ActivationInv'
  BY DEF IInv, ControlOK, WorkerOK, HistoryOK, RouteOK, UiOK, ServiceOK, EndpointInv,
     ActivationInv, Terminate, Unchanged
<1>7. EndpointBacked' /\ EndpointOfLatest'
  BY DEF IInv, ControlOK, WorkerOK, HistoryOK, RouteOK, EndpointInv, EndpointBacked,
     EndpointOfLatest, Terminate, Unchanged
<1> QED
  BY <1>1, <1>2, <1>3, <1>4, <1>5, <1>6, <1>7 DEF IInv

LEMMA InitHolds ==
    ASSUME Init
    PROVE  IInv
<1>1. RouteOK /\ AccountsOK /\ ServiceOK /\ UiOK /\ CallerOK
  BY DEF Init, RouteOK, AccountsOK, ServiceOK, UiOK, CallerOK, Phases
<1>2. <<>> \in Seq(Update) /\ <<>> \in Seq([on: BOOLEAN, gen: Nat]) /\ <<>> \in Seq(1..0)
      /\ Len(<<>>) = 0
  OBVIOUS
<1>3. ControlOK /\ WorkerOK /\ HistoryOK
  BY <1>2 DEF Init, ControlOK, WorkerOK, HistoryOK
<1>4. /\ AccountsFollow /\ TunnelInv /\ UpInv /\ PendingInv /\ UpdateInv /\ EndpointInv
      /\ ActivationInv /\ EndpointBacked /\ EndpointOfLatest
  BY DEF Init, AccountsFollow, TunnelInv, UpInv, PendingInv, UpdateInv, EndpointInv,
     ActivationInv, EndpointBacked, EndpointOfLatest
<1> QED
  BY <1>1, <1>3, <1>4 DEF IInv

LEMMA StutterKeeps ==
    ASSUME IInv, UNCHANGED vars
    PROVE  IInv'
<1>1. RouteOK' /\ AccountsOK' /\ ServiceOK' /\ UiOK' /\ CallerOK' /\ AccountsFollow'
  BY DEF IInv, vars, RouteOK, AccountsOK, ServiceOK, UiOK, CallerOK, AccountsFollow, Effective
<1>2. ControlOK' /\ WorkerOK' /\ HistoryOK'
  BY DEF IInv, vars, ControlOK, WorkerOK, HistoryOK
<1>3. TunnelInv' /\ UpInv' /\ PendingInv' /\ UpdateInv'
  BY DEF IInv, vars, TunnelInv, UpInv, PendingInv, UpdateInv
<1>4. EndpointInv' /\ ActivationInv' /\ EndpointBacked' /\ EndpointOfLatest'
  BY DEF IInv, vars, EndpointInv, ActivationInv, EndpointBacked, EndpointOfLatest
<1> QED
  BY <1>1, <1>2, <1>3, <1>4 DEF IInv

LEMMA NextKeeps ==
    ASSUME IInv, [Next]_vars
    PROVE  IInv'
<1>1. CASE UiStep
  BY <1>1, CommandKeeps, DeliverKeeps, CancelTakeKeeps, CancelUnmarkKeeps, CancelCheckKeeps,
     CancelAgainKeeps DEF UiStep
<1>2. CASE WorkerStep
  BY <1>2, TakeKeeps, StopPreviousKeeps, CheckKeeps, StartKeeps, ConfirmKeeps,
     CheckReadyKeeps, FailKeeps, PostKeeps, TerminateKeeps DEF WorkerStep
<1>3. CASE \E a \in Accounts : BeforeInitialize(a) \/ AfterInitialize(a)
  BY <1>3, BeforeInitializeKeeps, AfterInitializeKeeps
<1>4. CASE \E on \in BOOLEAN : Begin(on)
  BY <1>4, BeginKeeps
<1>5. CASE \E t \in Threads : Select(t) \/ Publish(t) \/ ScheduleFrom(t)
  BY <1>5, SelectKeeps, PublishKeeps, ScheduleFromKeeps
<1>6. CASE Close \/ UNCHANGED vars
  BY <1>6, CloseKeeps, StutterKeeps
<1> QED
  BY <1>1, <1>2, <1>3, <1>4, <1>5, <1>6 DEF Next

(* The inductive invariant holds at every moment.                          *)
THEOREM Invariance == Spec => []IInv
  BY InitHolds, NextKeeps, PTL DEF Spec

----------------------------------------------------------------------------
(* The route *)

LEMMA Typed ==
    ASSUME IInv
    PROVE  TypeOK
<1>1. route \in [gen: Nat, requested: BOOLEAN, phase: Phases, endpoint: 0..Len(startedFor), manual: Nat]
      /\ stage \in [Accounts -> {"cold", "initializing", "ready"}]
      /\ applied \in [Accounts -> {"none", "manual", "tunnel"} \X Nat]
  BY DEF IInv, RouteOK, AccountsOK
<1>2. /\ service \in [created: BOOLEAN, gen: Nat, rev: Nat, manual: Nat, posted: BOOLEAN]
      /\ tasks \subseteq {"deliver", "cancel"}
      /\ ui.pc \in {"idle", "command", "unmark", "check", "again"}
      /\ \A t \in Threads : caller[t].pc \in {"idle", "publish", "schedule"}
  BY DEF IInv, ServiceOK, UiOK, CallerOK
<1>3. /\ control.pending \in 0..Len(commands)
      /\ control.scheduled \in BOOLEAN /\ control.closed \in BOOLEAN
      /\ control.delivery # <<>> => control.delivery[1].rev = Len(commands)
  BY DEF IInv, ControlOK
<1>4. /\ worker.pc \in {"wait", "stop", "check", "start", "confirm", "ready", "fail", "post",
                        "terminated"}
      /\ worker.rev \in 0..Len(commands) /\ worker.handle \in 0..Len(startedFor)
  BY DEF IInv, WorkerOK
<1>5. /\ commands \in Seq([on: BOOLEAN, gen: Nat])
      /\ tunnels \subseteq Handles /\ startedFor \in Seq(Revisions)
  BY DEF IInv, HistoryOK, Handles, Revisions
<1> QED
  BY <1>1, <1>2, <1>3, <1>4, <1>5 DEF TypeOK

(* Whatever the threads interleave, every initialised account uses the     *)
(* route in force, the route points to a tunnel that runs and was started  *)
(* for its latest change, no delayed cancellation displaces a newer        *)
(* activation, and at most one tunnel is registered.                       *)
THEOREM RouteAlwaysSound == Spec => []RouteSound
<1>1. IInv => ActivationHeld
  BY DEF IInv, ActivationInv, ActivationHeld
<1>2. IInv => OneTunnel
  <2> SUFFICES ASSUME IInv PROVE OneTunnel
    OBVIOUS
  <2>1. tunnels = {} \/ tunnels = {worker.handle}
    BY DEF IInv, TunnelInv
  <2>2. Cardinality({}) = 0 /\ Cardinality({worker.handle}) = 1
    BY FS_EmptySet, FS_Singleton
  <2> QED
    BY <2>1, <2>2 DEF OneTunnel
<1>3. IInv => RouteSound
  BY <1>1, <1>2, Typed DEF IInv, RouteSound
<1> QED
  BY <1>3, Invariance, PTL

----------------------------------------------------------------------------
(* The route implements the promise *)

(* An update that is accepted finds the route starting: it is the only    *)
(* outcome of the wish it belongs to.                                      *)
LEMMA PromiseOutcome ==
    ASSUME IInv, Deliver
    PROVE  Promise!Next \/ UNCHANGED Promise!vars
<1>1. CASE UNCHANGED route
  BY <1>1 DEF Promise!vars
<1>2. CASE \E p \in {"up", "failed"} : /\ control.delivery # <<>> /\ ~control.closed
                                       /\ route.requested /\ route'.phase = p
                                       /\ route'.gen = route.gen
  <2>1. route.phase = "starting"
    BY <1>2 DEF IInv, EndpointInv
  <2> QED
    BY <1>2, <2>1 DEF Promise!Next, Promise!Outcome
<1>3. control.delivery # <<>> => control.delivery[1].phase \in {"off", "up", "failed"}
  <2>1. ASSUME control.delivery # <<>> PROVE control.delivery[1] \in Update
    <3>1. control.delivery \in Seq(Update)
      BY DEF IInv, ControlOK
    <3> QED  BY <2>1, <3>1
  <2> QED  BY <2>1 DEF Update
<1>4. \/ UNCHANGED route
      \/ /\ control.delivery # <<>> /\ ~control.closed /\ route.requested
         /\ \/ route' = [route EXCEPT !.endpoint = control.delivery[1].endpoint, !.phase = "up"]
            \/ route' = [route EXCEPT !.requested = FALSE, !.phase = "failed", !.endpoint = 0]
  BY <1>3 DEF Deliver, Ready, Failed, Expected, Reroute
<1>5. \/ UNCHANGED route
      \/ /\ control.delivery # <<>> /\ ~control.closed /\ route.requested
         /\ route'.phase \in {"up", "failed"} /\ route'.gen = route.gen
  BY <1>4 DEF IInv, RouteOK
<1> QED
  BY <1>1, <1>2, <1>5

LEMMA PromiseStep ==
    ASSUME IInv, [Next]_vars
    PROVE  [Promise!Next]_(Promise!vars)
<1>1. CASE Deliver
  BY <1>1, PromiseOutcome
<1>2. ASSUME NEW on \in BOOLEAN, Begin(on) PROVE Promise!Next
  <2>1. route'.gen = route.gen + 1 /\ route'.phase = IF on THEN "starting" ELSE "off"
    BY <1>2 DEF IInv, RouteOK, Begin, Reroute
  <2> QED  BY <2>1 DEF Promise!Next, Promise!Wish
<1>3. ASSUME NEW t \in Threads, Select(t) PROVE Promise!Next
  <2>1. route'.gen = route.gen + 1 /\ route'.phase = "off"
    BY <1>3 DEF IInv, RouteOK, Select, Reroute
  <2> QED  BY <2>1 DEF Promise!Next, Promise!Wish
<1>4. CASE UNCHANGED route
  BY <1>4 DEF Promise!vars
<1>5. CASE Command \/ CancelTake \/ CancelUnmark \/ CancelCheck \/ CancelAgain \/ Close
           \/ UNCHANGED vars
  BY <1>4, <1>5 DEF Command, CancelTake, CancelUnmark, CancelCheck, CancelAgain, Close, vars
<1>6. CASE WorkerStep
  BY <1>4, <1>6 DEF WorkerStep, Unchanged, Take, StopPrevious, Check, Start, Confirm,
     CheckReady, Fail, Post, Terminate
<1>7. CASE \E a \in Accounts : BeforeInitialize(a) \/ AfterInitialize(a)
  BY <1>4, <1>7 DEF BeforeInitialize, AfterInitialize
<1>8. CASE \E t \in Threads : Publish(t) \/ ScheduleFrom(t)
  BY <1>4, <1>8 DEF Publish, ScheduleFrom
<1> QED
  BY <1>1, <1>2, <1>3, <1>5, <1>6, <1>7, <1>8 DEF Next, UiStep

(* Every wish takes effect at once and shows at most one outcome, never an *)
(* earlier wish's.                                                         *)
THEOREM ServiceImplementsConnection == Spec => ImplementsConnection
<1>1. Init => Promise!Init
  BY DEF Init, Promise!Init
<1> QED
  BY <1>1, PromiseStep, Invariance, PTL DEF Spec, ImplementsConnection, Promise!Spec
=============================================================================
