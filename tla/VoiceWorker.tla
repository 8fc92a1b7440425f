---------------------------- MODULE VoiceWorker ----------------------------
(***************************************************************************)
(* Offline transcription of the Windows client: the worker thread of       *)
(* voice_worker.cpp, which takes one job at a time, and the boxes of       *)
(* capy_voice_ui.cpp that start, cancel and show jobs on the UI thread.    *)
(*                                                                         *)
(* A text is the number of its job.  A step holds at most one mutex; the   *)
(* one section that is two steps, the destructor's, keeps the worker's     *)
(* mutex in between (WorkerMutexFree).  Stages, progress, languages and    *)
(* the wiping of buffers are left out.                                     *)
(***************************************************************************)
EXTENDS Naturals, Sequences

CONSTANTS Boxes,       \* transcription boxes, each opened once
          MaxJobs      \* jobs submitted

VARIABLES
    box,        \* box -> State of the UI and the text it shows
    valid,      \* boxes whose window, chat and vault handle are current
    ui,         \* the UI thread between two events: pc, box
    job,        \* jobs: the box, download allowed, cancel flag, engine
    current,    \* Worker::_current, 0 is none
    pending,    \* Worker::_pending, 0 is none
    stopping,   \* Worker::_stopping
    alive,      \* Worker::_alive
    worker,     \* the worker thread: pc, task, verified, code
    model,      \* the verified model is on disk
    posted      \* callbacks posted to the UI thread

shared  == <<current, pending, stopping, alive>>
vars    == <<box, valid, ui, job, shared, worker, model, posted>>

Jobs  == 1..Len(job)
Codes == {"Ok", "Cancelled", "ModelRequired", "Failed"}

Idle == [pc |-> "wait", task |-> 0, verified |-> FALSE, code |-> "Failed"]

TypeOK ==
    /\ box \in [Boxes -> [state: {"absent", "open", "closed"}, pending: BOOLEAN,
                          allowed: BOOLEAN, job: 0..Len(job), text: 0..Len(job)]]
    /\ valid \subseteq Boxes
    /\ ui \in [pc: {"idle", "clear", "stop", "halt", "join", "gone"}, box: Boxes]
    /\ job \in Seq([box: Boxes, allowed: BOOLEAN, cancel: BOOLEAN,
                    engine: {"none", "live", "cancelled"}])
    /\ current \in 0..Len(job) /\ pending \in {0, current}
    /\ stopping \in BOOLEAN /\ alive \in BOOLEAN /\ model \in BOOLEAN
    /\ worker \in [pc: {"wait", "begin", "verify", "choose", "download", "reverify", "decode",
                        "engine", "publish", "transcribe", "unpublish", "catch", "release",
                        "check", "post", "ended"},
                   task: 0..Len(job), verified: BOOLEAN, code: Codes]
    /\ posted \in Seq([job: Jobs, code: Codes])

Init ==
    /\ box = [b \in Boxes |-> [state |-> "absent", pending |-> FALSE, allowed |-> FALSE,
                               job |-> 0, text |-> 0]]
    /\ valid = Boxes
    /\ ui \in [pc: {"idle"}, box: Boxes]
    /\ job = <<>> /\ current = 0 /\ pending = 0
    /\ stopping = FALSE /\ alive = TRUE
    /\ worker = Idle /\ model \in BOOLEAN /\ posted = <<>>

WorkerMutexFree == ui.pc # "halt"

(* Job::cancel: the flag, and then the engine under the job's mutex. *)
CancelFlag(j) == job' = [job EXCEPT ![j].cancel = TRUE]

CancelEngine(j) ==
    job' = [job EXCEPT ![j].engine = IF @ = "none" THEN "none" ELSE "cancelled"]

----------------------------------------------------------------------------
(* UI thread *)

Open(b) ==
    /\ ui.pc = "idle" /\ alive /\ b \in valid /\ box[b].state = "absent"
    /\ box' = [box EXCEPT ![b].state = "open"]
    /\ UNCHANGED <<valid, ui, job, shared, worker, model, posted>>

(* The chat changes, the account logs out, the application locks. *)
Invalidate(b) ==
    /\ ui.pc = "idle" /\ alive /\ b \in valid
    /\ valid' = valid \ {b}
    /\ UNCHANGED <<box, ui, job, shared, worker, model, posted>>

Refused == stopping \/ current # 0

(* The start button; the box is cleared before submit may refuse. *)
Start(b) ==
    /\ ui.pc = "idle" /\ alive /\ Len(job) < MaxJobs
    /\ box[b].state = "open" /\ ~box[b].pending /\ b \in valid
    /\ IF Refused
       THEN /\ box' = [box EXCEPT ![b].text = 0]
            /\ UNCHANGED <<job, current, pending>>
       ELSE LET j == Len(job) + 1
            IN  /\ job' = Append(job, [box |-> b, allowed |-> box[b].allowed,
                                       cancel |-> FALSE, engine |-> "none"])
                /\ current' = j /\ pending' = j
                /\ box' = [box EXCEPT ![b].text = 0, ![b].job = j, ![b].pending = TRUE]
    /\ UNCHANGED <<valid, ui, stopping, alive, worker, model, posted>>

(* clear: the box is closed and the flag of its job set ...                *)
Close(b) ==
    /\ ui.pc = "idle" /\ alive /\ box[b].state = "open"
    /\ ui' = [pc |-> "clear", box |-> b]
    /\ IF box[b].job # 0 THEN CancelFlag(box[b].job) ELSE UNCHANGED job
    /\ box' = [box EXCEPT ![b].state = "closed"]
    /\ UNCHANGED <<valid, shared, worker, model, posted>>

(* ... then the engine is cancelled and the text erased; the cancel of     *)
(* ~State repeats this one's.                                              *)
Clear ==
    LET b == ui.box IN
    /\ ui.pc = "clear"
    /\ IF box[b].job # 0 THEN CancelEngine(box[b].job) ELSE UNCHANGED job
    /\ box' = [box EXCEPT ![b].text = 0]
    /\ ui' = [ui EXCEPT !.pc = "idle"]
    /\ UNCHANGED <<valid, shared, worker, model, posted>>

(* The timer of the box *)
Tick(b) == b \notin valid /\ Close(b)

(* Broken: the request for the model returns before the box is freed.      *)
ShownFailing(state, m) ==
    IF m.code = "ModelRequired" THEN [state EXCEPT !.allowed = TRUE]
    ELSE [state EXCEPT !.pending = FALSE, !.job = 0, !.text = IF m.code = "Ok" THEN m.job ELSE @]

(* What the callback does to its box: the model is asked for, the text or  *)
(* the failure is shown.                                                   *)
Shown(state, m) ==
    [state EXCEPT !.pending = FALSE, !.job = 0,
                  !.allowed = @ \/ m.code = "ModelRequired",
                  !.text = IF m.code = "Ok" THEN m.job ELSE @]

Deliver ==
    LET m == Head(posted)
        b == job[m.job].box
    IN
    /\ ui.pc = "idle" /\ posted # <<>>
    /\ posted' = Tail(posted)
    /\ box' = IF alive /\ ~job[m.job].cancel /\ box[b].state = "open" /\ b \in valid
              THEN [box EXCEPT ![b] = Shown(@, m)] ELSE box
    /\ UNCHANGED <<valid, ui, job, shared, worker, model>>

(* ~Worker, from ~Application *)
Destroy ==
    /\ ui.pc = "idle" /\ alive
    /\ alive' = FALSE
    /\ ui' = [ui EXCEPT !.pc = "stop"]
    /\ UNCHANGED <<box, valid, job, current, pending, stopping, worker, model, posted>>

StopCurrent ==
    /\ ui.pc = "stop"
    /\ stopping' = TRUE
    /\ IF current # 0 THEN CancelFlag(current) ELSE UNCHANGED job
    /\ ui' = [ui EXCEPT !.pc = "halt"]
    /\ UNCHANGED <<box, valid, current, pending, alive, worker, model, posted>>

HaltCurrent ==
    /\ ui.pc = "halt"
    /\ IF current # 0 THEN CancelEngine(current) ELSE UNCHANGED job
    /\ ui' = [ui EXCEPT !.pc = "join"]
    /\ UNCHANGED <<box, valid, shared, worker, model, posted>>

Join ==
    /\ ui.pc = "join" /\ worker.pc = "ended"
    /\ ui' = [ui EXCEPT !.pc = "gone"]
    /\ UNCHANGED <<box, valid, job, shared, worker, model, posted>>

----------------------------------------------------------------------------
(* Worker thread *)

Cancelled == job[worker.task].cancel

At(pc) == worker.pc = pc
Go(pc) == worker' = [worker EXCEPT !.pc = pc]

Take ==
    /\ At("wait") /\ WorkerMutexFree
    /\ \/ /\ pending # 0
          /\ worker' = [Idle EXCEPT !.pc = "begin", !.task = pending]
          /\ pending' = 0
       \/ pending = 0 /\ stopping /\ Go("ended") /\ UNCHANGED pending
    /\ UNCHANGED <<box, valid, ui, job, current, stopping, alive, model, posted>>

(* A step of the job without an effect but its outcome: it throws when the *)
(* job is cancelled, and may for reasons of its own.                       *)
Attempt(pc, next) ==
    /\ At(pc)
    /\ \/ ~Cancelled /\ Go(next)
       \/ Go("catch")
    /\ UNCHANGED <<box, valid, ui, job, shared, model, posted>>

Begin == Attempt("begin", "verify")

(* VerifiedModel gives up when the job is cancelled. *)
Verify(pc, next) ==
    /\ At(pc)
    /\ worker' = [worker EXCEPT !.pc = next, !.verified = model /\ ~Cancelled]
    /\ UNCHANGED <<box, valid, ui, job, shared, model, posted>>

VerifyModel == Verify("verify", "choose")

Choose ==
    /\ At("choose")
    /\ \/ worker.verified /\ Go("decode")
       \/ ~worker.verified /\ job[worker.task].allowed /\ Go("download")
       \/ /\ ~worker.verified /\ ~job[worker.task].allowed
          /\ worker' = [worker EXCEPT !.pc = "release", !.code = "ModelRequired"]
    /\ UNCHANGED <<box, valid, ui, job, shared, model, posted>>

DownloadModel ==
    /\ At("download")
    /\ \/ ~Cancelled /\ model' = TRUE /\ Go("reverify")
       \/ Go("catch") /\ UNCHANGED model
    /\ UNCHANGED <<box, valid, ui, job, shared, posted>>

VerifyDownload == Verify("reverify", "decode")

(* The source is read and decoded. *)
DecodeSource == worker.verified /\ Attempt("decode", "engine")

DecodeUnverified ==
    /\ At("decode") /\ ~worker.verified /\ Go("catch")
    /\ UNCHANGED <<box, valid, ui, job, shared, model, posted>>

(* The flag is read again before the engine is made, not after. *)
CreateEngine == Attempt("engine", "publish")

(* Broken: the flag is not read again once the engine can be found.        *)
EngineUnchecked(j) == [job[j] EXCEPT !.engine = "live"]

(* Under the job's mutex                                                   *)
EnginePublished(j) == [job[j] EXCEPT !.engine = IF job[j].cancel THEN "cancelled" ELSE "live"]

PublishEngine ==
    /\ At("publish") /\ Go("transcribe")
    /\ job' = [job EXCEPT ![worker.task] = EnginePublished(worker.task)]
    /\ UNCHANGED <<box, valid, ui, shared, model, posted>>

(* Engine::transcribe listens to its own flag only. *)
Transcribe ==
    /\ At("transcribe")
    /\ \/ /\ job[worker.task].engine = "live"
          /\ worker' = [worker EXCEPT !.pc = "unpublish", !.code = "Ok"]
       \/ Go("catch")
    /\ UNCHANGED <<box, valid, ui, job, shared, model, posted>>

WithoutEngine == job' = [job EXCEPT ![worker.task].engine = "none"]

ResetEngine ==
    /\ At("unpublish") /\ Go("release") /\ WithoutEngine
    /\ UNCHANGED <<box, valid, ui, shared, model, posted>>

CatchFailure ==
    /\ At("catch") /\ WithoutEngine
    /\ worker' = [worker EXCEPT !.pc = "release",
                                !.code = IF Cancelled THEN "Cancelled" ELSE "Failed"]
    /\ UNCHANGED <<box, valid, ui, shared, model, posted>>

Release ==
    /\ At("release") /\ WorkerMutexFree
    /\ current' = 0 /\ Go("check")
    /\ UNCHANGED <<box, valid, ui, job, pending, stopping, alive, model, posted>>

CheckAlive ==
    /\ At("check")
    /\ worker' = IF alive THEN [worker EXCEPT !.pc = "post"] ELSE Idle
    /\ UNCHANGED <<box, valid, ui, job, shared, model, posted>>

PostResult ==
    /\ At("post")
    /\ posted' = Append(posted, [job |-> worker.task, code |-> worker.code])
    /\ worker' = Idle
    /\ UNCHANGED <<box, valid, ui, job, shared, model>>

----------------------------------------------------------------------------
UiStep == Clear \/ Deliver \/ StopCurrent \/ HaltCurrent \/ Join

WorkerStep ==
    \/ Take \/ Begin \/ VerifyModel \/ Choose \/ DownloadModel \/ VerifyDownload
    \/ DecodeSource \/ DecodeUnverified \/ CreateEngine \/ PublishEngine
    \/ Transcribe \/ ResetEngine \/ CatchFailure \/ Release \/ CheckAlive \/ PostResult

Next ==
    \/ \E b \in Boxes : Open(b) \/ Invalidate(b) \/ Start(b) \/ Close(b)
    \/ Destroy \/ UiStep \/ WorkerStep

Spec == Init /\ [][Next]_vars

(* The UI loop runs and its timers fire; the worker thread runs and each   *)
(* of its calls returns: downloads and decoding have deadlines             *)
(* (voice_worker.cpp:87, voice_decoder.cpp:28), recognition is bounded by  *)
(* the length of the sound.                                                *)
Fairness == WF_vars(UiStep) /\ WF_vars(WorkerStep) /\ \A b \in Boxes : WF_vars(Tick(b))

FairSpec == Spec /\ Fairness

----------------------------------------------------------------------------
(* Properties *)

(* A cancelled job never runs an engine that has not heard of it, whether  *)
(* the cancel came before, during or after the engine's creation           *)
(* (voice_worker.cpp:113-117, 195-199), but between the two steps of the   *)
(* cancel itself.                                                          *)
EngineHears == \A j \in Jobs :
    job[j].cancel /\ job[j].engine = "live" =>
        \/ ui.pc = "clear" /\ box[ui.box].job = j
        \/ ui.pc = "halt" /\ current = j

(* A text is shown in the box that asked for it, while it is open (or just *)
(* being cleared) and asks for nothing else.                               *)
TextAtHome == \A b \in Boxes : box[b].text # 0 =>
    /\ job[box[b].text].box = b /\ ~box[b].pending
    /\ box[b].state = "open" \/ (ui.pc = "clear" /\ ui.box = b)
    /\ \A j \in Jobs : job[j].box = b => j <= box[b].text

(* A job whose box was closed is cancelled: nothing runs for nobody.       *)
NoneAbandoned == \A j \in Jobs :
    box[job[j].box].state = "closed" /\ (j = current \/ \E i \in 1..Len(posted) : posted[i].job = j)
        => job[j].cancel

(* Cancelling reaches the engine, the callback and the box.                *)
CancelHonoured == TypeOK /\ EngineHears /\ TextAtHome /\ NoneAbandoned

(* A box that waits is answered or closed, and the destructor returns: no  *)
(* callback is lost and nobody waits for a worker that waits too.          *)
WaitsEnd ==
    /\ \A b \in Boxes : box[b].pending ~> ~box[b].pending \/ box[b].state = "closed" \/ ~alive
    /\ ~alive ~> ui.pc = "gone"
=============================================================================
